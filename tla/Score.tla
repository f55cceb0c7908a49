------------------------------- MODULE Score --------------------------------
(***************************************************************************)
(* ssu_score: options, discovery of questions and students, the score      *)
(* table kept between runs, grading with compiled and timed programs, the  *)
(* sort and the result file.  Scores count thousandths of a point, time    *)
(* counts clock ticks.  The program may be stopped at any step and run     *)
(* again; only the files outlive it.  Whether a blank answer matches is    *)
(* module Blank; here a submission is right or wrong.                      *)
(***************************************************************************)
EXTENDS Integers, Sequences, FiniteSets, FiniteSetsExt, SequencesExt, Functions

CONSTANTS AnswerFiles,      \* [major, minor, ext, regular] of each file of ANS_DIR
          Students,         \* ids of the student directories, naturals in the order of strcmp
          MaxOptionArgs, MaxQuestions, MaxStudents,
          Timeout, Poll, Delay,      \* the limit, the pause, and how late a step may be
          Commands,         \* bound: argument lists
          Typed,            \* bound: scores typed at a prompt
          Programs,         \* bound: behaviours of the answer's program, see Submission
          Work,             \* bound: what each student may have handed in
          MaxRuns           \* bound: runs of ssu_score

VARIABLES sc    \* phase, run, arguments, options, questions, scores, files, and the state of grading

Penalty == 100
Never == 1000000        \* the end of a program that does not end
NoTable == [exists |-> FALSE, rows |-> <<>>]
NoOptions == [m |-> FALSE, c |-> FALSE, p |-> FALSE, t |-> FALSE, s |-> FALSE, e |-> FALSE, n |-> "none",
              err |-> "none", ids |-> <<>>, qs |-> <<>>, key |-> "none", dir |-> 1]
NoChild == [pc |-> "none", now |-> 0, end |-> 0]
Fresh == [phase |-> "options", args |-> <<>>, opt |-> NoOptions, questions |-> <<>>, score |-> <<>>, typed |-> FALSE,
          order |-> <<>>, si |-> 1, qi |-> 1, earned |-> <<>>, wrong |-> <<>>, subs |-> <<>>, child |-> NoChild,
          shown |-> <<>>]

Init == sc = Fresh @@ [run |-> 1, table |-> NoTable, csv |-> <<>>, diags |-> {}]

Error == sc' = [sc EXCEPT !.phase = "error"]
Go(phase) == sc' = [sc EXCEPT !.phase = phase]

-----------------------------------------------------------------------------
(* Options                                                                 *)

OptionNames == {"-n", "-m", "-c", "-p", "-t", "-s", "-e", "-h"}

\* The arguments up to the next option.
Group(args) ==
    LET stops == {k \in DOMAIN args : args[k] \in OptionNames}
    IN  SubSeq(args, 1, Min(stops \cup {Len(args) + 1}) - 1)
Limited(group) == SubSeq(group, 1, Min({Len(group), MaxOptionArgs}))
Skip(args, k) == SubSeq(args, k + 1, Len(args))

Refused == [ok |-> FALSE, opt |-> NoOptions]

\* Seeded fault: ids after -c and after -p are both taken.
IdsTwice_Never(o, ids) == FALSE

\* add_limited_arguments: one group of ids, after -c or after -p.
IdsTwice(o, ids) == ids # <<>> /\ o.ids # <<>>

\* `seen' has the options met so far.
RECURSIVE parse_options(_, _, _)
parse_options(args, seen, o) ==
    LET a == Head(args)
        rest == Tail(args)
        group == Group(rest)
        next(k, p) == parse_options(Skip(rest, k), seen \cup {a}, p)
        show == [o EXCEPT !.c = @ \/ a = "-c", !.p = @ \/ a = "-p",
                          !.ids = IF o.ids = <<>> THEN Limited(group) ELSE @]
    IN  IF args = <<>> THEN [ok |-> o.n \in {"none", "x.csv"}, opt |-> o]
        ELSE IF a \notin OptionNames \ {"-h"} \/ a \in seen THEN Refused
        ELSE CASE a = "-n" -> IF rest = <<>> THEN Refused ELSE next(1, [o EXCEPT !.n = rest[1]])
               [] a = "-m" -> next(0, [o EXCEPT !.m = TRUE])
               [] a \in {"-c", "-p"} -> IF IdsTwice(o, group) THEN Refused ELSE next(Len(group), show)
               [] a = "-t" -> next(Len(group), [o EXCEPT !.t = TRUE, !.qs = Limited(group)])
               [] a = "-s" -> IF Len(rest) < 2 THEN Refused
                              ELSE IF rest[1] \notin {"stdid", "score"} \/ rest[2] \notin {"1", "-1"} THEN Refused
                              ELSE next(2, [o EXCEPT !.s = TRUE, !.key = rest[1],
                                                     !.dir = IF rest[2] = "1" THEN 1 ELSE -1])
               [] a = "-e" -> IF rest = <<>> THEN Refused
                              ELSE next(1, [o EXCEPT !.e = TRUE, !.err = rest[1]])

\* ssu_score: -h stands alone; the two directories exist.
ssu_score(args) ==
    LET r == parse_options(args, {}, NoOptions)
    IN  /\ sc.phase = "options"
        /\ IF (\E k \in DOMAIN args : args[k] = "-h") \/ ~r.ok THEN Error
           ELSE sc' = [sc EXCEPT !.args = args, !.opt = r.opt, !.phase = "discover"]

-----------------------------------------------------------------------------
(* Questions, students and the options about them                          *)

Before(q, r) == \/ q.major < r.major
                \/ q.major = r.major /\ q.minor < r.minor
                \/ q.major = r.major /\ q.minor = r.minor /\ q.ext = "c" /\ r.ext = "txt"   \* strcmp

discover_questions == {f \in AnswerFiles : f.ext \in {"txt", "c"} /\ f.regular}

discover ==
    LET found == discover_questions
    IN  /\ sc.phase = "discover"
        /\ IF found = {} \/ Cardinality(found) > MaxQuestions THEN Error
           ELSE IF Students = {} \/ Cardinality(Students) > MaxStudents THEN Error
           ELSE sc' = [sc EXCEPT !.questions = SetToSortSeq(found, Before), !.phase = "validate",
                                 !.order = SetToSortSeq(Students, LAMBDA a, b : a < b)]

\* A name is that of the file, or its stem; the first question of the list wins.
NameOf(q) == <<q.major, q.minor, q.ext>>
Stem(q) == <<q.major, q.minor>>
Nowhere == 0
find_question(name) ==
    LET ks == {k \in DOMAIN sc.questions : name \in {NameOf(sc.questions[k]), Stem(sc.questions[k])}}
    IN  IF ks = {} THEN Nowhere ELSE Min(ks)
IsProgram(k) == sc.questions[k].ext = "c"

\* Arguments of -t name the question 2 of the programs, or one that is none.
ThreadName(a) == IF a = "q2" THEN <<2, 0>> ELSE <<9, 9>>
StudentId(a) == CASE a = "s1" -> 1 [] a = "s2" -> 2 [] a = "s3" -> 3 [] OTHER -> 0

validate_option_targets ==
    /\ sc.phase = "validate"
    /\ IF \/ \E k \in DOMAIN sc.opt.ids : StudentId(sc.opt.ids[k]) \notin Students
          \/ \E k \in DOMAIN sc.opt.qs :
                LET q == find_question(ThreadName(sc.opt.qs[k]))
                IN  IF q = Nowhere THEN TRUE ELSE ~IsProgram(q)
       THEN Error ELSE Go("table")

-----------------------------------------------------------------------------
(* The score table                                                         *)

\* "%.2f": to the nearest hundredth.
Rounded(x) == ((x + 5) \div 10) * 10

\* Seeded fault: a question the table does not name keeps the score it has, zero.
Complete_Any(rows) == TRUE

Complete(rows) == \A k \in DOMAIN sc.questions : \E j \in DOMAIN rows : rows[j].name = NameOf(sc.questions[k])

\* Every row names a question, by its file name and once.
read_score_table ==
    LET rows == sc.table.rows
        of(k) == {j \in DOMAIN rows : rows[j].name = NameOf(sc.questions[k])}
    IN  /\ sc.phase = "table" /\ sc.table.exists
        /\ IF \/ \E j \in DOMAIN rows : find_question(rows[j].name) = Nowhere \/ rows[j].score < 0
              \/ \E k \in DOMAIN sc.questions : Cardinality(of(k)) > 1
              \/ ~Complete(rows)
           THEN Error
           ELSE sc' = [sc EXCEPT !.phase = IF sc.opt.m THEN "modify" ELSE "errors",
                                 !.score = [k \in DOMAIN sc.questions |->
                                              IF of(k) = {} THEN 0 ELSE rows[Min(of(k))].score]]

\* No table: -m is refused; one score for each question, or equal ones for each class.
create_score_table(score) ==
    /\ sc.phase = "table" /\ ~sc.table.exists
    /\ IF sc.opt.m THEN Error
       ELSE sc' = [sc EXCEPT !.score = score, !.typed = TRUE, !.phase = "open table"]

\* The input ends at a prompt of create or modify: what was typed is lost.
prompt_eof ==
    /\ (sc.phase = "table" /\ ~sc.table.exists) \/ sc.phase = "modify"
    /\ Error

modify_score_table(name, v) ==
    LET k == find_question(name)
    IN  /\ sc.phase = "modify"
        /\ k # Nowhere
        /\ sc' = [sc EXCEPT !.score[k] = v, !.typed = TRUE]

modify_no == sc.phase = "modify" /\ Go("open table")

\* fopen("w") empties the file; the rows reach it when fclose() flushes the buffer.
write_score_table_open ==
    /\ sc.phase = "open table"
    /\ sc' = [sc EXCEPT !.table = [exists |-> TRUE, rows |-> <<>>], !.phase = "close table"]

write_score_table_close ==
    /\ sc.phase = "close table"
    /\ sc' = [sc EXCEPT !.phase = "errors",
                        !.table.rows = [k \in DOMAIN sc.questions |->
                            [name |-> NameOf(sc.questions[k]), score |-> Rounded(sc.score[k])]]]

-----------------------------------------------------------------------------
(* Programs                                                                *)

\* What is handed in for a question: nothing, a blank answer, or a program that compiles
\* or not, with warnings, with threads or not, and when run ends at a tick, with output as
\* the answer's or not.
Submission(s, k) == {w \in Work[s] : w.kind \in {"missing", IF IsProgram(k) THEN "program" ELSE "blank"}}

\* -t with names of questions, or alone for all programs.
selected_for_thread(k) == sc.opt.t /\ (sc.opt.qs = <<>> \/ \E j \in DOMAIN sc.opt.qs :
                             ThreadName(sc.opt.qs[j]) \in {NameOf(sc.questions[k]), Stem(sc.questions[k])})

\* gcc's status, and whether it printed anything: errors, or the warnings that are counted.
\* A program with threads links with -lpthread only.
compile_source(p, pthread_link) ==
    LET good == p.compiles /\ (p.threads => pthread_link)
    IN  [status |-> IF good THEN 0 ELSE 1, messages |-> p.warnings > 0 \/ ~good]

Start(end) == [pc |-> "wait", now |-> 0, end |-> end]

\* An unsafe directory is refused; an existing one is emptied.
prepare_error_directory ==
    /\ sc.phase = "errors"
    /\ IF sc.opt.e /\ sc.opt.err # "dir" THEN Error
       ELSE sc' = [sc EXCEPT !.phase = "answers", !.qi = 1, !.diags = IF sc.opt.e THEN {} ELSE @]

\* The answer's program is compiled and run; the next question is taken when it has ended.
prepare_answer_programs ==
    LET n == Len(sc.questions)
    IN  /\ sc.phase = "answers" /\ sc.child.pc = "none"
        /\ CASE sc.qi > n -> sc' = [sc EXCEPT !.phase = "grade", !.qi = 1,
                                      !.earned = [s \in DOMAIN sc.order |-> [k \in 1..n |-> 0]],
                                      !.wrong = [s \in DOMAIN sc.order |-> <<>>],
                                      !.subs = [s \in DOMAIN sc.order |-> [k \in 1..n |-> [kind |-> "missing"]]]]
             [] sc.qi <= n /\ ~IsProgram(sc.qi) -> sc' = [sc EXCEPT !.qi = @ + 1]
             [] OTHER -> \E p \in Programs :
                            IF compile_source(p, selected_for_thread(sc.qi)).status # 0 THEN Error ELSE sc' = [sc EXCEPT !.child = Start(p.end)]

\* spawn_and_wait: waitpid(WNOHANG) ...
spawn_and_wait ==
    /\ sc.child.pc = "wait"
    /\ sc' = [sc EXCEPT !.child.pc = IF sc.child.end <= sc.child.now THEN "exited" ELSE "clock"]

\* Seeded fault: the limit is compared with the time of the last poll.
Expired_Late(now) == now > Timeout + Poll

Expired(now) == now >= Timeout

\* ... then the clock, which may be read late: kill and wait, or a pause, perhaps too long.
clock_check(late, over) ==
    LET now == sc.child.now + late
    IN  /\ sc.child.pc = "clock"
        /\ sc' = [sc EXCEPT !.child.pc = IF Expired(now) THEN "timed out" ELSE "wait",
                            !.child.now = IF Expired(now) THEN now ELSE now + Poll + over]

\* The answer's program has ended; it must not have been killed.
answer_ran ==
    /\ sc.phase = "answers" /\ sc.child.pc \in {"exited", "timed out"}
    /\ IF sc.child.pc = "timed out" THEN Error
       ELSE sc' = [sc EXCEPT !.child = NoChild, !.qi = @ + 1]

-----------------------------------------------------------------------------
(* Grading                                                                 *)

Total(row) == FoldFunction(LAMBDA a, b : a + b, 0, row)

selected_for_display(id) == sc.opt.ids = <<>> \/ \E k \in DOMAIN sc.opt.ids : StudentId(sc.opt.ids[k]) = id

\* The line about a student who is finished: the total with -c, the wrong problems with -p.
print_wrong_answers(id, total, wrong) ==
    IF selected_for_display(id) /\ (sc.opt.c \/ sc.opt.p)
    THEN <<[id |-> id, total |-> IF sc.opt.c THEN total ELSE -1, wrong |-> IF sc.opt.p THEN wrong ELSE <<>>]>>
    ELSE <<>>

\* The question's points; the next question, the next student, or the end.
Record(sub, points, correct, diags) ==
    LET lastq == sc.qi = Len(sc.questions)
        lasts == sc.si = Len(sc.order)
        wrong == IF correct THEN sc.wrong[sc.si] ELSE Append(sc.wrong[sc.si], sc.qi)
        total == Total([sc.earned[sc.si] EXCEPT ![sc.qi] = points])
    IN  sc' = [sc EXCEPT !.earned[sc.si][sc.qi] = points,
                         !.wrong[sc.si] = wrong,
                         !.shown = IF lastq THEN @ \o print_wrong_answers(sc.order[sc.si], total, wrong) ELSE @,
                         !.subs[sc.si][sc.qi] = sub @@ [timed |-> sc.child.pc = "timed out"],
                         !.diags = diags, !.child = NoChild,
                         !.qi = IF lastq THEN 1 ELSE @ + 1,
                         !.si = IF lastq THEN @ + 1 ELSE @,
                         !.phase = IF lastq /\ lasts THEN "sort" ELSE @]

\* Seeded fault: a program's wrong output still pays the points less the warnings.
credit_NoCompare(p, score) == score - p.warnings * Penalty

credit(p, score) == IF p.same THEN score - p.warnings * Penalty ELSE 0

\* A file of diagnostics that is not empty is kept in the error directory, if there is one.
preserve_diagnostic(p) ==
    IF compile_source(p, selected_for_thread(sc.qi)).messages /\ sc.opt.e
    THEN sc.diags \cup {<<sc.order[sc.si], sc.qi>>} ELSE sc.diags

\* grade_program: compile and keep the diagnostics; a program that compiles is run.
grade_students(sub) ==
    LET score == sc.score[sc.qi]
        diags == preserve_diagnostic(sub)
    IN  /\ sc.phase = "grade" /\ sc.child.pc = "none"
        /\ CASE sub.kind = "missing" -> Record(sub, 0, FALSE, sc.diags)
             [] sub.kind = "blank" -> Record(sub, IF sub.right THEN score ELSE 0, sub.right, sc.diags)
             [] sub.kind = "program" ->
                  IF compile_source(sub, selected_for_thread(sc.qi)).status # 0 THEN Record(sub, 0, FALSE, diags)
                  ELSE sc' = [sc EXCEPT !.child = Start(sub.end), !.diags = diags,
                                        !.subs[sc.si][sc.qi] = sub]

grade_program ==
    LET sub == sc.subs[sc.si][sc.qi]
    IN  /\ sc.phase = "grade" /\ sc.child.pc \in {"exited", "timed out"}
        /\ IF sc.child.pc = "timed out" THEN Record(sub, 0, FALSE, sc.diags)
           ELSE Record(sub, credit(sub, sc.score[sc.qi]), sub.same, sc.diags)

\* By total or by id, and one order for equal totals.
compare_students(a, b) ==
    LET ta == Total(sc.earned[a])
        tb == Total(sc.earned[b])
        comparison == IF sc.opt.key = "score" /\ ta # tb THEN ta - tb ELSE sc.order[a] - sc.order[b]
    IN  sc.opt.dir * comparison

RECURSIVE merge_students(_, _)
merge_students(left, right) ==
    IF left = <<>> THEN right
    ELSE IF right = <<>> THEN left
    ELSE IF compare_students(Head(left), Head(right)) <= 0
         THEN <<Head(left)>> \o merge_students(Tail(left), right)
         ELSE <<Head(right)>> \o merge_students(left, Tail(right))

\* slow stops where fast, two nodes at a time from the second, reaches the end.
RECURSIVE sort_student_list(_)
sort_student_list(list) ==
    LET half == (Len(list) + 1) \div 2
    IN  IF Len(list) <= 1 THEN list
        ELSE merge_students(sort_student_list(SubSeq(list, 1, half)),
                            sort_student_list(SubSeq(list, half + 1, Len(list))))

\* The rows of the result file, cells to two places.
write_result_csv ==
    LET list == [k \in DOMAIN sc.order |-> k]
        rows == IF sc.opt.s THEN sort_student_list(list) ELSE list
    IN  /\ sc.phase = "sort"
        /\ sc' = [sc EXCEPT !.phase = "done",
                            !.csv = [k \in DOMAIN rows |->
                               [student |-> rows[k],
                                cells |-> [q \in DOMAIN sc.questions |-> Rounded(sc.earned[rows[k]][q])],
                                sum |-> Rounded(Total(sc.earned[rows[k]]))]]]

\* The process ends, or is stopped at any step; the files stay.
again ==
    /\ sc.run < MaxRuns
    /\ sc.phase # "options"
    /\ sc' = Fresh @@ [run |-> sc.run + 1, table |-> sc.table, csv |-> <<>>, diags |-> sc.diags]

Next ==
    \/ \E args \in Commands : ssu_score(args)
    \/ discover \/ validate_option_targets \/ read_score_table \/ prompt_eof \/ modify_no
    \/ sc.phase = "table" /\ \E f \in [DOMAIN sc.questions -> Typed] : create_score_table(f)
    \/ \E q \in {<<2, 0>>, <<2, 0, "c">>, <<9, 9>>}, v \in Typed : modify_score_table(q, v)
    \/ write_score_table_open \/ write_score_table_close
    \/ prepare_error_directory \/ prepare_answer_programs
    \/ spawn_and_wait \/ \E late, over \in 0..Delay : clock_check(late, over)
    \/ answer_ran
    \/ sc.phase = "grade" /\ \E sub \in Submission(sc.order[sc.si], sc.qi) : grade_students(sub)
    \/ grade_program \/ write_result_csv \/ again

-----------------------------------------------------------------------------

Matched(sub) == IF sub.kind = "blank" THEN sub.right
                ELSE sub.compiles /\ ~sub.timed /\ sub.same /\ (sub.threads => Contains(sc.args, "-t"))

Expected(s, k) ==
    LET sub == sc.subs[s][k]
    IN  CASE sub.kind = "missing" -> 0
          [] sub.kind = "blank" -> IF Matched(sub) THEN sc.score[k] ELSE 0
          [] OTHER -> IF Matched(sub) THEN sc.score[k] - sub.warnings * Penalty ELSE 0

\* The result has each student once, in the order asked for, every cell what the work
\* earned, and its cells add up to its sum whenever the scores were read from the table.
GradesExact ==
    sc.phase = "done" =>
        /\ {sc.csv[k].student : k \in DOMAIN sc.csv} = DOMAIN sc.order /\ Len(sc.csv) = Len(sc.order)
        /\ \A k \in DOMAIN sc.csv : LET r == sc.csv[k]
              IN  /\ \A q \in DOMAIN sc.questions : r.cells[q] = Rounded(Expected(r.student, q))
                  /\ ~sc.typed => Total(r.cells) = r.sum
        /\ \A j, k \in DOMAIN sc.csv : j < k /\ sc.opt.s /\ sc.opt.key = "score" /\ ~sc.typed =>
              sc.opt.dir * (sc.csv[k].sum - sc.csv[j].sum) >= 0

\* A run that grades has a score for every question that somebody typed, at this run's
\* prompt or, rounded, at an earlier one's: a table cut short by a stop is never used.
ScoresTyped ==
    sc.phase \in {"grade", "sort", "done"} =>
        \A k \in DOMAIN sc.questions : sc.score[k] \in Typed \cup {Rounded(v) : v \in Typed}

\* README, 7: a program that comes to the limit is killed and has no points.  A program
\* that is killed ran at least to within one late reading of the limit.  The other way
\* round there is an exception, by which the code departs from the README: between two
\* polls nobody looks, and the next one asks for the end of the program before it reads
\* the clock, so one that ended at the limit or up to a pause and a late reading after it
\* is graded like any other.  Later than that none is.
TimeoutFair ==
    /\ sc.child.pc = "timed out" => sc.child.end > Timeout - Delay - 1
    /\ sc.child.pc = "exited" => sc.child.end < Timeout + Poll + Delay

\* An accepted command has its ids in one group only, after -c or -p, and keeps at most
\* MaxOptionArgs of them, the first.  When grading ends, with -c or -p exactly the students
\* of that group, or all if it is empty, have been shown, each once, with the total of
\* the result file and the problems that did not match.
OptionsSound ==
    LET flags == {k \in DOMAIN sc.args : sc.args[k] \in {"-c", "-p"}}
        groups == {k \in flags : Group(Skip(sc.args, k)) # <<>>}
        asked == {StudentId(a) : a \in UNION {ToSet(Limited(Group(Skip(sc.args, k)))) : k \in groups}}
        row(id) == CHOOSE k \in DOMAIN sc.csv : sc.order[sc.csv[k].student] = id
    IN  /\ sc.phase \notin {"options", "error"} =>
              /\ Cardinality(groups) <= 1
              /\ \A k \in groups : sc.opt.ids = Limited(Group(Skip(sc.args, k)))
        /\ sc.phase = "done" =>
              /\ {sc.shown[k].id : k \in DOMAIN sc.shown} =
                    CASE flags = {} -> {} [] groups # {} -> asked [] OTHER -> Students
              /\ IsInjective([k \in DOMAIN sc.shown |-> sc.shown[k].id])
              /\ \A k \in DOMAIN sc.shown :
                    LET s == sc.csv[row(sc.shown[k].id)].student
                    IN  /\ sc.opt.c => Rounded(sc.shown[k].total) = sc.csv[row(sc.shown[k].id)].sum
                        /\ sc.opt.p => ToSet(sc.shown[k].wrong) =
                              {q \in DOMAIN sc.questions : sc.subs[s][q].kind = "missing" \/ ~Matched(sc.subs[s][q])}
=============================================================================
