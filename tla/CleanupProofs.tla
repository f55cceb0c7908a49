--------------------------- MODULE CleanupProofs ---------------------------
(***************************************************************************)
(* Proofs about the registry of ssu_cleanup, for any number of shells,     *)
(* directories, options and daemons: the list never has overlapping        *)
(* directories, and a daemon that works was registered and finds its       *)
(* configuration, unless a shell is rewriting that or died doing so.  One  *)
(* lemma per action shows that it preserves IInv.                          *)
(***************************************************************************)
EXTENDS Cleanup, FiniteSetTheorems, TLAPS

\* Process ids are given out in order, so the next one is unused.
Used == {q \in Pid : state[q] # "none"}
PidsInOrder == \E k \in 0..MaxPid : Used = 1..k

\* What a shell in the middle of a command remembers.
PartialOptions == UNION {[S -> Value] : S \in SUBSET Option}
Command == [dir : Dir \cup {NoDir}, pid : 0..MaxPid, opts : PartialOptions, conf : Config \cup {NoConf}]

ShellInv ==
    /\ at \in [Shell -> Command]
    /\ \A s \in Shell :
        /\ pc[s] # "prompt" => at[s].dir \in Dir
        /\ pc[s] = "fork" \/ Adding(s) => at[s].opts \in Options
        /\ Adding(s) \/ pc[s] = "kill" => at[s].pid \in Used /\ dirOf[at[s].pid] = at[s].dir
        /\ pc[s] \in {"write", "rewriting"} =>
              /\ at[s].conf \in Config
              /\ at[s].conf.pid \in Used /\ dirOf[at[s].conf.pid] = at[s].dir

\* Entries, configurations and marks are about daemons that were started.
ExistInv ==
    /\ \A e \in list : e.pid \in Used
    /\ \A d \in Dir : conf[d] \in Config => conf[d].pid \in Used
    /\ ready \subseteq Used /\ refused \subseteq Used /\ deserted \subseteq Used
    /\ \A p \in Used : dirOf[p] \in Dir

\* A daemon has one shell that starts it; it has neither its byte nor begun to work
\* until that shell has begun to write the configuration and registered it.
StartInv ==
    /\ \A s, t \in Shell : s # t /\ Adding(s) /\ Adding(t) => at[s].pid # at[t].pid
    /\ \A s \in Shell : Adding(s) => at[s].pid \notin ready /\ ~Working(at[s].pid)
    /\ \A s \in Shell : Adding(s) /\ pc[s] # "config" => conf[at[s].dir] # NoConf
    /\ \A s \in Shell : Adding(s) /\ pc[s] # "abort" => at[s].pid \notin refused
    /\ \A s \in Shell : Adding(s) => at[s].pid \notin deserted
    /\ \A p \in ready : p \notin refused /\ p \notin deserted /\ conf[dirOf[p]] # NoConf

\* A daemon that works has come through its start; a configuration, once there, stays.
WorkInv ==
    \A p \in Pid : Working(p) => p \notin refused /\ p \notin deserted /\ conf[dirOf[p]] # NoConf

\* A torn configuration is being written, or was when its writer died.
TornInv == \A d \in Dir : conf[d] = Torn => Locked(d) \/ d \in broken

IInv == TypeOK /\ PidsInOrder /\ ShellInv /\ ExistInv /\ StartInv /\ NoOverlap /\ WorkInv /\ TornInv

-----------------------------------------------------------------------------
(* What the commands remember                                              *)

\* Options of add, and the one option of a modify, are partial options.
LEMMA FullOptions == Options \subseteq PartialOptions
  BY DEF Options, PartialOptions

\* The single option a modify carries is a partial option.
LEMMA OneOption ==
  ASSUME NEW o \in Option, NEW v \in Value
  PROVE  [x \in {o} |-> v] \in PartialOptions
<1>1. {o} \in SUBSET Option /\ [x \in {o} |-> v] \in [{o} -> Value]
  OBVIOUS
<1> QED
  BY <1>1 DEF PartialOptions

\* The records the commands begin with.
LEMMA NoCommandType == NoCommand \in Command
<1>1. [o \in {} |-> 0] \in PartialOptions
  <2>1. {} \in SUBSET Option /\ [o \in {} |-> 0] \in [{} -> Value]
    OBVIOUS
  <2> QED
    BY <2>1 DEF PartialOptions
<1> QED
  BY <1>1, BoundAssumption DEF NoCommand, Command

\* A command that add or modify starts on a directory with its options.
LEMMA CommandOf ==
  ASSUME NEW d \in Dir, NEW opts \in PartialOptions
  PROVE  LET c == [NoCommand EXCEPT !.dir = d, !.opts = opts]
         IN  c \in Command /\ c.dir = d /\ c.opts = opts
  BY NoCommandType DEF Command

\* The command with the daemon it has found or forked filled in.
LEMMA CommandOn ==
  ASSUME NEW d \in Dir, NEW p \in Pid
  PROVE  LET c == [NoCommand EXCEPT !.dir = d, !.pid = p]
         IN  c \in Command /\ c.dir = d /\ c.pid = p
<1>1. p \in 0..MaxPid
  BY BoundAssumption DEF Pid
<1> QED
  BY <1>1, NoCommandType DEF Command

-----------------------------------------------------------------------------
(* One lemma per action                                                    *)

\* Nobody who is writing a configuration leaves off, or he is remembered.
LEMMA TornKept ==
  ASSUME TornInv, conf' = conf, broken \subseteq broken',
         \A t \in Shell : Writing(t) => \/ Writing(t)' /\ at'[t].dir = at[t].dir
                                        \/ at[t].dir \in broken'
  PROVE  TornInv'
  BY DEF TornInv, Locked

\* add_check preserves the invariant.
LEMMA add_checkInv ==
  ASSUME IInv, NEW s \in Shell, NEW d \in Dir, NEW opts \in Options, add_check(s, d, opts)
  PROVE  IInv'
<1> USE SentinelAssumption, BoundAssumption DEF IInv
<1>1. \/ UNCHANGED <<pc, at>>
      \/ /\ pc'[s] = "fork" /\ at'[s].dir = d /\ at'[s].opts = opts
         /\ at' \in [Shell -> Command]
         /\ \A t \in Shell : t # s => at'[t] = at[t] /\ pc'[t] = pc[t]
  <2> DEFINE c == [NoCommand EXCEPT !.dir = d, !.opts = opts]
  <2>1. c \in Command /\ c.dir = d /\ c.opts = opts
    BY CommandOf, FullOptions
  <2> HIDE DEF c
  <2>2. UNCHANGED <<pc, at>> \/ (pc' = [pc EXCEPT ![s] = "fork"] /\ at' = [at EXCEPT ![s] = c])
    BY DEF add_check, Goto, c, ghostVars
  <2> QED
    BY <2>1, <2>2 DEF TypeOK, ShellInv
<1>2. TypeOK'
  BY <1>1 DEF add_check, Goto, Pruned, daemonVars, TypeOK, ShellInv, Command, Used, Config, ExistInv, ghostVars
<1>3. PidsInOrder'
  BY <1>1 DEF add_check, Goto, Pruned, daemonVars, PidsInOrder, Used, TypeOK, ShellInv, Adding, ghostVars
<1>4. ShellInv'
  BY <1>1 DEF add_check, Goto, Pruned, daemonVars, TypeOK, ShellInv, Adding, Used, ExistInv, ghostVars
<1>5. ExistInv'
  BY <1>1 DEF add_check, Goto, Pruned, daemonVars, TypeOK, ExistInv, ShellInv, Used, Adding, Config, ghostVars
<1>6. StartInv'
  BY <1>1 DEF add_check, Goto, Pruned, daemonVars, TypeOK, ShellInv, StartInv, ExistInv, Adding, Working, Used, ghostVars
<1>7. NoOverlap'
  BY DEF add_check, Goto, Pruned, daemonVars, TypeOK, NoOverlap, paths_overlap, ghostVars
<1>8. WorkInv'
  BY DEF add_check, Goto, Pruned, daemonVars, TypeOK, ShellInv, StartInv, WorkInv, Working, Adding, ghostVars
<1>9. TornInv'
  BY TornKept, <1>1 DEF add_check, Goto, Pruned, daemonVars, Writing, TypeOK, ghostVars
<1> QED
  BY <1>2, <1>3, <1>4, <1>5, <1>6, <1>7, <1>8, <1>9

\* ftruncate under the lock: the configuration of one directory is torn, its shell is
\* writing, and nothing else moves.
LEMMA TruncateInv ==
  ASSUME IInv, NEW s \in Shell, NEW label,
         \/ pc[s] = "config" /\ label = "filling"
         \/ pc[s] = "write" /\ label = "rewriting",
         truncate_config(s, label)
  PROVE  IInv'
<1> USE SentinelAssumption DEF IInv
<1>1. /\ at[s].dir \in Dir /\ pc' = [pc EXCEPT ![s] = label]
      /\ conf' = [conf EXCEPT ![at[s].dir] = Torn]
      /\ UNCHANGED <<list, state, stop, dirOf, parent, ready, refused, at, broken, deserted>>
  BY DEF truncate_config, Goto, daemonVars, ghostVars, ShellInv
<1>2. Adding(s) <=> label = "filling"
  BY DEF Adding
<1>3. TypeOK'
  BY <1>1 DEF TypeOK
<1>4. PidsInOrder'
  BY <1>1 DEF PidsInOrder, Used
<1>5. \A t \in Shell :
        /\ Adding(t)' <=> Adding(t)
        /\ (t # s) => pc'[t] = pc[t]
        /\ (pc'[t] \in {"write", "rewriting"}) <=> (pc[t] \in {"write", "rewriting"})
        /\ (pc'[t] = "prompt") <=> (pc[t] = "prompt")
        /\ (pc'[t] \in {"fork", "kill", "abort"}) => (pc'[t] = pc[t])
        /\ (pc[t] = "abort") => (pc'[t] = pc[t])
  BY <1>1, <1>2 DEF TypeOK, Adding
<1>6. ShellInv'
  BY <1>1, <1>5 DEF ShellInv, Used
<1>7. ExistInv'
  BY <1>1 DEF TypeOK, ExistInv, Used
<1>8. \A d \in Dir : conf[d] # NoConf \/ d = at[s].dir => conf'[d] # NoConf
  BY <1>1 DEF TypeOK
<1>9. \A p \in Pid : p \in ready \/ Working(p) => conf[dirOf[p]] # NoConf /\ dirOf[p] \in Dir
  BY DEF ExistInv, Used, StartInv, WorkInv, Working
<1>10. StartInv'
  <2>1. \A t \in Shell : Adding(t)' /\ pc'[t] # "config" => conf'[at'[t].dir] # NoConf
    BY <1>1, <1>5, <1>8 DEF StartInv, ShellInv, Adding
  <2>2. \A p \in ready : conf'[dirOf[p]] # NoConf
    BY <1>8, <1>9 DEF TypeOK
  <2> QED
    BY <1>1, <1>5, <2>1, <2>2 DEF StartInv, Working
<1>11. NoOverlap'
  BY <1>1 DEF NoOverlap
<1>12. WorkInv'
  BY <1>1, <1>8, <1>9 DEF WorkInv, Working
<1>13. TornInv'
  <2>1. \A t \in Shell : Writing(t) => Writing(t)' /\ at'[t].dir = at[t].dir
    BY <1>1 DEF Writing, TypeOK
  <2>2. Writing(s)' /\ at'[s].dir = at[s].dir
    BY <1>1 DEF Writing, TypeOK
  <2>3. ASSUME NEW d \in Dir, conf'[d] = Torn PROVE Locked(d)' \/ d \in broken'
    BY <1>1, <2>1, <2>2, <2>3 DEF TornInv, Locked, TypeOK
  <2> QED
    BY <2>3 DEF TornInv
<1> QED
  BY <1>3, <1>4, <1>6, <1>7, <1>10, <1>11, <1>12, <1>13

\* A complete configuration, of a daemon that exists, in place of the torn one.
LEMMA CompleteTorn ==
  ASSUME IInv, NEW s \in Shell, NEW c \in Config, at[s].dir \in Dir, complete_config(s, c),
         \A t \in Shell : t # s => pc'[t] = pc[t] /\ at'[t] = at[t]
  PROVE  TornInv'
<1>1. /\ c # Torn /\ conf' = [conf EXCEPT ![at[s].dir] = c] /\ broken' = broken \ {at[s].dir}
  BY SentinelAssumption DEF complete_config
<1>2. ASSUME NEW d \in Dir, conf'[d] = Torn PROVE Locked(d)' \/ d \in broken'
  <2>1. d # at[s].dir /\ conf[d] = Torn
    BY <1>1, <1>2 DEF IInv, TypeOK
  <2>2. CASE d \in broken
    BY <1>1, <2>1, <2>2
  <2>3. CASE Locked(d)
    <3>1. PICK t \in Shell : Writing(t) /\ at[t].dir = d
      BY <2>3 DEF Locked
    <3>2. t # s
      BY <2>1, <3>1
    <3> QED
      BY <3>1, <3>2 DEF Locked, Writing
  <2> QED
    BY <2>1, <2>2, <2>3 DEF IInv, TornInv
<1> QED
  BY <1>2 DEF TornInv

\* add_config preserves the invariant.
LEMMA add_configInv ==
  ASSUME IInv, NEW s \in Shell, add_config(s)
  PROVE  IInv'
  BY TruncateInv DEF add_config

\* modify_write preserves the invariant.
LEMMA modify_writeInv ==
  ASSUME IInv, NEW s \in Shell, modify_write(s)
  PROVE  IInv'
  BY TruncateInv DEF modify_write

\* add_configured preserves the invariant.
LEMMA add_configuredInv ==
  ASSUME IInv, NEW s \in Shell, add_configured(s)
  PROVE  IInv'
<1> USE SentinelAssumption DEF IInv
<1> DEFINE c == [pid |-> at[s].pid, opts |-> at[s].opts]
<1>1. /\ at[s].dir \in Dir /\ at[s].pid \in Used /\ dirOf[at[s].pid] = at[s].dir
      /\ pc[s] = "filling" /\ pc' = [pc EXCEPT ![s] = "register"]
      /\ UNCHANGED <<list, state, stop, dirOf, parent, ready, refused, at, deserted>>
      /\ broken' = broken \ {at[s].dir}
  BY DEF add_configured, complete_config, Goto, daemonVars, ShellInv, Adding
<1>2. c \in Config /\ c # NoConf /\ c.pid = at[s].pid
  BY <1>1 DEF add_configured, ShellInv, Adding, Config, Used
<1>3. conf' = [conf EXCEPT ![at[s].dir] = c]
  BY DEF add_configured, complete_config
<1> HIDE DEF c
<1>4. TypeOK'
  BY <1>1, <1>2, <1>3 DEF TypeOK
<1>5. PidsInOrder'
  BY <1>1 DEF PidsInOrder, Used
<1>6. ShellInv'
  BY <1>1 DEF TypeOK, ShellInv, Adding, Used
<1>7. ExistInv'
  BY <1>1, <1>2, <1>3 DEF TypeOK, ExistInv, Used
<1>8. \A d \in Dir : conf[d] # NoConf \/ d = at[s].dir => conf'[d] # NoConf
  BY <1>1, <1>2, <1>3 DEF TypeOK
<1>9. \A p \in Pid : p \in ready \/ Working(p) => conf[dirOf[p]] # NoConf /\ dirOf[p] \in Dir
  BY DEF ExistInv, Used, StartInv, WorkInv, Working
<1>10. StartInv'
  BY <1>1, <1>8, <1>9 DEF TypeOK, ShellInv, StartInv, Adding, Working
<1>11. NoOverlap'
  BY <1>1 DEF NoOverlap
<1>12. WorkInv'
  BY <1>1, <1>8, <1>9 DEF WorkInv, Working
<1>13. TornInv'
  <2>1. \A t \in Shell : t # s => pc'[t] = pc[t] /\ at'[t] = at[t]
    BY <1>1 DEF TypeOK
  <2>2. complete_config(s, c)
    BY DEF add_configured, c
  <2> QED
    BY <1>1, <1>2, <2>1, <2>2, CompleteTorn
<1> QED
  BY <1>4, <1>5, <1>6, <1>7, <1>10, <1>11, <1>12, <1>13

\* add_entry preserves the invariant.
LEMMA add_entryInv ==
  ASSUME IInv, NEW s \in Shell, add_entry(s)
  PROVE  IInv'
<1> USE SentinelAssumption, BoundAssumption DEF IInv
<1>1. TypeOK'
  <2>1. /\ at[s].dir \in Dir /\ at[s].pid \in Pid /\ dirOf[at[s].pid] = at[s].dir
        /\ pc' \in [Shell -> {"prompt", "fork", "config", "filling", "register", "abort", "start",
                              "read", "write", "rewriting", "kill", "unlist"}]
    BY DEF add_entry, Goto, TypeOK, ShellInv, Adding, Used, ghostVars
  <2>2. list' \subseteq list \cup {[pid |-> at[s].pid, dir |-> at[s].dir]}
    BY DEF add_entry, Pruned, ghostVars
  <2>3. refused' \subseteq Pid
    BY <2>1 DEF add_entry, TypeOK, ghostVars
  <2> QED
    BY <2>1, <2>2, <2>3 DEF add_entry, TypeOK, ghostVars
<1>2. PidsInOrder'
  BY DEF add_entry, Goto, Pruned, Conflict, PidsInOrder, Used, TypeOK, ShellInv, Adding, ghostVars
<1>3. ShellInv'
  BY DEF add_entry, Goto, Pruned, Conflict, TypeOK, ShellInv, Adding, Command, Used, ExistInv, PartialOptions, Options, ghostVars
<1>4. ExistInv'
  BY DEF add_entry, Goto, Pruned, Conflict, TypeOK, ExistInv, ShellInv, Used, Adding, Config, ghostVars
<1>5. StartInv'
  BY DEF add_entry, Goto, Pruned, Conflict, TypeOK, ShellInv, StartInv, ExistInv, Adding, Working, Used, ghostVars
<1>6. NoOverlap'
  <2> DEFINE e0 == [pid |-> at[s].pid, dir |-> at[s].dir]
  <2>1. CASE list' = list
    BY <2>1 DEF NoOverlap
  <2>2. CASE list' # list
    <3>1. ~Conflict(at[s].dir) /\ list' = Pruned \cup {e0}
      BY <2>2 DEF add_entry, ghostVars
    <3>2. \A e \in Pruned : ~paths_overlap(e0.dir, e.dir) /\ ~paths_overlap(e.dir, e0.dir)
      BY <3>1 DEF Conflict, paths_overlap
    <3> HIDE DEF e0
    <3> QED
      BY <3>1, <3>2 DEF Pruned, NoOverlap
  <2> QED
    BY <2>1, <2>2
<1>7. WorkInv'
  BY DEF add_entry, Goto, Pruned, Conflict, TypeOK, ShellInv, StartInv, WorkInv, Working, Adding, ghostVars
<1>8. TornInv'
  BY TornKept DEF add_entry, Goto, Pruned, Conflict, Writing, TypeOK, ghostVars
<1> QED
  BY <1>1, <1>2, <1>3, <1>4, <1>5, <1>6, <1>7, <1>8

\* add_abort preserves the invariant.
LEMMA add_abortInv ==
  ASSUME IInv, NEW s \in Shell, add_abort(s)
  PROVE  IInv'
<1> USE SentinelAssumption, BoundAssumption DEF IInv
<1>1. /\ at' \in [Shell -> Command] /\ at'[s] = NoCommand /\ pc'[s] = "prompt"
      /\ \A t \in Shell : t # s => at'[t] = at[t] /\ pc'[t] = pc[t]
  BY NoCommandType DEF add_abort, Prompt, Goto, TypeOK, ShellInv, ghostVars
<1>2. TypeOK'
  <2>1. stop' \subseteq Pid /\ at[s].pid \in Pid
    BY DEF add_abort, Signal, TypeOK, ShellInv, Adding, Used, ghostVars
  <2>2. /\ state' \in [Pid -> {"none", "forked", "wait", "interrupted", "reading", "sleeping",
                               "dead", "gone"}]
        /\ pc' = [pc EXCEPT ![s] = "prompt"]
    BY <2>1 DEF add_abort, Signal, Prompt, Goto, TypeOK, ghostVars
  <2> QED
    BY <1>1, <2>1, <2>2 DEF add_abort, TypeOK, Command, ghostVars
<1>3. PidsInOrder'
  BY <1>1 DEF add_abort, Signal, Prompt, Goto, PidsInOrder, Used, TypeOK, ShellInv, Adding, ghostVars
<1>4. ShellInv'
  BY <1>1 DEF add_abort, Signal, Prompt, Goto, TypeOK, ShellInv, Adding, Used, ExistInv, ghostVars
<1>5. ExistInv'
  BY <1>1 DEF add_abort, Signal, Prompt, Goto, TypeOK, ExistInv, ShellInv, Used, Adding, Config, ghostVars
<1>6. StartInv'
  BY <1>1 DEF add_abort, Signal, Prompt, Goto, TypeOK, ShellInv, StartInv, ExistInv, Adding, Working, Used, ghostVars
<1>7. NoOverlap'
  BY DEF add_abort, Signal, Prompt, Goto, TypeOK, NoOverlap, paths_overlap, ghostVars
<1>8. WorkInv'
  BY DEF add_abort, Signal, Prompt, Goto, TypeOK, ShellInv, StartInv, WorkInv, Working, Adding, ghostVars
<1>9. TornInv'
  BY TornKept, <1>1 DEF add_abort, Signal, Prompt, Goto, Writing, TypeOK, ghostVars
<1> QED
  BY <1>2, <1>3, <1>4, <1>5, <1>6, <1>7, <1>8, <1>9

\* A shell that ends leaves marks on what exists only.
LEMMA ShellEndsMarks ==
  ASSUME IInv, NEW s \in Shell, ShellEnds(s)
  PROVE  /\ state' \in [Pid -> {"none", "forked", "wait", "interrupted", "reading", "sleeping",
                                "dead", "gone"}]
         /\ parent' \in [Pid -> Shell \cup {0}]
         /\ broken' \subseteq Dir /\ deserted' \subseteq Pid
<1>1. Writing(s) => at[s].dir \in Dir
  BY DEF IInv, ShellInv, Writing
<1>2. Adding(s) => at[s].pid \in Pid
  BY DEF IInv, ShellInv, Used
<1> QED
  BY <1>1, <1>2 DEF IInv, TypeOK, ShellEnds

\* add_start preserves the invariant.
LEMMA add_startInv ==
  ASSUME IInv, NEW s \in Shell, add_start(s)
  PROVE  IInv'
<1> USE SentinelAssumption, BoundAssumption DEF IInv
<1>1. /\ at' \in [Shell -> Command] /\ at'[s] = NoCommand /\ pc'[s] = "prompt"
      /\ \A t \in Shell : t # s => at'[t] = at[t] /\ pc'[t] = pc[t]
  BY NoCommandType DEF add_start, ShellEnds, Prompt, Goto, TypeOK, ShellInv, ghostVars
<1>2. TypeOK'
  <2>1. /\ state' \in [Pid -> {"none", "forked", "wait", "interrupted", "reading", "sleeping",
                               "dead", "gone"}]
        /\ parent' \in [Pid -> Shell \cup {0}] /\ broken' \subseteq Dir /\ deserted' \subseteq Pid
    BY ShellEndsMarks DEF add_start, TypeOK, ghostVars
  <2>2. pc' = [pc EXCEPT ![s] = "prompt"] /\ ready' \subseteq Pid
    BY DEF add_start, ShellEnds, Prompt, Goto, TypeOK, ShellInv, Adding, Used
  <2> QED
    BY <1>1, <2>1, <2>2 DEF add_start, TypeOK, Command
<1>3. PidsInOrder'
  BY <1>1 DEF add_start, ShellEnds, Prompt, Goto, PidsInOrder, Used, TypeOK, ShellInv, Adding, ghostVars
<1>4. ShellInv'
  BY <1>1 DEF add_start, ShellEnds, Prompt, Goto, TypeOK, ShellInv, Adding, Used, ExistInv, ghostVars
<1>5. ExistInv'
  BY <1>1 DEF add_start, ShellEnds, Prompt, Goto, TypeOK, ExistInv, ShellInv, Used, Adding, Config, ghostVars
<1>6. StartInv'
  BY <1>1 DEF add_start, ShellEnds, Prompt, Goto, TypeOK, ShellInv, StartInv, ExistInv, Adding, Working, Used, ghostVars
<1>7. NoOverlap'
  BY DEF add_start, ShellEnds, Prompt, Goto, TypeOK, NoOverlap, paths_overlap, ghostVars
<1>8. WorkInv'
  BY DEF add_start, ShellEnds, Prompt, Goto, TypeOK, ShellInv, StartInv, WorkInv, Working, Adding, ghostVars
<1>9. TornInv'
  BY TornKept, <1>1 DEF add_start, ShellEnds, Prompt, Goto, Writing, TypeOK, ghostVars
<1> QED
  BY <1>2, <1>3, <1>4, <1>5, <1>6, <1>7, <1>8, <1>9

\* modify_find preserves the invariant.
LEMMA modify_findInv ==
  ASSUME IInv, NEW s \in Shell, NEW d \in Dir, NEW o \in Option, NEW v \in Value, modify_find(s, d, [x \in {o} |-> v])
  PROVE  IInv'
<1> USE SentinelAssumption, BoundAssumption DEF IInv
<1>1. \/ UNCHANGED <<pc, at>>
      \/ /\ pc'[s] = "read" /\ at'[s].dir = d
         /\ at' \in [Shell -> Command]
         /\ \A t \in Shell : t # s => at'[t] = at[t] /\ pc'[t] = pc[t]
  <2> DEFINE c == [NoCommand EXCEPT !.dir = d, !.opts = [x \in {o} |-> v]]
  <2>1. c \in Command /\ c.dir = d
    BY CommandOf, OneOption
  <2> HIDE DEF c
  <2>2. UNCHANGED <<pc, at>> \/ (pc' = [pc EXCEPT ![s] = "read"] /\ at' = [at EXCEPT ![s] = c])
    BY DEF modify_find, Goto, c, ghostVars
  <2> QED
    BY <2>1, <2>2 DEF TypeOK, ShellInv
<1>2. TypeOK'
  BY <1>1 DEF modify_find, Goto, Pruned, daemonVars, TypeOK, ShellInv, Command, Used, Config, ExistInv, ghostVars
<1>3. PidsInOrder'
  BY <1>1 DEF modify_find, Goto, Pruned, daemonVars, PidsInOrder, Used, TypeOK, ShellInv, Adding, ghostVars
<1>4. ShellInv'
  BY <1>1 DEF modify_find, Goto, Pruned, daemonVars, TypeOK, ShellInv, Adding, Used, ExistInv, ghostVars
<1>5. ExistInv'
  BY <1>1 DEF modify_find, Goto, Pruned, daemonVars, TypeOK, ExistInv, ShellInv, Used, Adding, Config, ghostVars
<1>6. StartInv'
  BY <1>1 DEF modify_find, Goto, Pruned, daemonVars, TypeOK, ShellInv, StartInv, ExistInv, Adding, Working, Used, ghostVars
<1>7. NoOverlap'
  BY DEF modify_find, Goto, Pruned, daemonVars, TypeOK, NoOverlap, paths_overlap, ghostVars
<1>8. WorkInv'
  BY DEF modify_find, Goto, Pruned, daemonVars, TypeOK, ShellInv, StartInv, WorkInv, Working, Adding, ghostVars
<1>9. TornInv'
  BY TornKept, <1>1 DEF modify_find, Goto, Pruned, daemonVars, Writing, TypeOK, ghostVars
<1> QED
  BY <1>2, <1>3, <1>4, <1>5, <1>6, <1>7, <1>8, <1>9

\* modify_read preserves the invariant.
LEMMA modify_readInv ==
  ASSUME IInv, NEW s \in Shell, modify_read(s)
  PROVE  IInv'
<1> USE SentinelAssumption, BoundAssumption DEF IInv
<1>1. \/ /\ at'[s] = NoCommand /\ pc'[s] = "prompt" /\ at' \in [Shell -> Command]
         /\ \A t \in Shell : t # s => at'[t] = at[t] /\ pc'[t] = pc[t]
      \/ /\ conf[at[s].dir] \in Config /\ pc'[s] = "write"
         /\ at'[s] = [at[s] EXCEPT !.conf = conf[at[s].dir]] /\ at' \in [Shell -> Command]
         /\ \A t \in Shell : t # s => at'[t] = at[t] /\ pc'[t] = pc[t]
  <2>1. at[s].dir \in Dir /\ pc[s] = "read"
    BY DEF modify_read, ShellInv, ghostVars
  <2>2. CASE conf[at[s].dir] \notin Config
    BY <2>2, NoCommandType DEF modify_read, Prompt, Goto, TypeOK, ShellInv
  <2>3. CASE conf[at[s].dir] \in Config
    <3>1. [at[s] EXCEPT !.conf = conf[at[s].dir]] \in Command
      BY <2>3 DEF ShellInv, Command
    <3>2. pc' = [pc EXCEPT ![s] = "write"] /\ at' = [at EXCEPT ![s].conf = conf[at[s].dir]]
      BY <2>3 DEF modify_read, Goto
    <3> QED
      BY <2>3, <3>1, <3>2 DEF TypeOK, ShellInv
  <2> QED
    BY <2>2, <2>3
<1>2. TypeOK'
  <2>1. pc' \in [Shell -> {"prompt", "fork", "config", "filling", "register", "abort", "start",
                          "read", "write", "rewriting", "kill", "unlist"}]
    BY DEF modify_read, Goto, Prompt, TypeOK
  <2>2. \A t \in Shell : at'[t].pid \in 0..MaxPid /\ at'[t].dir \in Dir \cup {NoDir}
    BY <1>1 DEF Command
  <2> QED
    BY <2>1, <2>2 DEF modify_read, daemonVars, ghostVars, TypeOK
<1>3. PidsInOrder'
  BY <1>1 DEF modify_read, Goto, Prompt, daemonVars, PidsInOrder, Used, TypeOK, ShellInv, Adding, ghostVars
<1>4. ShellInv'
  <2>1. at[s].dir \in Dir /\ pc[s] = "read" /\ UNCHANGED <<state, dirOf>>
    BY DEF modify_read, daemonVars, ShellInv, ghostVars
  <2>2. at'[s] = [at[s] EXCEPT !.conf = conf[at[s].dir]] =>
           at'[s].dir = at[s].dir /\ at'[s].conf = conf[at[s].dir]
    BY DEF ShellInv, Command
  <2>3. conf[at[s].dir] \in Config => conf[at[s].dir].pid \in Used /\ dirOf[conf[at[s].dir].pid] = at[s].dir
    BY <2>1 DEF TypeOK, ExistInv
  <2> QED
    BY <1>1, <2>1, <2>2, <2>3 DEF ShellInv, Adding, Used
<1>5. ExistInv'
  BY <1>1 DEF modify_read, Goto, Prompt, daemonVars, TypeOK, ExistInv, ShellInv, Used, Adding, Config, ghostVars
<1>6. StartInv'
  BY <1>1 DEF modify_read, Goto, Prompt, daemonVars, TypeOK, ShellInv, StartInv, ExistInv, Adding, Working, Used, ghostVars
<1>7. NoOverlap'
  BY DEF modify_read, Goto, Prompt, daemonVars, TypeOK, NoOverlap, paths_overlap, ghostVars
<1>8. WorkInv'
  BY DEF modify_read, Goto, Prompt, daemonVars, TypeOK, ShellInv, StartInv, WorkInv, Working, Adding, ghostVars
<1>9. TornInv'
  BY TornKept, <1>1 DEF modify_read, Goto, Prompt, daemonVars, Writing, TypeOK, ghostVars
<1> QED
  BY <1>2, <1>3, <1>4, <1>5, <1>6, <1>7, <1>8, <1>9

\* modify_written preserves the invariant.
LEMMA modify_writtenInv ==
  ASSUME IInv, NEW s \in Shell, modify_written(s)
  PROVE  IInv'
<1> USE SentinelAssumption DEF IInv
<1> DEFINE c == apply_options(at[s].conf, at[s].opts)
<1>1. /\ at[s].dir \in Dir /\ at[s].conf \in Config /\ at[s].conf.pid \in Used
      /\ dirOf[at[s].conf.pid] = at[s].dir
      /\ pc[s] = "rewriting" /\ pc' = [pc EXCEPT ![s] = "prompt"] /\ at' = [at EXCEPT ![s] = NoCommand]
      /\ UNCHANGED <<list, state, stop, dirOf, parent, ready, refused, deserted>>
      /\ broken' = broken \ {at[s].dir}
  BY DEF modify_written, complete_config, Prompt, Goto, daemonVars, ShellInv
<1>2. c \in Config /\ c # NoConf /\ c.pid = at[s].conf.pid
  <2>1. at[s].opts \in PartialOptions
    BY DEF ShellInv, Command
  <2>2. PICK S \in SUBSET Option : at[s].opts \in [S -> Value]
    BY <2>1 DEF PartialOptions
  <2>3. [o \in Option |-> IF o \in DOMAIN at[s].opts THEN at[s].opts[o] ELSE at[s].conf.opts[o]] \in Options
    BY <1>1, <2>2 DEF Config, Options
  <2> QED
    BY <1>1, <2>3 DEF apply_options, Config
<1>3. conf' = [conf EXCEPT ![at[s].dir] = c]
  BY DEF modify_written, complete_config
<1> HIDE DEF c
<1>4. at' \in [Shell -> Command]
  BY <1>1, NoCommandType DEF ShellInv
<1>5. TypeOK'
  BY <1>1, <1>2, <1>3, <1>4 DEF TypeOK, Command
<1>6. PidsInOrder'
  BY <1>1 DEF PidsInOrder, Used
<1>7. ShellInv'
  BY <1>1, <1>4 DEF TypeOK, ShellInv, Adding, Used
<1>8. ExistInv'
  BY <1>1, <1>2, <1>3 DEF TypeOK, ExistInv, Used
<1>9. \A d \in Dir : conf[d] # NoConf => conf'[d] # NoConf
  BY <1>1, <1>2, <1>3 DEF TypeOK
<1>10. \A p \in Pid : p \in ready \/ Working(p) => conf[dirOf[p]] # NoConf /\ dirOf[p] \in Dir
  BY DEF ExistInv, Used, StartInv, WorkInv, Working
<1>11. StartInv'
  BY <1>1, <1>9, <1>10 DEF TypeOK, ShellInv, StartInv, Adding, Working
<1>12. NoOverlap'
  BY <1>1 DEF NoOverlap
<1>13. WorkInv'
  BY <1>1, <1>9, <1>10 DEF WorkInv, Working
<1>14. TornInv'
  <2>1. \A t \in Shell : t # s => pc'[t] = pc[t] /\ at'[t] = at[t]
    BY <1>1 DEF TypeOK, ShellInv
  <2>2. complete_config(s, c)
    BY DEF modify_written, c
  <2> QED
    BY <1>1, <1>2, <2>1, <2>2, CompleteTorn
<1> QED
  BY <1>5, <1>6, <1>7, <1>8, <1>11, <1>12, <1>13, <1>14

\* remove_find preserves the invariant.
LEMMA remove_findInv ==
  ASSUME IInv, NEW s \in Shell, NEW d \in Dir, remove_find(s, d)
  PROVE  IInv'
<1> USE SentinelAssumption, BoundAssumption DEF IInv
<1>1. \/ UNCHANGED <<pc, at>>
      \/ /\ pc'[s] = "kill" /\ at'[s].dir = d /\ \E e \in list : at'[s].pid = e.pid /\ e.dir = d
         /\ at' \in [Shell -> Command]
         /\ \A t \in Shell : t # s => at'[t] = at[t] /\ pc'[t] = pc[t]
  <2>1. CASE UNCHANGED <<pc, at>>
    BY <2>1
  <2>2. CASE ~UNCHANGED <<pc, at>>
    <3>1. PICK e \in list : /\ e.dir = d /\ pc' = [pc EXCEPT ![s] = "kill"]
                            /\ at' = [at EXCEPT ![s] = [NoCommand EXCEPT !.dir = d, !.pid = e.pid]]
      BY <2>2 DEF remove_find, Found, Pruned, Goto, ghostVars
    <3> DEFINE c == [NoCommand EXCEPT !.dir = d, !.pid = e.pid]
    <3>2. c \in Command /\ c.dir = d /\ c.pid = e.pid
      BY CommandOn DEF TypeOK
    <3> HIDE DEF c
    <3>3. at' = [at EXCEPT ![s] = c]
      BY <3>1 DEF c
    <3> QED
      BY <3>1, <3>2, <3>3 DEF TypeOK, ShellInv
  <2> QED
    BY <2>1, <2>2
<1>2. TypeOK'
  <2>1. list' \subseteq list /\ UNCHANGED <<conf, state, stop, dirOf, parent, ready, refused, broken, deserted>>
    BY DEF remove_find, Pruned, daemonVars, ghostVars
  <2>2. pc' \in [Shell -> {"prompt", "fork", "config", "filling", "register", "abort", "start",
                          "read", "write", "rewriting", "kill", "unlist"}]
    BY DEF remove_find, Goto, TypeOK, ghostVars
  <2> QED
    BY <1>1, <2>1, <2>2 DEF TypeOK, ShellInv, Command
<1>3. PidsInOrder'
  BY <1>1 DEF remove_find, Goto, Pruned, Found, daemonVars, PidsInOrder, Used, TypeOK, ShellInv, Adding, ghostVars
<1>4. ShellInv'
  <2>1. UNCHANGED <<state, dirOf>>
    BY DEF remove_find, daemonVars, ghostVars
  <2> QED
    BY <1>1, <2>1 DEF TypeOK, ShellInv, Adding, Used, ExistInv
<1>5. ExistInv'
  BY <1>1 DEF remove_find, Goto, Pruned, Found, daemonVars, TypeOK, ExistInv, ShellInv, Used, Adding, Config, ghostVars
<1>6. StartInv'
  <2>1. UNCHANGED <<conf, state, dirOf, ready, refused, deserted>>
    BY DEF remove_find, daemonVars, ghostVars
  <2> QED
    BY <1>1, <2>1 DEF StartInv, Adding, Working
<1>7. NoOverlap'
  BY DEF remove_find, Goto, Pruned, Found, daemonVars, TypeOK, NoOverlap, paths_overlap, ghostVars
<1>8. WorkInv'
  BY DEF remove_find, Goto, Pruned, Found, daemonVars, TypeOK, ShellInv, StartInv, WorkInv, Working, Adding, ghostVars
<1>9. TornInv'
  BY TornKept, <1>1 DEF remove_find, Goto, Pruned, Found, daemonVars, Writing, TypeOK, ghostVars
<1> QED
  BY <1>2, <1>3, <1>4, <1>5, <1>6, <1>7, <1>8, <1>9

\* remove_kill preserves the invariant.
LEMMA remove_killInv ==
  ASSUME IInv, NEW s \in Shell, remove_kill(s)
  PROVE  IInv'
<1> USE SentinelAssumption, BoundAssumption DEF IInv
<1>1. TypeOK'
  BY DEF remove_kill, Signal, Goto, TypeOK, ShellInv, Command, Used, Config, ExistInv, ghostVars
<1>2. PidsInOrder'
  BY DEF remove_kill, Signal, Goto, PidsInOrder, Used, TypeOK, ShellInv, Adding, ghostVars
<1>3. ShellInv'
  BY DEF remove_kill, Signal, Goto, TypeOK, ShellInv, Adding, Command, Used, ExistInv, PartialOptions, Options, ghostVars
<1>4. ExistInv'
  BY DEF remove_kill, Signal, Goto, TypeOK, ExistInv, ShellInv, Used, Adding, Config, ghostVars
<1>5. StartInv'
  BY DEF remove_kill, Signal, Goto, TypeOK, ShellInv, StartInv, ExistInv, Adding, Working, Used, ghostVars
<1>6. NoOverlap'
  BY DEF remove_kill, Signal, Goto, TypeOK, NoOverlap, paths_overlap, ghostVars
<1>7. WorkInv'
  BY DEF remove_kill, Signal, Goto, TypeOK, ShellInv, StartInv, WorkInv, Working, Adding, ghostVars
<1>8. TornInv'
  BY TornKept DEF remove_kill, Signal, Goto, Writing, TypeOK, ghostVars
<1> QED
  BY <1>1, <1>2, <1>3, <1>4, <1>5, <1>6, <1>7, <1>8

\* remove_entry preserves the invariant.
LEMMA remove_entryInv ==
  ASSUME IInv, NEW s \in Shell, remove_entry(s)
  PROVE  IInv'
<1> USE SentinelAssumption, BoundAssumption DEF IInv
<1>1. /\ at' \in [Shell -> Command] /\ at'[s] = NoCommand /\ pc'[s] = "prompt"
      /\ \A t \in Shell : t # s => at'[t] = at[t] /\ pc'[t] = pc[t]
  BY NoCommandType DEF remove_entry, Prompt, Goto, TypeOK, ShellInv, ghostVars
<1>2. TypeOK'
  BY <1>1 DEF remove_entry, Pruned, Goto, Prompt, daemonVars, TypeOK, ShellInv, Command, Used, Config, ExistInv, ghostVars
<1>3. PidsInOrder'
  BY <1>1 DEF remove_entry, Pruned, Goto, Prompt, daemonVars, PidsInOrder, Used, TypeOK, ShellInv, Adding, ghostVars
<1>4. ShellInv'
  BY <1>1 DEF remove_entry, Pruned, Goto, Prompt, daemonVars, TypeOK, ShellInv, Adding, Used, ExistInv, ghostVars
<1>5. ExistInv'
  BY <1>1 DEF remove_entry, Pruned, Goto, Prompt, daemonVars, TypeOK, ExistInv, ShellInv, Used, Adding, Config, ghostVars
<1>6. StartInv'
  BY <1>1 DEF remove_entry, Pruned, Goto, Prompt, daemonVars, TypeOK, ShellInv, StartInv, ExistInv, Adding, Working, Used, ghostVars
<1>7. NoOverlap'
  BY DEF remove_entry, Pruned, Goto, Prompt, daemonVars, TypeOK, NoOverlap, paths_overlap, ghostVars
<1>8. WorkInv'
  BY DEF remove_entry, Pruned, Goto, Prompt, daemonVars, TypeOK, ShellInv, StartInv, WorkInv, Working, Adding, ghostVars
<1>9. TornInv'
  BY TornKept, <1>1 DEF remove_entry, Pruned, Goto, Prompt, daemonVars, Writing, TypeOK, ghostVars
<1> QED
  BY <1>2, <1>3, <1>4, <1>5, <1>6, <1>7, <1>8, <1>9

\* show_command preserves the invariant.
LEMMA show_commandInv ==
  ASSUME IInv, NEW s \in Shell, show_command(s)
  PROVE  IInv'
<1> USE SentinelAssumption, BoundAssumption DEF IInv
<1>1. TypeOK'
  BY DEF show_command, Pruned, daemonVars, TypeOK, ShellInv, Command, Used, Config, ExistInv, ghostVars
<1>2. PidsInOrder'
  BY DEF show_command, Pruned, daemonVars, PidsInOrder, Used, TypeOK, ShellInv, Adding, ghostVars
<1>3. ShellInv'
  BY DEF show_command, Pruned, daemonVars, TypeOK, ShellInv, Adding, Command, Used, ExistInv, PartialOptions, Options, ghostVars
<1>4. ExistInv'
  BY DEF show_command, Pruned, daemonVars, TypeOK, ExistInv, ShellInv, Used, Adding, Config, ghostVars
<1>5. StartInv'
  BY DEF show_command, Pruned, daemonVars, TypeOK, ShellInv, StartInv, ExistInv, Adding, Working, Used, ghostVars
<1>6. NoOverlap'
  BY DEF show_command, Pruned, daemonVars, TypeOK, NoOverlap, paths_overlap, ghostVars
<1>7. WorkInv'
  BY DEF show_command, Pruned, daemonVars, TypeOK, ShellInv, StartInv, WorkInv, Working, Adding, ghostVars
<1>8. TornInv'
  BY TornKept DEF show_command, Pruned, daemonVars, Writing, TypeOK, ghostVars
<1> QED
  BY <1>1, <1>2, <1>3, <1>4, <1>5, <1>6, <1>7, <1>8

\* exit_shell preserves the invariant.
LEMMA exit_shellInv ==
  ASSUME IInv, NEW s \in Shell, exit_shell(s)
  PROVE  IInv'
<1> USE SentinelAssumption, BoundAssumption DEF IInv
<1>1. /\ at' \in [Shell -> Command] /\ at'[s] = NoCommand /\ pc'[s] = "prompt"
      /\ \A t \in Shell : t # s => at'[t] = at[t] /\ pc'[t] = pc[t]
  BY NoCommandType DEF exit_shell, ShellEnds, Prompt, Goto, TypeOK, ShellInv
<1>2. TypeOK'
  <2>1. ShellEnds(s) /\ UNCHANGED <<conf, stop, dirOf, ready, refused>> /\ list' \subseteq list
    BY DEF exit_shell
  <2>2. pc' = [pc EXCEPT ![s] = "prompt"]
    BY <2>1 DEF ShellEnds, Prompt, Goto
  <2> QED
    BY <1>1, <2>1, <2>2, ShellEndsMarks DEF TypeOK, Command
<1>3. PidsInOrder'
  BY <1>1 DEF exit_shell, ShellEnds, Prompt, Goto, PidsInOrder, Used, TypeOK, ShellInv, Adding
<1>4. ShellInv'
  BY <1>1 DEF exit_shell, ShellEnds, Prompt, Goto, TypeOK, ShellInv, Adding, Used, ExistInv
<1>5. ExistInv'
  BY <1>1 DEF exit_shell, ShellEnds, Prompt, Goto, TypeOK, ExistInv, ShellInv, Used, Adding, Config
<1>6. StartInv'
  BY <1>1 DEF exit_shell, ShellEnds, Prompt, Goto, TypeOK, ShellInv, StartInv, ExistInv, Adding, Working, Used
<1>7. NoOverlap'
  BY DEF exit_shell, ShellEnds, Prompt, Goto, TypeOK, NoOverlap, paths_overlap
<1>8. WorkInv'
  BY DEF exit_shell, ShellEnds, Prompt, Goto, TypeOK, ShellInv, StartInv, WorkInv, Working, Adding
<1>9. TornInv'
  BY TornKept, <1>1 DEF exit_shell, ShellEnds, Prompt, Goto, Writing, TypeOK
<1> QED
  BY <1>2, <1>3, <1>4, <1>5, <1>6, <1>7, <1>8, <1>9

\* die_in_list preserves the invariant.
LEMMA die_in_listInv ==
  ASSUME IInv, NEW s \in Shell, die_in_list(s)
  PROVE  IInv'
<1> USE SentinelAssumption, BoundAssumption DEF IInv
<1>1. /\ at' \in [Shell -> Command] /\ at'[s] = NoCommand /\ pc'[s] = "prompt"
      /\ \A t \in Shell : t # s => at'[t] = at[t] /\ pc'[t] = pc[t]
  BY NoCommandType DEF die_in_list, ShellEnds, Prompt, Goto, TypeOK, ShellInv
<1>2. TypeOK'
  <2>1. ShellEnds(s) /\ UNCHANGED <<conf, stop, dirOf, ready, refused>> /\ list' \subseteq list
    BY DEF die_in_list
  <2>2. pc' = [pc EXCEPT ![s] = "prompt"]
    BY <2>1 DEF ShellEnds, Prompt, Goto
  <2> QED
    BY <1>1, <2>1, <2>2, ShellEndsMarks DEF TypeOK, Command
<1>3. PidsInOrder'
  BY <1>1 DEF die_in_list, ShellEnds, Prompt, Goto, PidsInOrder, Used, TypeOK, ShellInv, Adding
<1>4. ShellInv'
  BY <1>1 DEF die_in_list, ShellEnds, Prompt, Goto, TypeOK, ShellInv, Adding, Used, ExistInv
<1>5. ExistInv'
  BY <1>1 DEF die_in_list, ShellEnds, Prompt, Goto, TypeOK, ExistInv, ShellInv, Used, Adding, Config
<1>6. StartInv'
  BY <1>1 DEF die_in_list, ShellEnds, Prompt, Goto, TypeOK, ShellInv, StartInv, ExistInv, Adding, Working, Used
<1>7. NoOverlap'
  BY DEF die_in_list, ShellEnds, Prompt, Goto, TypeOK, NoOverlap, paths_overlap
<1>8. WorkInv'
  BY DEF die_in_list, ShellEnds, Prompt, Goto, TypeOK, ShellInv, StartInv, WorkInv, Working, Adding
<1>9. TornInv'
  BY TornKept, <1>1 DEF die_in_list, ShellEnds, Prompt, Goto, Writing, TypeOK
<1> QED
  BY <1>2, <1>3, <1>4, <1>5, <1>6, <1>7, <1>8, <1>9

\* daemon_setup preserves the invariant.
LEMMA daemon_setupInv ==
  ASSUME IInv, NEW p \in Pid, daemon_setup(p)
  PROVE  IInv'
<1> USE SentinelAssumption, BoundAssumption DEF IInv
<1>1. TypeOK'
  BY DEF daemon_setup, Exit, TypeOK, ShellInv, Command, Used, Config, ExistInv
<1>2. PidsInOrder'
  BY DEF daemon_setup, Exit, PidsInOrder, Used, TypeOK, ShellInv, Adding
<1>3. ShellInv'
  BY DEF daemon_setup, Exit, TypeOK, ShellInv, Adding, Command, Used, ExistInv, PartialOptions, Options
<1>4. ExistInv'
  BY DEF daemon_setup, Exit, TypeOK, ExistInv, ShellInv, Used, Adding, Config
<1>5. StartInv'
  BY DEF daemon_setup, Exit, TypeOK, ShellInv, StartInv, ExistInv, Adding, Working, Used
<1>6. NoOverlap'
  BY DEF daemon_setup, Exit, TypeOK, NoOverlap, paths_overlap
<1>7. WorkInv'
  BY DEF daemon_setup, Exit, TypeOK, ShellInv, StartInv, WorkInv, Working, Adding
<1>8. TornInv'
  BY TornKept DEF daemon_setup, Exit, Writing, TypeOK
<1> QED
  BY <1>1, <1>2, <1>3, <1>4, <1>5, <1>6, <1>7, <1>8

\* daemon_start preserves the invariant.
LEMMA daemon_startInv ==
  ASSUME IInv, NEW p \in Pid, daemon_start(p)
  PROVE  IInv'
<1> USE SentinelAssumption, BoundAssumption DEF IInv
<1>1. TypeOK'
  BY DEF daemon_start, Exit, Starting, TypeOK, ShellInv, Command, Used, Config, ExistInv
<1>2. PidsInOrder'
  BY DEF daemon_start, Exit, Starting, PidsInOrder, Used, TypeOK, ShellInv, Adding
<1>3. ShellInv'
  BY DEF daemon_start, Exit, Starting, TypeOK, ShellInv, Adding, Command, Used, ExistInv, PartialOptions, Options
<1>4. ExistInv'
  BY DEF daemon_start, Exit, Starting, TypeOK, ExistInv, ShellInv, Used, Adding, Config
<1>5. StartInv'
  BY DEF daemon_start, Exit, Starting, TypeOK, ShellInv, StartInv, ExistInv, Adding, Working, Used
<1>6. NoOverlap'
  BY DEF daemon_start, Exit, Starting, TypeOK, NoOverlap, paths_overlap
<1>7. WorkInv'
  BY DEF daemon_start, Exit, Starting, TypeOK, ShellInv, StartInv, WorkInv, Working, Adding
<1>8. TornInv'
  BY TornKept DEF daemon_start, Exit, Starting, Writing, TypeOK
<1> QED
  BY <1>1, <1>2, <1>3, <1>4, <1>5, <1>6, <1>7, <1>8

\* daemon_read preserves the invariant.
LEMMA daemon_readInv ==
  ASSUME IInv, NEW p \in Pid, daemon_read(p)
  PROVE  IInv'
<1> USE SentinelAssumption, BoundAssumption DEF IInv
<1>1. TypeOK'
  BY DEF daemon_read, Exit, TypeOK, ShellInv, Command, Used, Config, ExistInv
<1>2. PidsInOrder'
  BY DEF daemon_read, Exit, PidsInOrder, Used, TypeOK, ShellInv, Adding
<1>3. ShellInv'
  BY DEF daemon_read, Exit, TypeOK, ShellInv, Adding, Command, Used, ExistInv, PartialOptions, Options
<1>4. ExistInv'
  BY DEF daemon_read, Exit, TypeOK, ExistInv, ShellInv, Used, Adding, Config
<1>5. StartInv'
  BY DEF daemon_read, Exit, TypeOK, ShellInv, StartInv, ExistInv, Adding, Working, Used
<1>6. NoOverlap'
  BY DEF daemon_read, Exit, TypeOK, NoOverlap, paths_overlap
<1>7. WorkInv'
  BY DEF daemon_read, Exit, TypeOK, ShellInv, StartInv, WorkInv, Working, Adding
<1>8. TornInv'
  BY TornKept DEF daemon_read, Exit, Writing, TypeOK
<1> QED
  BY <1>1, <1>2, <1>3, <1>4, <1>5, <1>6, <1>7, <1>8

\* daemon_wake preserves the invariant.
LEMMA daemon_wakeInv ==
  ASSUME IInv, NEW p \in Pid, daemon_wake(p)
  PROVE  IInv'
<1> USE SentinelAssumption, BoundAssumption DEF IInv
<1>1. TypeOK'
  BY DEF daemon_wake, Exit, TypeOK, ShellInv, Command, Used, Config, ExistInv
<1>2. PidsInOrder'
  BY DEF daemon_wake, Exit, PidsInOrder, Used, TypeOK, ShellInv, Adding
<1>3. ShellInv'
  BY DEF daemon_wake, Exit, TypeOK, ShellInv, Adding, Command, Used, ExistInv, PartialOptions, Options
<1>4. ExistInv'
  BY DEF daemon_wake, Exit, TypeOK, ExistInv, ShellInv, Used, Adding, Config
<1>5. StartInv'
  BY DEF daemon_wake, Exit, TypeOK, ShellInv, StartInv, ExistInv, Adding, Working, Used
<1>6. NoOverlap'
  BY DEF daemon_wake, Exit, TypeOK, NoOverlap, paths_overlap
<1>7. WorkInv'
  BY DEF daemon_wake, Exit, TypeOK, ShellInv, StartInv, WorkInv, Working, Adding
<1>8. TornInv'
  BY TornKept DEF daemon_wake, Exit, Writing, TypeOK
<1> QED
  BY <1>1, <1>2, <1>3, <1>4, <1>5, <1>6, <1>7, <1>8

\* add_fork preserves the invariant: the daemon it makes is new.
LEMMA add_forkInv ==
  ASSUME IInv, NEW s \in Shell, add_fork(s)
  PROVE  IInv'
<1> USE BoundAssumption DEF IInv
<1>1. PICK p \in Pid :
      /\ p = Cardinality(Used) + 1 /\ pc[s] = "fork" /\ pc' = [pc EXCEPT ![s] = "config"]
      /\ state' = [state EXCEPT ![p] = "forked"] /\ dirOf' = [dirOf EXCEPT ![p] = at[s].dir]
      /\ parent' = [parent EXCEPT ![p] = s] /\ at' = [at EXCEPT ![s].pid = p]
      /\ UNCHANGED <<list, conf, stop, ready, refused, broken, deserted>>
  BY DEF add_fork, Goto, Used, ghostVars
<1>2. PICK k \in 0..MaxPid : Used = 1..k
  BY DEF PidsInOrder
<1>3. p = k + 1
  <2>1. Cardinality(1..k) = k
    BY <1>2, FS_Interval
  <2> QED
    BY <1>1, <1>2, <2>1
<1>4. p \notin Used
  BY <1>2, <1>3
<1>5. Used' = Used \cup {p}
  BY <1>1 DEF TypeOK, Used
<1>6. PidsInOrder'
  <2>1. Used' = 1..(k + 1) /\ k + 1 \in 0..MaxPid
    BY <1>1, <1>2, <1>3, <1>5 DEF Pid
  <2> QED
    BY <2>1 DEF PidsInOrder
<1>7. /\ at' \in [Shell -> Command] /\ at'[s].pid = p /\ at'[s].dir = at[s].dir
      /\ at'[s].opts = at[s].opts
      /\ \A t \in Shell : t # s => at'[t] = at[t] /\ pc'[t] = pc[t]
  <2>1. [at[s] EXCEPT !.pid = p] \in Command
    BY <1>1 DEF ShellInv, Command, Pid
  <2> QED
    BY <1>1, <2>1 DEF TypeOK, ShellInv, Command
<1>8. at[s].dir \in Dir /\ at[s].opts \in Options
  BY <1>1 DEF ShellInv
<1>9. \A q \in Used : dirOf'[q] = dirOf[q] /\ state'[q] = state[q]
  BY <1>1, <1>4 DEF TypeOK, Used
<1>10. dirOf'[p] = at[s].dir /\ state'[p] = "forked" /\ pc'[s] = "config"
  BY <1>1 DEF TypeOK
<1>11. TypeOK'
  <2>1. /\ dirOf' \in [Pid -> Dir \cup {NoDir}] /\ parent' \in [Pid -> Shell \cup {0}]
        /\ state' \in [Pid -> {"none", "forked", "wait", "interrupted", "reading", "sleeping",
                               "dead", "gone"}]
        /\ pc' \in [Shell -> {"prompt", "fork", "config", "filling", "register", "abort", "start",
                              "read", "write", "rewriting", "kill", "unlist"}]
    BY <1>1, <1>8 DEF TypeOK
  <2>2. \A e \in list : dirOf'[e.pid] = e.dir
    BY <1>9 DEF TypeOK, ExistInv
  <2>3. \A d \in Dir : conf[d] \in Config => dirOf'[conf[d].pid] = d
    BY <1>9 DEF TypeOK, ExistInv
  <2> QED
    BY <1>1, <1>7, <2>1, <2>2, <2>3 DEF TypeOK, Command
<1>12. ShellInv'
  <2> SUFFICES ASSUME NEW t \in Shell
               PROVE  (/\ pc[t] # "prompt" => at[t].dir \in Dir
                       /\ pc[t] = "fork" \/ Adding(t) => at[t].opts \in Options
                       /\ Adding(t) \/ pc[t] = "kill" => at[t].pid \in Used /\ dirOf[at[t].pid] = at[t].dir
                       /\ pc[t] \in {"write", "rewriting"} =>
                            /\ at[t].conf \in Config
                            /\ at[t].conf.pid \in Used /\ dirOf[at[t].conf.pid] = at[t].dir)'
    BY <1>7 DEF ShellInv
  <2>1. CASE t = s
    BY <2>1, <1>5, <1>7, <1>8, <1>10
  <2>2. CASE t # s
    BY <2>2, <1>5, <1>7, <1>9 DEF ShellInv, Adding
  <2> QED
    BY <2>1, <2>2
<1>13. ExistInv'
  BY <1>1, <1>5, <1>8, <1>9, <1>10 DEF ExistInv
<1>14. \A q \in Pid : Working(q)' => Working(q) /\ q \in Used
  BY <1>1, <1>9, <1>10 DEF TypeOK, Working, Used
<1>15. StartInv'
  <2>1. \A t \in Shell : t # s /\ Adding(t)' => Adding(t) /\ at'[t].pid = at[t].pid /\ at[t].pid \in Used
    BY <1>7 DEF Adding, ShellInv
  <2>2. \A t, u \in Shell : t # u /\ Adding(t)' /\ Adding(u)' => at'[t].pid # at'[u].pid
    BY <1>4, <1>7, <2>1 DEF StartInv
  <2>3. \A t \in Shell : Adding(t)' => at'[t].pid \notin ready /\ ~Working(at[t].pid)'
    <3>1. p \notin ready /\ ~Working(p)'
      BY <1>1, <1>4, <1>14 DEF ExistInv
    <3>2. ASSUME NEW t \in Shell, t # s, Adding(t)' PROVE at[t].pid \notin ready /\ ~Working(at[t].pid)'
      BY <2>1, <3>2, <1>14 DEF StartInv, Used
    <3> QED
      BY <3>1, <3>2, <1>7 DEF Working
  <2>4. p \notin refused /\ p \notin deserted
    BY <1>4 DEF ExistInv
  <2>5. \A q \in ready : q \notin refused /\ q \notin deserted /\ conf[dirOf'[q]] # NoConf
    BY <1>9 DEF StartInv, ExistInv
  <2> QED
    <3>1. \A t \in Shell : Adding(t)' /\ pc'[t] # "config" => conf[at'[t].dir] # NoConf
      BY <1>7, <1>10, <2>1 DEF StartInv
    <3>2. \A t \in Shell : Adding(t)' /\ pc'[t] # "abort" => at'[t].pid \notin refused
      BY <1>7, <2>1, <2>4 DEF StartInv
    <3>3. \A t \in Shell : Adding(t)' => at'[t].pid \notin deserted
      BY <1>7, <2>1, <2>4 DEF StartInv
    <3> QED
      BY <1>1, <2>2, <2>3, <2>5, <3>1, <3>2, <3>3 DEF StartInv
<1>16. NoOverlap'
  BY <1>1 DEF NoOverlap
<1>17. WorkInv'
  BY <1>1, <1>9, <1>14 DEF WorkInv
<1>18. TornInv'
  BY TornKept, <1>1 DEF Writing, TypeOK
<1> QED
  BY <1>6, <1>11, <1>12, <1>13, <1>15, <1>16, <1>17, <1>18

-----------------------------------------------------------------------------
(* The theorems                                                            *)

\* The empty registry, every shell at its prompt, satisfies the invariant.
LEMMA InitInv == Init => IInv
<1> SUFFICES ASSUME Init PROVE IInv
  OBVIOUS
<1> USE BoundAssumption, SentinelAssumption DEF Init
<1>1. TypeOK
  BY NoCommandType DEF TypeOK, Command, NoCommand
<1>2. Used = {}
  BY DEF Used
<1>3. PidsInOrder
  BY <1>2 DEF PidsInOrder
<1>4. ShellInv
  BY NoCommandType DEF ShellInv, Adding
<1>5. ExistInv
  BY <1>2 DEF ExistInv
<1>6. StartInv
  BY DEF StartInv, Adding
<1>7. NoOverlap /\ WorkInv /\ TornInv
  BY SentinelAssumption DEF NoOverlap, WorkInv, TornInv, Working
<1> QED
  BY <1>1, <1>3, <1>4, <1>5, <1>6, <1>7 DEF IInv

\* The invariant reads the specifications variables only.
LEMMA StutterInv == IInv /\ UNCHANGED vars => IInv'
<1> SUFFICES ASSUME IInv, UNCHANGED vars PROVE IInv'
  OBVIOUS
<1> USE DEF IInv, vars, daemonVars, ghostVars
<1>1. TypeOK' /\ PidsInOrder'
  BY DEF TypeOK, PidsInOrder, Used
<1>2. ShellInv' /\ ExistInv'
  BY DEF ShellInv, ExistInv, Adding, Used
<1>3. StartInv' /\ NoOverlap' /\ WorkInv' /\ TornInv'
  BY DEF StartInv, Adding, Working, NoOverlap, WorkInv, TornInv, Locked, Writing
<1> QED
  BY <1>1, <1>2, <1>3

\* Every step of a shell or of a daemon preserves the invariant.
LEMMA NextInv == IInv /\ [Next]_vars => IInv'
<1> SUFFICES ASSUME IInv, [Next]_vars PROVE IInv'
  OBVIOUS
<1>1. ASSUME NEW s \in Shell, CommandStep(s) PROVE IInv'
  BY <1>1, add_forkInv, add_configInv, add_configuredInv, add_entryInv, add_abortInv,
     add_startInv, modify_readInv, modify_writeInv, modify_writtenInv, remove_killInv, remove_entryInv DEF CommandStep
<1>2. ASSUME NEW p \in Pid, DaemonStep(p) PROVE IInv'
  BY <1>2, daemon_setupInv, daemon_startInv, daemon_readInv, daemon_wakeInv DEF DaemonStep
<1>3. CASE Next
  BY <1>1, <1>2, <1>3, add_checkInv, modify_findInv, remove_findInv, show_commandInv, exit_shellInv,
     die_in_listInv
  DEF Next
<1> QED
  BY <1>3, StutterInv

\* IInv holds in every reachable state of the registry and its daemons.
THEOREM CleanupInvariant == Spec => []IInv
  BY InitInv, NextInv, PTL DEF Spec

\* The list and the configurations name daemons that exist, whatever the shells do.
THEOREM CleanupTypeOK == Spec => []TypeOK
<1>1. IInv => TypeOK
  BY DEF IInv
<1> QED
  BY <1>1, CleanupInvariant, PTL

\* add_entry looks again under the lock: no two daemons of the list watch overlapping
\* directories, however many shells add at the same time and wherever they are killed.
THEOREM CleanupNoOverlap == Spec => []NoOverlap
<1>1. IInv => NoOverlap
  BY DEF IInv
<1> QED
  BY <1>1, CleanupInvariant, PTL

\* The start-up byte comes after configuration and registration, and a shell that dies
\* leaves the end of the pipe: a daemon works only if its add came to the end.  write_config
\* holds its lock while the file is incomplete: a daemon that works can read its
\* configuration, unless a shell is rewriting it or died doing so.
THEOREM CleanupWorkingHasConfig == Spec => []WorkingHasConfig
<1>1. IInv => WorkingHasConfig
  <2> SUFFICES ASSUME IInv, NEW p \in Pid, Working(p)
               PROVE  /\ p \notin refused \cup deserted
                      /\ conf[dirOf[p]] \in Config \/ Locked(dirOf[p]) \/ dirOf[p] \in broken
    BY DEF WorkingHasConfig
  <2>1. p \in Used /\ dirOf[p] \in Dir
    BY DEF IInv, ExistInv, Used, Working
  <2>2. conf[dirOf[p]] \in Config \cup {Torn}
    BY <2>1 DEF IInv, TypeOK, WorkInv
  <2> QED
    BY <2>1, <2>2 DEF IInv, WorkInv, TornInv
<1> QED
  BY <1>1, CleanupInvariant, PTL
=============================================================================
