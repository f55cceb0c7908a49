------------------------------ MODULE Cleanup ------------------------------
(***************************************************************************)
(* ssu_cleanup: shells that add, modify and remove the monitoring of a     *)
(* directory, and the daemons they start, all over two kinds of shared     *)
(* files: the list of daemons and one configuration per directory.         *)
(*                                                                         *)
(* Files are read and rewritten under fcntl locks, in place: truncated     *)
(* first, then filled.  A command is several such sections, other shells   *)
(* and the daemons run in between, and a shell may be killed anywhere, in  *)
(* the middle of a file too; its lock goes with it.  Checks of the         *)
(* arguments change nothing and are left out; what a daemon copies is not  *)
(* modelled here.                                                          *)
(***************************************************************************)
EXTENDS Naturals, FiniteSets

CONSTANTS Shell,      \* management shells
          Dir,        \* directories that can be monitored
          Nested,     \* pairs of directories one of which contains the other
          Option,     \* options of add and modify
          Value,      \* values of an option
          MaxPid,     \* bound: daemons started in all
          NoConf,     \* there is no configuration file
          Torn,       \* an empty or partial one: read_config needs the last line, mode
          NoDir       \* sentinel

Pid == 1..MaxPid

ASSUME BoundAssumption == MaxPid \in Nat
ASSUME NestedAssumption == Nested \subseteq Dir \X Dir

VARIABLES
    list,      \* current_daemon_list: records of a pid and its directory
    conf,      \* the configuration file of each directory
    state,     \* what each daemon is doing; "none" before it exists
    stop,      \* daemons that have been sent SIGTERM
    dirOf,     \* the directory of each daemon
    parent,    \* the shell that started each daemon
    ready,     \* daemons whose start-up byte is in their pipe
    refused,   \* daemons whose registration failed
    pc, at,    \* where each shell is in its command, and what it remembers
    broken,    \* ghost: directories whose configuration a shell died writing
    deserted   \* ghost: daemons, yet to end, whose shell died before it started them

daemonVars == <<state, stop, dirOf, parent, ready, refused>>
ghostVars == <<broken, deserted>>
vars == <<list, conf, daemonVars, pc, at, ghostVars>>

paths_overlap(d, e) == d = e \/ <<d, e>> \in Nested \/ <<e, d>> \in Nested

Options == [Option -> Value]
Config == [pid : Pid, opts : Options]

ASSUME SentinelAssumption == NoConf \notin Config /\ Torn \notin Config /\ NoConf # Torn

NoCommand == [dir |-> NoDir, pid |-> 0, opts |-> [o \in {} |-> 0], conf |-> NoConf]

Init ==
    /\ list = {}
    /\ conf = [d \in Dir |-> NoConf]
    /\ state = [p \in Pid |-> "none"]
    /\ stop = {}
    /\ dirOf = [p \in Pid |-> NoDir]
    /\ parent = [p \in Pid |-> 0]
    /\ ready = {}
    /\ refused = {}
    /\ pc = [s \in Shell |-> "prompt"]
    /\ at = [s \in Shell |-> NoCommand]
    /\ broken = {} /\ deserted = {}

-----------------------------------------------------------------------------
(* The list of daemons                                                     *)

\* kill(pid, 0) succeeds for a zombie too: the shell never waits for it.
process_is_alive(p) == state[p] \notin {"none", "gone"}

\* The daemon has its end of the start-up pipe open.
Starting(p) == state[p] \in {"forked", "wait", "interrupted"}

Pruned == {e \in list : process_is_alive(e.pid)}

Conflict(d) == \E e \in Pruned : paths_overlap(d, e.dir)

Found(d) == {e \in Pruned : e.dir = d}

\* SIGTERM: read() on the pipe is interrupted; a daemon that has not come to it
\* yet only sets daemon_stop, and one that has ended is not disturbed.
Signal(p) ==
    /\ stop' = IF state[p] \in {"dead", "gone"} THEN stop ELSE stop \cup {p}
    /\ state' = [state EXCEPT ![p] = IF @ = "wait" THEN "interrupted" ELSE @]

\* The shell has forked a daemon and holds its own end of the start-up pipe.
Adding(s) == pc[s] \in {"config", "filling", "register", "abort", "start"}
PipeOpen(p) == \E s \in Shell : Adding(s) /\ at[s].pid = p

\* write_config between ftruncate and unlock.  Whoever wants the file waits in F_SETLKW.
Writing(s) == pc[s] \in {"filling", "rewriting"}
Locked(d) == \E s \in Shell : Writing(s) /\ at[s].dir = d

Goto(s, label) == pc' = [pc EXCEPT ![s] = label]
Prompt(s) == Goto(s, "prompt") /\ at' = [at EXCEPT ![s] = NoCommand]

\* The shell ends and another is started in its place; init takes over its
\* children and reaps the dead ones.
ShellEnds(s) ==
    /\ state' = [p \in Pid |-> IF parent[p] = s /\ state[p] = "dead" THEN "gone" ELSE state[p]]
    /\ parent' = [p \in Pid |-> IF parent[p] = s THEN 0 ELSE parent[p]]
    /\ broken' = IF Writing(s) THEN broken \cup {at[s].dir} ELSE broken
    /\ deserted' = IF Adding(s) THEN deserted \cup {at[s].pid} ELSE deserted
    /\ Prompt(s)

\* open, lock, ftruncate: from here on there is nothing to read.
truncate_config(s, label) ==
    /\ ~Locked(at[s].dir)
    /\ conf' = [conf EXCEPT ![at[s].dir] = Torn]
    /\ Goto(s, label)
    /\ UNCHANGED <<list, daemonVars, at, ghostVars>>

\* The last line, fsync, unlock.
complete_config(s, c) ==
    /\ conf' = [conf EXCEPT ![at[s].dir] = c]
    /\ broken' = broken \ {at[s].dir}
    /\ UNCHANGED <<list, daemonVars, deserted>>

-----------------------------------------------------------------------------
(* add                                                                     *)

\* monitor_conflicts, on the list as it is now.
add_check(s, d, opts) ==
    /\ pc[s] = "prompt"
    /\ list' = Pruned
    /\ IF Conflict(d) THEN UNCHANGED <<pc, at>>
       ELSE /\ Goto(s, "fork")
            /\ at' = [at EXCEPT ![s] = [NoCommand EXCEPT !.dir = d, !.opts = opts]]
    /\ UNCHANGED <<conf, daemonVars, ghostVars>>

\* The child installs its handlers and waits for its start-up byte.
add_fork(s) ==
    /\ pc[s] = "fork"
    /\ LET p == Cardinality({q \in Pid : state[q] # "none"}) + 1
       IN  /\ p \in Pid
           /\ state' = [state EXCEPT ![p] = "forked"]
           /\ dirOf' = [dirOf EXCEPT ![p] = at[s].dir]
           /\ parent' = [parent EXCEPT ![p] = s]
           /\ at' = [at EXCEPT ![s].pid = p]
    /\ Goto(s, "config")
    /\ UNCHANGED <<list, conf, stop, ready, refused, ghostVars>>

\* Seeded fault: the configuration is written after the daemon is started.
add_config_Late(s) ==
    /\ pc[s] = "config"
    /\ Goto(s, "register")
    /\ UNCHANGED <<list, conf, daemonVars, at, ghostVars>>

add_config(s) == pc[s] = "config" /\ truncate_config(s, "filling")

\* Seeded fault: the pid is filled in before fork() returns it.
add_configured_NoPid(s) ==
    /\ pc[s] = "filling"
    /\ complete_config(s, [pid |-> 0, opts |-> at[s].opts])
    /\ Goto(s, "register") /\ UNCHANGED at

add_configured(s) ==
    /\ pc[s] = "filling"
    /\ complete_config(s, [pid |-> at[s].pid, opts |-> at[s].opts])
    /\ Goto(s, "register") /\ UNCHANGED at

\* Seeded fault: the second look at the list, under the lock, is left out.
add_entry_Unchecked(s) ==
    /\ pc[s] = "register"
    /\ list' = Pruned \cup {[pid |-> at[s].pid, dir |-> at[s].dir]}
    /\ Goto(s, "start")
    /\ UNCHANGED <<conf, daemonVars, at, ghostVars>>

\* add_entry looks for conflicts again; when there is one the list stays.
add_entry(s) ==
    /\ pc[s] = "register"
    /\ IF Conflict(at[s].dir)
       THEN /\ refused' = refused \cup {at[s].pid}
            /\ Goto(s, "abort")
            /\ UNCHANGED list
       ELSE /\ list' = Pruned \cup {[pid |-> at[s].pid, dir |-> at[s].dir]}
            /\ Goto(s, "start")
            /\ UNCHANGED refused
    /\ UNCHANGED <<conf, state, stop, dirOf, parent, ready, at, ghostVars>>

\* SIGTERM, and the end of the pipe.
add_abort(s) ==
    /\ pc[s] = "abort"
    /\ Signal(at[s].pid)
    /\ Prompt(s)
    /\ UNCHANGED <<list, conf, dirOf, parent, ready, refused, ghostVars>>

\* The start-up byte.  A daemon that another shell has stopped by now may have
\* closed its end, and SIGPIPE ends the shell.
add_start(s) ==
    /\ pc[s] = "start"
    /\ IF Starting(at[s].pid)
       THEN /\ ready' = ready \cup {at[s].pid}
            /\ Prompt(s)
            /\ UNCHANGED <<state, parent, ghostVars>>
       ELSE ShellEnds(s) /\ UNCHANGED ready
    /\ UNCHANGED <<list, conf, stop, dirOf, refused>>

-----------------------------------------------------------------------------
(* modify                                                                  *)

\* find_daemon, then read_config, then write_config: three locked sections.
modify_find(s, d, opts) ==
    /\ pc[s] = "prompt"
    /\ list' = Pruned
    /\ IF Found(d) = {} THEN UNCHANGED <<pc, at>>
       ELSE /\ Goto(s, "read")
            /\ at' = [at EXCEPT ![s] = [NoCommand EXCEPT !.dir = d, !.opts = opts]]
    /\ UNCHANGED <<conf, daemonVars, ghostVars>>

modify_read(s) ==
    /\ pc[s] = "read"
    /\ ~Locked(at[s].dir)
    /\ IF conf[at[s].dir] \in Config
       THEN Goto(s, "write") /\ at' = [at EXCEPT ![s].conf = conf[at[s].dir]]
       ELSE Prompt(s)
    /\ UNCHANGED <<list, conf, daemonVars, ghostVars>>

apply_options(c, opts) ==
    [c EXCEPT !.opts = [o \in Option |-> IF o \in DOMAIN opts THEN opts[o] ELSE c.opts[o]]]

modify_write(s) == pc[s] = "write" /\ truncate_config(s, "rewriting")

modify_written(s) ==
    /\ pc[s] = "rewriting"
    /\ complete_config(s, apply_options(at[s].conf, at[s].opts))
    /\ Prompt(s)

-----------------------------------------------------------------------------
(* remove                                                                  *)

remove_find(s, d) ==
    /\ pc[s] = "prompt"
    /\ list' = Pruned
    /\ IF Found(d) = {} THEN UNCHANGED <<pc, at>>
       ELSE \E e \in Found(d) :
                /\ Goto(s, "kill")
                /\ at' = [at EXCEPT ![s] = [NoCommand EXCEPT !.dir = d, !.pid = e.pid]]
    /\ UNCHANGED <<conf, daemonVars, ghostVars>>

remove_kill(s) ==
    /\ pc[s] = "kill"
    /\ Signal(at[s].pid)
    /\ Goto(s, "unlist")
    /\ UNCHANGED <<list, conf, dirOf, parent, ready, refused, at, ghostVars>>

\* Whatever entry the directory has by now goes, with those of dead daemons.
remove_entry(s) ==
    /\ pc[s] = "unlist"
    /\ list' = {e \in Pruned : e.dir # at[s].dir}
    /\ Prompt(s)
    /\ UNCHANGED <<conf, daemonVars, ghostVars>>

\* The list is read, and cleaned, once; the entry chosen from it, its configuration and
\* its log are only read.
show_command(s) ==
    /\ pc[s] = "prompt"
    /\ list' = Pruned
    /\ UNCHANGED <<conf, daemonVars, pc, at, ghostVars>>

\* exit, or the shell is killed, at its prompt or anywhere in a command.
exit_shell(s) ==
    /\ pc[s] # "prompt" \/ \E p \in Pid : parent[p] = s
    /\ ShellEnds(s)
    /\ UNCHANGED <<list, conf, stop, dirOf, ready, refused>>

\* It is killed in rewrite_entries, after ftruncate and before what was printed is
\* flushed: the list is lost.  get_entries rewrites only what it has shortened.
die_in_list(s) ==
    /\ \/ pc[s] = "prompt" /\ Pruned # list
       \/ pc[s] = "register" /\ ~Conflict(at[s].dir)
       \/ pc[s] = "unlist"
    /\ list' = {}
    /\ ShellEnds(s)
    /\ UNCHANGED <<conf, stop, dirOf, ready, refused>>

-----------------------------------------------------------------------------
(* The daemon                                                              *)

\* What only the process knew goes with it.
Exit(p) ==
    /\ state' = [state EXCEPT ![p] = IF parent[p] = 0 THEN "gone" ELSE "dead"]
    /\ stop' = stop \ {p}
    /\ ready' = ready \ {p}
    /\ deserted' = deserted \ {p}

\* setsid, the handlers; before they are in place SIGTERM ends the process.
daemon_setup(p) ==
    /\ state[p] = "forked"
    /\ \/ state' = [state EXCEPT ![p] = "wait"] /\ UNCHANGED <<stop, ready, deserted>>
       \/ p \in stop /\ Exit(p)
    /\ UNCHANGED <<list, conf, dirOf, parent, refused, pc, at, broken>>

\* Seeded fault: the child keeps its copy of the write end, so the pipe never ends.
daemon_start_Deaf(p) ==
    /\ Starting(p) /\ state[p] # "forked"
    /\ \/ p \in ready /\ state' = [state EXCEPT ![p] = "reading"]
                      /\ ready' = ready \ {p} /\ UNCHANGED <<stop, deserted>>
       \/ state[p] = "interrupted" /\ Exit(p)
    /\ UNCHANGED <<list, conf, dirOf, parent, refused, pc, at, broken>>

\* read(sync_fd): the byte, a signal, or the end of the pipe.
daemon_start(p) ==
    /\ Starting(p) /\ state[p] # "forked"
    /\ \/ p \in ready /\ state' = [state EXCEPT ![p] = "reading"]
                      /\ ready' = ready \ {p} /\ UNCHANGED <<stop, deserted>>
       \/ state[p] = "interrupted" /\ Exit(p)
       \/ p \notin ready /\ ~PipeOpen(p) /\ Exit(p)
    /\ UNCHANGED <<list, conf, dirOf, parent, refused, pc, at, broken>>

\* The top of the loop: daemon_stop, read_config, and the wait.  What cannot be read is
\* tried again a second later; SIGTERM interrupts the wait for the lock.
daemon_read(p) ==
    /\ state[p] = "reading"
    /\ IF p \in stop THEN Exit(p)
       ELSE /\ ~Locked(dirOf[p]) /\ conf[dirOf[p]] \in Config
            /\ state' = [state EXCEPT ![p] = "sleeping"]
            /\ UNCHANGED <<stop, ready, deserted>>
    /\ UNCHANGED <<list, conf, dirOf, parent, refused, pc, at, broken>>

\* The wait ends, by time or by a signal; unless it was stopped the daemon reads
\* the configuration again and runs arrange_files.
daemon_wake(p) ==
    /\ state[p] = "sleeping"
    /\ IF p \in stop THEN Exit(p)
       ELSE state' = [state EXCEPT ![p] = "reading"] /\ UNCHANGED <<stop, ready, deserted>>
    /\ UNCHANGED <<list, conf, dirOf, parent, refused, pc, at, broken>>

DaemonStep(p) ==
    daemon_setup(p) \/ daemon_start(p) \/ daemon_read(p) \/ daemon_wake(p)

\* What a shell does once its command has been entered.
CommandStep(s) ==
    \/ add_fork(s) \/ add_config(s) \/ add_configured(s) \/ add_entry(s)
    \/ add_abort(s) \/ add_start(s)
    \/ modify_read(s) \/ modify_write(s) \/ modify_written(s)
    \/ remove_kill(s) \/ remove_entry(s)

Next ==
    \/ \E s \in Shell :
        \/ \E d \in Dir, opts \in Options : add_check(s, d, opts)
        \/ \E d \in Dir, o \in Option, v \in Value : modify_find(s, d, [x \in {o} |-> v])
        \/ \E d \in Dir : remove_find(s, d)
        \/ show_command(s)
        \/ CommandStep(s)
        \/ exit_shell(s) \/ die_in_list(s)
    \/ \E p \in Pid : DaemonStep(p)

Spec == Init /\ [][Next]_vars

(***************************************************************************)
(* Daemons are scheduled and their waits end; a command that has been      *)
(* entered goes on, unless it waits for the lock of a configuration.       *)
(* Nothing is assumed of what users enter, nor of which shell gets a lock. *)
(***************************************************************************)
FairSpec ==
    /\ Spec
    /\ \A p \in Pid : WF_vars(DaemonStep(p))
    /\ \A s \in Shell : WF_vars(CommandStep(s))

-----------------------------------------------------------------------------
(* Properties                                                              *)

Working(p) == state[p] \in {"reading", "sleeping"}

\* The state stays in its types; the list and the configurations name daemons
\* that exist.
TypeOK ==
    /\ list \subseteq [pid : Pid, dir : Dir]
    /\ conf \in [Dir -> Config \cup {NoConf, Torn}]
    /\ state \in [Pid -> {"none", "forked", "wait", "interrupted", "reading", "sleeping",
                      "dead", "gone"}]
    /\ stop \subseteq Pid /\ ready \subseteq Pid /\ refused \subseteq Pid
    /\ broken \subseteq Dir /\ deserted \subseteq Pid
    /\ dirOf \in [Pid -> Dir \cup {NoDir}]
    /\ parent \in [Pid -> Shell \cup {0}]
    /\ pc \in [Shell -> {"prompt", "fork", "config", "filling", "register", "abort", "start",
                         "read", "write", "rewriting", "kill", "unlist"}]
    /\ \A s \in Shell : at[s].pid \in 0..MaxPid /\ at[s].dir \in Dir \cup {NoDir}
    /\ \A e \in list : dirOf[e.pid] = e.dir
    /\ \A d \in Dir : conf[d] \in Config => dirOf[conf[d].pid] = d

\* No directory is listed twice, nor inside another that is listed, however
\* many shells add at the same time.
NoOverlap ==
    \A e, f \in list : e # f => ~paths_overlap(e.dir, f.dir)

\* A daemon works only if its add came to the end: it was neither refused nor left
\* behind by a shell that died on the way, in the middle of its configuration too.
\* It can read the configuration of its directory, with two exceptions only: a shell
\* is rewriting it and has it locked, or one died doing so and nobody has written it
\* since.  (Then the daemon passes over its turns, until a modify that had read the
\* file before, or an add after a remove, writes it again.)
WorkingHasConfig ==
    \A p \in Pid : Working(p) =>
        /\ p \notin refused \cup deserted
        /\ conf[dirOf[p]] \in Config \/ Locked(dirOf[p]) \/ dirOf[p] \in broken

\* A daemon that was sent SIGTERM, while starting, waiting or working, ends.
StopTakesEffect == \A p \in Pid : p \in stop ~> state[p] \in {"dead", "gone"}

\* README: a command that is turned down changes no configuration, and the pid in
\* a configuration is that of the daemon in charge.  So what a refused add wrote is
\* never the configuration of a directory with a daemon.
RefusedLeavesConfig ==
    \A e \in list : process_is_alive(e.pid) /\ conf[e.dir] \in Config
                     => conf[e.dir].pid \notin refused
=============================================================================
