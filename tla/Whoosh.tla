------------------------------- MODULE Whoosh -------------------------------
(***************************************************************************)
(* The script shell of Shelllab/whoosh.c: run_script and what it calls,    *)
(* the processes it forks, and sigint_handler, which the kernel runs on    *)
(* top of the shell wherever SIGINT is not blocked.                        *)
(*                                                                         *)
(* A process is known by its pid; pids are handed out in order and not     *)
(* used twice.  Every csapp wrapper ends the shell when its call fails, by *)
(* exit(0) with a message.                                                 *)
(***************************************************************************)
EXTENDS Integers, Sequences, FiniteSets

CONSTANTS
  Scripts,        \* the parsed scripts: sequences of groups
  Vars,           \* script variables
  NULL,
  VAR,            \* length of var_list (50 in the code)
  Codes,          \* exit codes of the commands
  Signals,        \* signals that commands bring upon themselves
  MaxPids,        \* bound: processes forked in a run
  MaxInterrupts   \* bound: SIGINTs sent to the shell

ASSUME BoundsAssumption ==
  /\ VAR \in Nat /\ MaxPids \in Nat /\ MaxInterrupts \in Nat
  /\ Codes \subseteq Nat /\ Signals \subseteq Nat
ASSUME NullAssumption == NULL \notin Vars

(* prog: whether the command ends by itself or has to be terminated.       *)
Commands == [prog : {"ends", "sleeps"}, pid_to : Vars \cup {NULL}]
Groups == [mode : {"SINGLE", "AND", "OR"}, repeats : Nat,
           result_to : Vars \cup {NULL}, commands : Seq(Commands)]

ASSUME ScriptsAssumption ==
  /\ Scripts \subseteq Seq(Groups)
  /\ \A s \in Scripts : \A j \in 1..Len(s) :
       /\ Len(s[j].commands) > 0
       /\ s[j].mode = "SINGLE" <=> Len(s[j].commands) = 1

Pids == 1..MaxPids
shell == 0       \* the shell, as a parent
SIGTERM == 15

VARIABLES
  script,      \* scr
  pc,          \* where run_script is
  g, k, i,     \* its group, repetition and command of an OR group
  array,       \* the pids sigint_handler terminates, [ok, pids]
  pid,         \* the volatile global pid
  pid_list,    \* of handle_or
  first_pid,   \* the pid and ...
  status,      \* ... the status that the last Wait returned
  var_list, var_index, value,
  blocked, pending,   \* SIGINT in the mask, SIGINT pending
  hpc,         \* where sigint_handler is
  out,         \* how the shell ended
  st,          \* st[p] : "none" "pipe" "run" "term" "zombie" "gone"
  parent, grp, cmd, code,   \* of each process; grp: the group it is for;
               \* code: its status, and who ended it
  sent,        \* history: SIGINTs sent
  hits         \* history: where the shell was when they were handled

mainVars == <<g, k, i, pid_list, first_pid, status>>
varVars == <<var_list, var_index, value>>
sigVars == <<blocked, pending, hpc, sent, hits>>
procVars == <<st, parent, grp, cmd, code>>
vars == <<script, pc, mainVars, array, pid, varVars, sigVars, out, procVars>>

(* What set_status_to_list makes of a status: an exit code, or a signal    *)
(* with a minus sign.                                                      *)
Ends == Codes \cup {-s : s \in Signals}
Statuses == Ends \cup {0, -SIGTERM}
PCs == {"group", "rep", "unblock", "wait", "status", "and_assign", "and_wait",
        "or_fork", "or_wait", "or_loop", "or_reap", "or_status", "freeing", "freed"}

TypeOK ==
  /\ script \in Scripts /\ pc \in PCs
  /\ g \in 1..(Len(script) + 1) /\ k \in Nat /\ i \in Nat
  /\ array \in [ok : BOOLEAN, pids : Seq(Pids)] /\ pid \in Pids \cup {0}
  /\ pid_list \in Seq(Pids) /\ first_pid \in Pids \cup {0}
  /\ status \in Statuses
  /\ var_list \in [0..(VAR - 1) -> Vars \cup {NULL}] /\ var_index \in 0..VAR
  /\ value \in [Vars -> Statuses \cup Pids]
  /\ blocked \in BOOLEAN /\ pending \in BOOLEAN /\ hpc \in {"none", "kill", "waitpid"}
  /\ out \in {"running", "ok", "error", "segv", "killed", "overflow"}
  /\ st \in [Pids -> {"none", "pipe", "run", "term", "zombie", "gone"}]
  /\ parent \in [Pids -> Pids \cup {shell}]
  /\ cmd \in [Pids -> {"ends", "sleeps"}] /\ code \in [Pids -> [status : Statuses, by : {"itself", "shell"}]]

Init ==
  /\ script \in Scripts
  /\ pc = "group" /\ g = 1 /\ k = 0 /\ i = 1
  /\ array = [ok |-> TRUE, pids |-> <<>>] /\ pid = 0
  /\ pid_list = <<>> /\ first_pid = 0 /\ status = 0
  /\ var_list = [n \in 0..(VAR - 1) |-> NULL] /\ var_index = 0
  /\ value = [v \in Vars |-> 0]
  /\ blocked = FALSE /\ pending = FALSE /\ hpc = "none"
  /\ out = "running"
  /\ st = [p \in Pids |-> "none"] /\ parent = [p \in Pids |-> shell]
  /\ grp = [p \in Pids |-> 0] /\ cmd = [p \in Pids |-> "ends"]
  /\ code = [p \in Pids |-> [status |-> 0, by |-> "itself"]]
  /\ sent = 0 /\ hits = {}

-----------------------------------------------------------------------------
(* Processes *)

Unreaped == {p \in Pids : st[p] \notin {"none", "gone"}}
Children(q) == {p \in Unreaped : parent[p] = q}
Zombies == {p \in Children(shell) : st[p] = "zombie"}
NextPid == 1 + Cardinality({p \in Pids : st[p] # "none"})

(* fork by q of a process for group j that starts as state s, command c.   *)
Fork(q, j, s, c) ==
  /\ NextPid \in Pids
  /\ st' = [st EXCEPT ![NextPid] = s]
  /\ parent' = [parent EXCEPT ![NextPid] = q]
  /\ grp' = [grp EXCEPT ![NextPid] = j]
  /\ cmd' = [cmd EXCEPT ![NextPid] = c.prog]
  /\ UNCHANGED code

(* What SIGTERM does to the processes ps; a zombie does not notice.        *)
Terminated(ps) ==
  [p \in Pids |-> IF p \in ps /\ st[p] \in {"run", "pipe"} THEN "term" ELSE st[p]]

(* The end of a process: by itself, with an exit code or by a signal (as   *)
(* in bash_bye.whoosh), or of the shell's SIGTERM.  Only the shell waits   *)
(* for its children.                                                       *)
Exit(p) ==
  /\ \/ st[p] = "run" /\ cmd[p] = "ends"
        /\ \E s \in Ends : code' = [code EXCEPT ![p] = [status |-> s, by |-> "itself"]]
     \/ st[p] = "term" /\ code' = [code EXCEPT ![p] = [status |-> -SIGTERM, by |-> "shell"]]
  /\ st' = [st EXCEPT ![p] = IF parent[p] = shell /\ out = "running" THEN "zombie" ELSE "gone"]
  /\ UNCHANGED <<script, pc, mainVars, array, pid, varVars, sigVars, out, parent, grp, cmd>>

(* handle_pipe in the process forked for an AND group: one child for each  *)
(* command but the last, which it becomes itself.  The pids it notes in    *)
(* its variables and its array are in its own copy of the shell's memory.  *)
handle_pipe(p) ==
  /\ st[p] = "pipe"
  /\ LET commands == script[grp[p]].commands
         pos == 1 + Cardinality({q \in Pids : st[q] # "none" /\ parent[q] = p})
     IN  IF pos = Len(commands)
         THEN /\ st' = [st EXCEPT ![p] = "run"]
              /\ cmd' = [cmd EXCEPT ![p] = commands[pos].prog]
              /\ UNCHANGED <<parent, grp, code>>
         ELSE Fork(p, grp[p], "run", commands[pos])
  /\ UNCHANGED <<script, pc, mainVars, array, pid, varVars, sigVars, out>>

-----------------------------------------------------------------------------
(* The shell.  It makes no step while the handler runs or is due.          *)

Main == out = "running" /\ hpc = "none" /\ ~(pending /\ ~blocked)

Group == script[g]

Stop(how) == out' = how

(* var_list[var_index] = v *)
NoteVar(v) == var_list' = [var_list EXCEPT ![var_index] = v]

(* run_group *)
BeginGroup ==
  /\ Main /\ pc = "group" /\ g <= Len(script)
  /\ pc' = "rep" /\ k' = 0
  /\ IF Group.result_to = NULL THEN UNCHANGED <<var_list, out>>
     ELSE IF var_index >= VAR THEN Stop("overflow") /\ UNCHANGED var_list
     ELSE NoteVar(Group.result_to) /\ UNCHANGED out
  /\ UNCHANGED <<script, g, i, pid_list, first_pid, status, array, pid, var_index,
                 value, sigVars, procVars>>

(* The pid that fork returned goes to the command's variable.              *)
SetPidTo(v) ==
  IF v = NULL THEN UNCHANGED <<varVars, out>>
  ELSE IF var_index >= VAR THEN Stop("overflow") /\ UNCHANGED varVars
  ELSE /\ NoteVar(v)
       /\ value' = [value EXCEPT ![v] = NextPid]
       /\ var_index' = var_index + 1
       /\ UNCHANGED out

(* mutant: the pid is not put in the array *)
run_command_untracked ==
  /\ Main /\ pc = "rep" /\ k < Group.repeats /\ Group.mode = "SINGLE"
  /\ blocked' = TRUE
  /\ Fork(shell, g, "run", Group.commands[1])
  /\ pid' = NextPid
  /\ SetPidTo(Group.commands[1].pid_to)
  /\ pc' = "unblock"
  /\ UNCHANGED <<script, mainVars, array, pending, hpc, sent, hits>>

(* run_command, with SIGINT blocked from here to Unblock                   *)
run_command ==
  /\ Main /\ pc = "rep" /\ k < Group.repeats /\ Group.mode = "SINGLE"
  /\ blocked' = TRUE
  /\ Fork(shell, g, "run", Group.commands[1])
  /\ pid' = NextPid
  /\ array' = [ok |-> TRUE, pids |-> <<NextPid>>]
  /\ SetPidTo(Group.commands[1].pid_to)
  /\ pc' = "unblock"
  /\ UNCHANGED <<script, mainVars, pending, hpc, sent, hits>>

(* mutant: run_command does not wait *)
Unblock_nowait ==
  /\ Main /\ pc = "unblock"
  /\ blocked' = FALSE
  /\ pc' = "status"
  /\ UNCHANGED <<script, mainVars, array, pid, varVars, pending, hpc, sent, hits, out, procVars>>

Unblock ==
  /\ Main /\ pc = "unblock"
  /\ blocked' = FALSE
  /\ pc' = "wait"
  /\ UNCHANGED <<script, mainVars, array, pid, varVars, pending, hpc, sent, hits, out, procVars>>

(* Wait returns any child that has ended, blocks while none has, and fails *)
(* when there is no child.                                                 *)
Reap(ps) ==
  \/ /\ ps = {} /\ Stop("error")
     /\ UNCHANGED <<st, status, first_pid, pc>>
  \/ \E p \in ps \cap Zombies :
       /\ st' = [st EXCEPT ![p] = "gone"]
       /\ status' = code[p].status /\ first_pid' = p
       /\ pc' = CASE pc = "wait" -> "status" [] pc = "and_wait" -> "rep"
                  [] pc = "or_wait" -> "or_loop"
       /\ UNCHANGED out

Wait ==
  /\ Main /\ pc \in {"wait", "and_wait", "or_wait"}
  /\ Reap(Children(shell))
  /\ k' = IF pc = "and_wait" THEN k + 1 ELSE k
  /\ UNCHANGED <<script, g, i, pid_list, array, pid, varVars, sigVars, parent, grp, cmd, code>>

(* mutant: the flag is not looked at *)
set_status_to_list_always ==
  /\ Main /\ pc \in {"status", "or_status"}
  /\ pc' = "rep" /\ k' = k + 1
  /\ IF var_list[var_index] = NULL THEN Stop("segv") /\ UNCHANGED varVars
     ELSE /\ value' = [value EXCEPT ![var_list[var_index]] = status]
          /\ var_index' = var_index + 1
          /\ UNCHANGED <<var_list, out>>
  /\ UNCHANGED <<script, g, i, pid_list, first_pid, status, array, pid, sigVars, procVars>>

(* set_status_to_list, when the group has a result; an unset entry is NULL *)
set_status_to_list ==
  /\ Main /\ pc \in {"status", "or_status"}
  /\ pc' = "rep" /\ k' = k + 1
  /\ IF Group.result_to = NULL THEN UNCHANGED <<varVars, out>>
     ELSE IF var_index >= VAR THEN Stop("overflow") /\ UNCHANGED varVars
     ELSE IF var_list[var_index] = NULL THEN Stop("segv") /\ UNCHANGED varVars
     ELSE /\ value' = [value EXCEPT ![var_list[var_index]] = status]
          /\ var_index' = var_index + 1
          /\ UNCHANGED <<var_list, out>>
  /\ UNCHANGED <<script, g, i, pid_list, first_pid, status, array, pid, sigVars, procVars>>

(* An AND group: SIGINT may be handled between the fork and the assignment *)
AndFork ==
  /\ Main /\ pc = "rep" /\ k < Group.repeats /\ Group.mode = "AND"
  /\ Fork(shell, g, "pipe", Group.commands[1])
  /\ pc' = "and_assign"
  /\ UNCHANGED <<script, mainVars, array, pid, varVars, sigVars, out>>

AndAssign ==
  /\ Main /\ pc = "and_assign"
  /\ \E p \in Children(shell) : grp[p] = g /\ pid' = p
  /\ pc' = "and_wait"
  /\ UNCHANGED <<script, mainVars, array, varVars, sigVars, out, procVars>>

(* handle_or: SIGINT is blocked and stays so *)
OrBegin ==
  /\ Main /\ pc = "rep" /\ k < Group.repeats /\ Group.mode = "OR"
  /\ blocked' = TRUE
  /\ pid_list' = <<>>
  /\ pc' = "or_fork"
  /\ UNCHANGED <<script, g, k, i, first_pid, status, array, pid, varVars, pending, hpc,
                 sent, hits, out, procVars>>

OrFork ==
  /\ Main /\ pc = "or_fork"
  /\ IF Len(pid_list) < Len(Group.commands)
     THEN /\ Fork(shell, g, "run", Group.commands[Len(pid_list) + 1])
          /\ pid_list' = Append(pid_list, NextPid)
          /\ UNCHANGED <<pc, i>>
     ELSE pc' = "or_wait" /\ i' = 1 /\ UNCHANGED <<pid_list, procVars>>
  /\ UNCHANGED <<script, g, k, first_pid, status, array, pid, varVars, sigVars, out>>

(* The loop over pid_list: which entries it skips, the state of the other  *)
(* processes after its Kill, and where it goes from there                  *)
KillLoop(skips, killed, label, next_i) ==
  /\ Main /\ pc = "or_loop"
  /\ IF i > Len(pid_list) THEN pc' = "or_status" /\ UNCHANGED <<i, st, out>>
     ELSE IF skips THEN i' = i + 1 /\ UNCHANGED <<pc, st, out>>
     ELSE IF pid_list[i] \notin Unreaped THEN Stop("error") /\ UNCHANGED <<pc, i, st>>
     ELSE st' = killed /\ pc' = label /\ i' = next_i /\ UNCHANGED out
  /\ UNCHANGED <<script, g, k, pid_list, first_pid, status, array, pid, varVars, sigVars,
                 parent, grp, cmd, code>>

(* mutants: the killed process is not waited for, the first finisher is    *)
(* killed too, nothing is killed                                           *)
OrKill_nowait ==
  KillLoop(pid_list[i] = first_pid, Terminated({pid_list[i]}), "or_loop", i + 1)
OrKill_all == KillLoop(FALSE, Terminated({pid_list[i]}), "or_reap", i)
OrKill_none == KillLoop(pid_list[i] = first_pid, st, "or_reap", i)

(* Kill every process but the first to end, and wait for it.               *)
OrKill == KillLoop(pid_list[i] = first_pid, Terminated({pid_list[i]}), "or_reap", i)

(* mutant: the status of the terminated process is kept *)
OrReap_overwrites ==
  /\ Main /\ pc = "or_reap"
  /\ pid_list[i] \in Zombies
  /\ st' = [st EXCEPT ![pid_list[i]] = "gone"]
  /\ status' = code[pid_list[i]].status
  /\ pc' = "or_loop" /\ i' = i + 1
  /\ UNCHANGED <<script, g, k, pid_list, first_pid, array, pid, varVars, sigVars,
                 out, parent, grp, cmd, code>>

OrReap ==
  /\ Main /\ pc = "or_reap"
  /\ pid_list[i] \in Zombies
  /\ st' = [st EXCEPT ![pid_list[i]] = "gone"]
  /\ pc' = "or_loop" /\ i' = i + 1
  /\ UNCHANGED <<script, g, k, pid_list, first_pid, status, array, pid, varVars, sigVars,
                 out, parent, grp, cmd, code>>

(* The end of a group.  run_script frees the array in three stores, with   *)
(* the handler free to run between them, unless the script has one group.  *)
EndGroup ==
  /\ Main /\ pc = "rep" /\ k >= Group.repeats
  /\ IF Len(script) = 1 THEN pc' = "group" /\ g' = g + 1 ELSE pc' = "freeing" /\ UNCHANGED g
  /\ UNCHANGED <<script, k, i, pid_list, first_pid, status, array, pid, varVars, sigVars,
                 out, procVars>>

freeArray ==
  /\ Main
  /\ \/ pc = "freeing" /\ array' = [array EXCEPT !.ok = FALSE] /\ pc' = "freed" /\ UNCHANGED g
     \/ /\ pc = "freed" /\ array' = [ok |-> TRUE, pids |-> <<>>]
        /\ pc' = "group" /\ g' = g + 1
  /\ UNCHANGED <<script, k, i, pid_list, first_pid, status, pid, varVars, sigVars, out, procVars>>

(* No child is ever put in continued_list: WIFSTOPPED is never WUNTRACED.  *)
EndScript ==
  /\ Main /\ pc = "group" /\ g > Len(script)
  /\ Stop("ok")
  /\ UNCHANGED <<script, pc, mainVars, array, pid, varVars, sigVars, procVars>>

-----------------------------------------------------------------------------
(* SIGINT *)

(* The user presses Ctl-C. *)
Interrupt ==
  /\ out = "running" /\ sent < MaxInterrupts
  /\ pending' = TRUE /\ sent' = sent + 1
  /\ UNCHANGED <<script, pc, mainVars, array, pid, varVars, blocked, hpc, hits, out, procVars>>

Deliver ==
  /\ out = "running" /\ pending /\ ~blocked /\ hpc = "none"
  /\ pending' = FALSE /\ hpc' = "kill"
  /\ hits' = hits \cup {IF pc = "wait" /\ st[pid] = "run" THEN "command" ELSE "elsewhere"}
  /\ UNCHANGED <<script, pc, mainVars, array, pid, varVars, blocked, sent, out, procVars>>

(* sigint_handler: SIGTERM to every process of the array.  Kill fails on a *)
(* process that is gone.  A freed array crashes the shell, or holds what   *)
(* is no pid, or 0: kill(0, SIGTERM) ends the shell, which is alone in its *)
(* process group then.                                                     *)
HandlerKill ==
  /\ out = "running" /\ hpc = "kill"
  /\ LET ps == {array.pids[n] : n \in 1..Len(array.pids)}
     IN  \/ /\ ~array.ok /\ ps # {}
            /\ out' \in {"segv", "error", "killed"} /\ UNCHANGED <<st, hpc>>
         \/ /\ array.ok /\ ~(ps \subseteq Unreaped)
            /\ Stop("error") /\ UNCHANGED <<st, hpc>>
         \/ /\ ps = {} \/ (array.ok /\ ps \subseteq Unreaped)
            /\ st' = Terminated(ps) /\ hpc' = "waitpid" /\ UNCHANGED out
  /\ UNCHANGED <<script, pc, mainVars, array, pid, varVars, blocked, pending, sent, hits,
                 parent, grp, cmd, code>>

(* The process of a pipeline stays in the shell's process group until it   *)
(* has forked for its first command; all others leave theirs at once.      *)
InShellGroup(p) == st[p] = "pipe" /\ \A q \in Pids : st[q] # "none" => parent[q] # p

(* ... and Waitpid(pid, WNOHANG), which reaps the child if it has ended,   *)
(* and asks for any child of the shell's process group if no pid has been  *)
(* stored yet.                                                             *)
HandlerWaitpid ==
  /\ out = "running" /\ hpc = "waitpid"
  /\ IF pid \in Children(shell)
     THEN /\ st' = IF st[pid] = "zombie" THEN [st EXCEPT ![pid] = "gone"] ELSE st
          /\ hpc' = "none" /\ UNCHANGED out
     ELSE IF pid = 0 /\ \E p \in Children(shell) : InShellGroup(p)
     THEN hpc' = "none" /\ UNCHANGED <<st, out>>
     ELSE Stop("error") /\ UNCHANGED <<st, hpc>>
  /\ UNCHANGED <<script, pc, mainVars, array, pid, varVars, blocked, pending, sent, hits,
                 parent, grp, cmd, code>>

-----------------------------------------------------------------------------
Shell == BeginGroup \/ run_command \/ Unblock \/ Wait \/ set_status_to_list
         \/ AndFork \/ AndAssign \/ OrBegin \/ OrFork \/ OrKill \/ OrReap
         \/ EndGroup \/ freeArray \/ EndScript

Handler == Deliver \/ HandlerKill \/ HandlerWaitpid

Next ==
  \/ Shell \/ Handler \/ Interrupt
  \/ \E p \in Pids : handle_pipe(p) \/ Exit(p)

Spec == Init /\ [][Next]_vars

(* The kernel runs the shell, delivers pending signals, and runs every     *)
(* process: one that ends by itself or was sent SIGTERM does end.          *)
FairSpec ==
  /\ Spec /\ WF_vars(Shell) /\ WF_vars(Handler)
  /\ \A p \in Pids : WF_vars(handle_pipe(p)) /\ WF_vars(Exit(p))

-----------------------------------------------------------------------------
(* Nothing is left behind: whenever the shell is between two commands or   *)
(* groups it has no child left, running or zombie, whichever of the waits  *)
(* in run_command, handle_or or the handler reaped it.                     *)
NoZombies ==
  out = "running" /\ pc \in {"group", "rep", "freeing", "freed"} => Children(shell) = {}

(* Without Ctl-C no wrapper ever fails: each Wait and Waitpid has a child  *)
(* to wait for and each Kill of handle_or hits a process not yet reaped.   *)
ErrorsNeedCtlC == out = "error" => hits # {}

(* SIGTERM only reaches processes of the group being run, even though the  *)
(* handler finds its targets in a global array.                            *)
TermsOwnGroup == \A p \in Pids : st[p] = "term" /\ out = "running" => grp[p] = g

(* ast.h: result_to is "a variable to receive result status".  After a     *)
(* single command or an OR group it holds the status of a process that the *)
(* shell started for the group, as long as no later command was given the  *)
(* same variable; without Ctl-C that process ended by itself, by a signal  *)
(* perhaps (bash_bye.whoosh), and is none of those that handle_or has      *)
(* terminated (race.whoosh).  An AND group never sets it in the shell.     *)
Assigns(j, v) == script[j].result_to = v
                 \/ \E n \in 1..Len(script[j].commands) : script[j].commands[n].pid_to = v
ResultReceived ==
  pc = "group" =>
    \A j \in 1..(g - 1) :
      LET v == script[j].result_to
      IN  v # NULL /\ script[j].mode # "AND" /\ script[j].repeats > 0
          /\ (\A l \in (j + 1)..(g - 1) : ~Assigns(l, v)) =>
            \E p \in Pids : /\ st[p] = "gone" /\ parent[p] = shell /\ grp[p] = j
                            /\ value[v] = code[p].status
                            /\ hits = {} => code[p].by = "itself"

(* The entries of var_list that the groups up to g ask for: one for every  *)
(* pid, and one for every result, the first of which run_group notes even  *)
(* if the group is a pipeline or runs no command.                          *)
EntriesOf(j) ==
  LET group == script[j]
  IN  {<<j, n, "pid">> : n \in {m \in 1..group.repeats :
         group.mode = "SINGLE" /\ group.commands[1].pid_to # NULL}}
      \cup {<<j, n, "result">> : n \in {m \in 1..(group.repeats + 1) :
         group.result_to # NULL /\ (m = 1 \/ (group.mode # "AND" /\ m <= group.repeats))}}
EntriesAsked == UNION {EntriesOf(j) : j \in 1..g}

(* A result that has to go where run_group noted no variable: the group is *)
(* repeated, or its command takes the entry for its pid.                   *)
ResultHasNoEntry(group) ==
  /\ group.result_to # NULL /\ group.mode # "AND"
  /\ group.repeats > 1 \/ (group.mode = "SINGLE" /\ group.commands[1].pid_to # NULL)

(* The shell runs over the end of var_list only when the script so far     *)
(* asks for more entries than there are, and it crashes only at a result   *)
(* for which set_status_to_list finds no variable (whoosh.c:655), or when  *)
(* Ctl-C strikes between freeArray's free and its reset of the length      *)
(* (whoosh.c:482), which may also make it end itself by SIGTERM.           *)
CrashesExplained ==
  /\ out = "overflow" => Cardinality(EntriesAsked) > VAR
  /\ out = "segv" =>
       \/ ResultHasNoEntry(script[g])
       \/ hits # {} /\ pc = "freed" /\ hpc = "kill"
  /\ out = "killed" => hits # {} /\ pc = "freed" /\ hpc = "kill"

(* A group whose command, last pipeline command or some OR command ends by *)
(* itself.                                                                 *)
EndsByItself(group) ==
  LET n == Len(group.commands)
  IN  IF group.mode = "OR" THEN \E m \in 1..n : group.commands[m].prog = "ends"
      ELSE group.commands[n].prog = "ends"

(* The script runs to its end when every group can: an OR group is not     *)
(* held up by a command that sleeps.                                       *)
Finishes ==
  (\A j \in 1..Len(script) : EndsByItself(script[j])) ~> out # "running"

(* Ctl-C while the shell waits for a single command ends the wait, even if *)
(* the command would have slept forever.                                   *)
CtlCEndsCommand == pc = "wait" /\ hpc = "kill" ~> pc # "wait" \/ out # "running"

-----------------------------------------------------------------------------
(* What the scripts of the repository expect *)

(* scripts/ctl-c: Ctl-C terminates the command that runs, and the script   *)
(* goes on.                                                                *)
ScriptGoesOn == out = "error" => hits # {"command"}
=============================================================================
