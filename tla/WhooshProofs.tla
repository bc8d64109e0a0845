---------------------------- MODULE WhooshProofs ----------------------------
(***************************************************************************)
(* The shell for any scripts, any length of var_list, any exit codes and   *)
(* any number of processes and Ctl-C: which children it has at every       *)
(* place of run_script, and what follows from that for the waits, the      *)
(* signals, the results and the crashes.                                   *)
(***************************************************************************)
EXTENDS Whoosh, FiniteSetTheorems, TLAPS

States == {"none", "pipe", "run", "term", "zombie", "gone"}

(* How a process ends. *)
Endings == [status : Int, by : {"itself", "shell"}]

(* The part of the type invariant that the arguments need. *)
Types ==
  /\ script \in Scripts /\ pc \in PCs /\ hpc \in {"none", "kill", "waitpid"}
  /\ g \in Nat \ {0} /\ k \in Nat /\ i \in Nat
  /\ g <= Len(script) \/ pc = "group"
  /\ array \in [ok : BOOLEAN, pids : Seq(Pids)] /\ pid \in Pids \cup {0}
  /\ pid_list \in Seq(Pids) /\ first_pid \in Pids \cup {0}
  /\ blocked \in BOOLEAN
  /\ st \in [Pids -> States] /\ parent \in [Pids -> Pids \cup {shell}]
  /\ grp \in [Pids -> Nat] /\ code \in [Pids -> Endings]

(* Pids are handed out in order. *)
PidsInOrder == \E n \in 0..MaxPids : \A p \in Pids : st[p] # "none" <=> p <= n

(* Only children of the shell are sent SIGTERM or become zombies, and the  *)
(* pids that the shell and its handler keep are of children, present or    *)
(* past.                                                                   *)
ChildOfShell(p) == st[p] # "none" /\ parent[p] = shell
Keeps ==
  /\ \A p \in Pids : st[p] \in {"term", "zombie"} => parent[p] = shell
  /\ \A n \in 1..Len(array.pids) : ChildOfShell(array.pids[n])
  /\ \A n \in 1..Len(pid_list) : ChildOfShell(pid_list[n])
  /\ pid # 0 => st[pid] # "none"

(* Where the handler can be. *)
HandlerInv ==
  /\ blocked => hpc = "none"
  /\ hpc # "none" => hits # {}
  /\ ~array.ok => pc = "freed"

OrPCs == {"or_fork", "or_wait", "or_loop", "or_reap", "or_status"}
ModeInv ==
  /\ pc \in {"unblock", "wait", "status"} => Group.mode = "SINGLE"
  /\ pc \in {"and_assign", "and_wait"} => Group.mode = "AND"
  /\ pc \in OrPCs => Group.mode = "OR" /\ blocked
  /\ pc \in {"unblock", "wait", "status", "and_assign", "and_wait"} \cup OrPCs => k < Group.repeats

(* The children of the shell, wherever run_script is. *)
Listed == {pid_list[n] : n \in 1..Len(pid_list)}
ListedFrom(m) == {pid_list[n] : n \in m..Len(pid_list)}
Distinct == \A m, n \in 1..Len(pid_list) : pid_list[m] = pid_list[n] => m = n

ChildrenInv ==
  /\ \A p \in Children(shell) : grp[p] = g
  /\ pc \in {"group", "rep", "freeing", "freed", "status", "or_status"} => Children(shell) = {}
  /\ pc = "unblock" => Children(shell) = {pid} /\ blocked
  /\ pc \in {"wait", "and_wait"} =>
       /\ Children(shell) \subseteq {pid}
       /\ Children(shell) = {} => hits # {}
  /\ pc = "and_assign" => \E p \in Pids : Children(shell) = {p} /\ p # pid
  /\ pc \in OrPCs \ {"or_status"} => Distinct
  /\ pc \in {"or_fork", "or_wait"} => Children(shell) = Listed
  /\ pc = "or_wait" => Listed # {} /\ i = 1
  /\ pc \in {"or_loop", "or_reap"} => i > 0 /\ Children(shell) = ListedFrom(i) \ {first_pid}
  /\ pc = "or_reap" => i <= Len(pid_list) /\ pid_list[i] # first_pid

Running == out = "running" => Keeps /\ HandlerInv /\ ModeInv /\ ChildrenInv

IInv == Types /\ PidsInOrder /\ Running /\ ErrorsNeedCtlC

-----------------------------------------------------------------------------
(* The next pid has never been used, and using it keeps them in order.     *)
LEMMA FreshPid ==
  ASSUME Types, PidsInOrder, NextPid \in Pids, NEW s \in States \ {"none"},
         st' = [st EXCEPT ![NextPid] = s]
  PROVE  st[NextPid] = "none" /\ PidsInOrder'
  <1>1. PICK n \in 0..MaxPids : \A p \in Pids : st[p] # "none" <=> p <= n
    BY DEF PidsInOrder
  <1>2. {p \in Pids : st[p] # "none"} = 1..n
    BY <1>1, BoundsAssumption DEF Pids
  <1>3. Cardinality(1..n) = n
    BY BoundsAssumption, FS_Interval
  <1>4. NextPid = n + 1
    BY <1>2, <1>3 DEF NextPid
  <1>5. st[NextPid] = "none" /\ n + 1 \in 0..MaxPids
    BY <1>1, <1>4, BoundsAssumption DEF Pids
  <1>6. \A p \in Pids : st'[p] # "none" <=> p <= n + 1
    BY <1>1, <1>4, BoundsAssumption DEF Types, Pids
  <1>7. QED
    BY <1>5, <1>6 DEF PidsInOrder

(* What a fork by the shell or by a pipeline adds to the shell's children. *)
LEMMA ForkChildren ==
  ASSUME Types, PidsInOrder, NEW q \in Pids \cup {shell}, NEW j \in Nat,
         NEW s \in {"run", "pipe"}, NEW c, Fork(q, j, s, c)
  PROVE  /\ NextPid \in Pids /\ st[NextPid] = "none" /\ PidsInOrder'
         /\ st' = [st EXCEPT ![NextPid] = s] /\ st' \in [Pids -> States]
         /\ parent' = [parent EXCEPT ![NextPid] = q] /\ parent' \in [Pids -> Pids \cup {shell}]
         /\ grp' = [grp EXCEPT ![NextPid] = j] /\ grp' \in [Pids -> Nat]
         /\ Children(shell)' = IF q = shell THEN Children(shell) \cup {NextPid} ELSE Children(shell)
  <1>1. NextPid \in Pids /\ st' = [st EXCEPT ![NextPid] = s]
    BY DEF Fork
  <1>2. st[NextPid] = "none" /\ PidsInOrder'
    BY <1>1, FreshPid DEF States
  <1>3. QED
    BY <1>1, <1>2 DEF Fork, Types, Children, Unreaped, States

(* The shell's children are what they were when no process changed.        *)
LEMMA ChildrenKept ==
  ASSUME UNCHANGED <<st, parent>>
  PROVE  Children(shell)' = Children(shell) /\ Unreaped' = Unreaped /\ (PidsInOrder => PidsInOrder')
  BY DEF Children, Unreaped, PidsInOrder

(* The group that is run is one of the script. *)
LEMMA GroupType ==
  ASSUME Types, pc # "group" \/ g <= Len(script)
  PROVE  /\ Len(script) \in Nat /\ g \in 1..Len(script)
         /\ Group \in Groups /\ Len(Group.commands) \in Nat \ {0}
  <1>1. script \in Seq(Groups) /\ g \in 1..Len(script) /\ Len(script) \in Nat
    BY ScriptsAssumption DEF Types
  <1>2. Group \in Groups /\ Len(Group.commands) > 0
    BY <1>1, ScriptsAssumption DEF Group, Types
  <1>3. Len(Group.commands) \in Nat
    BY <1>2 DEF Groups
  <1>4. QED
    BY <1>1, <1>2, <1>3

(* Steps of the shell between its system calls. *)
LEMMA QuietSteps ==
  ASSUME IInv,
         BeginGroup \/ Unblock \/ set_status_to_list \/ OrBegin \/ EndGroup \/ freeArray \/ EndScript
  PROVE  IInv'
  <1>1. out = "running" /\ hpc = "none" /\ UNCHANGED <<st, parent, grp, code, script, hpc, hits>>
    BY DEF Main, BeginGroup, Unblock, set_status_to_list, OrBegin, EndGroup, freeArray, EndScript,
           sigVars, procVars
  <1>2. Types /\ PidsInOrder /\ Keeps /\ HandlerInv /\ ModeInv /\ ChildrenInv
    BY <1>1 DEF IInv, Running
  <1>3. /\ Children(shell)' = Children(shell) /\ PidsInOrder'
        /\ \A p \in Pids : ChildOfShell(p)' = ChildOfShell(p)
    BY <1>1, <1>2, ChildrenKept DEF ChildOfShell
  <1>4. CASE BeginGroup
    <2>1. Types'
      BY <1>1, <1>2, <1>4 DEF BeginGroup, Types, PCs, mainVars, sigVars, procVars
    <2>2. Keeps' /\ HandlerInv' /\ ModeInv' /\ ChildrenInv'
      <3>1. Keeps'
        BY <1>1, <1>2, <1>3, <1>4, SMTT(30)
        DEF BeginGroup, OrPCs, sigVars, procVars, ChildOfShell, Keeps
      <3>2. HandlerInv'
        BY <1>1, <1>2, <1>3, <1>4, SMTT(30)
        DEF BeginGroup, OrPCs, sigVars, procVars, ChildOfShell, HandlerInv
      <3>3. ModeInv'
        BY <1>1, <1>2, <1>3, <1>4, SMTT(30)
        DEF BeginGroup, OrPCs, sigVars, procVars, ChildOfShell, ModeInv
      <3>4. ChildrenInv'
        BY <1>1, <1>2, <1>3, <1>4, SMTT(30)
        DEF BeginGroup, OrPCs, sigVars, procVars, ChildOfShell, ChildrenInv
      <3>5. QED
        BY <3>1, <3>2, <3>3, <3>4
    <2>3. ErrorsNeedCtlC'
      BY <1>1, <1>4 DEF BeginGroup, ErrorsNeedCtlC, Stop
    <2>4. QED
      BY <1>3, <2>1, <2>2, <2>3 DEF IInv, Running
  <1>5. CASE Unblock
    <2>1. Types'
      BY <1>1, <1>2, <1>5 DEF Unblock, Main, Types, PCs, mainVars, sigVars, procVars
    <2>2. Keeps' /\ HandlerInv' /\ ModeInv' /\ ChildrenInv'
      <3>1. Keeps'
        BY <1>1, <1>2, <1>3, <1>5, SMTT(30)
        DEF Unblock, Main, OrPCs, Group, mainVars, sigVars, procVars, ChildOfShell, Keeps
      <3>2. HandlerInv'
        BY <1>1, <1>2, <1>3, <1>5, SMTT(30)
        DEF Unblock, Main, OrPCs, Group, mainVars, sigVars, procVars, ChildOfShell, HandlerInv
      <3>3. ModeInv'
        BY <1>1, <1>2, <1>3, <1>5, SMTT(30)
        DEF Unblock, Main, OrPCs, Group, mainVars, sigVars, procVars, ChildOfShell, ModeInv
      <3>4. ChildrenInv'
        BY <1>1, <1>2, <1>3, <1>5, SMTT(30)
        DEF Unblock, Main, OrPCs, Group, mainVars, sigVars, procVars, ChildOfShell, ChildrenInv
      <3>5. QED
        BY <3>1, <3>2, <3>3, <3>4
    <2>3. ErrorsNeedCtlC'
      BY <1>1, <1>5 DEF Unblock, ErrorsNeedCtlC, Stop
    <2>4. QED
      BY <1>3, <2>1, <2>2, <2>3 DEF IInv, Running
  <1>6. CASE set_status_to_list
    <2>1. Types'
      BY <1>1, <1>2, <1>6 DEF set_status_to_list, Main, Types, PCs, mainVars, sigVars, procVars
    <2>2. Keeps' /\ HandlerInv' /\ ModeInv' /\ ChildrenInv'
      <3>1. Keeps'
        BY <1>1, <1>2, <1>3, <1>6, SMTT(30)
        DEF set_status_to_list, Main, OrPCs, Group, mainVars, sigVars, procVars, ChildOfShell, Keeps
      <3>2. HandlerInv'
        BY <1>1, <1>2, <1>3, <1>6, SMTT(30)
        DEF set_status_to_list, Main, OrPCs, Group, mainVars, sigVars, procVars, ChildOfShell, HandlerInv
      <3>3. ModeInv'
        BY <1>1, <1>2, <1>3, <1>6, SMTT(30)
        DEF set_status_to_list, Main, OrPCs, Group, mainVars, sigVars, procVars, ChildOfShell, ModeInv
      <3>4. ChildrenInv'
        BY <1>1, <1>2, <1>3, <1>6, SMTT(30)
        DEF set_status_to_list, Main, OrPCs, Group, mainVars, sigVars, procVars, ChildOfShell, ChildrenInv
      <3>5. QED
        BY <3>1, <3>2, <3>3, <3>4
    <2>3. ErrorsNeedCtlC'
      BY <1>1, <1>6 DEF set_status_to_list, ErrorsNeedCtlC, Stop
    <2>4. QED
      BY <1>3, <2>1, <2>2, <2>3 DEF IInv, Running
  <1>7. CASE OrBegin
    <2>1. Types'
      BY <1>1, <1>2, <1>7 DEF OrBegin, Main, Types, PCs, mainVars, sigVars, procVars
    <2>2. Keeps' /\ HandlerInv' /\ ModeInv' /\ ChildrenInv'
      <3>1. Keeps'
        BY <1>1, <1>2, <1>3, <1>7, SMTT(30)
        DEF OrBegin, Main, OrPCs, Group, mainVars, sigVars, procVars, ChildOfShell, Listed, Distinct, Keeps
      <3>2. HandlerInv'
        BY <1>1, <1>2, <1>3, <1>7, SMTT(30)
        DEF OrBegin, Main, OrPCs, Group, mainVars, sigVars, procVars, ChildOfShell, Listed, Distinct, HandlerInv
      <3>3. ModeInv'
        BY <1>1, <1>2, <1>3, <1>7, SMTT(30)
        DEF OrBegin, Main, OrPCs, Group, mainVars, sigVars, procVars, ChildOfShell, Listed, Distinct, ModeInv
      <3>4. ChildrenInv'
        BY <1>1, <1>2, <1>3, <1>7, SMTT(30)
        DEF OrBegin, Main, OrPCs, Group, mainVars, sigVars, procVars, ChildOfShell, Listed, Distinct, ChildrenInv
      <3>5. QED
        BY <3>1, <3>2, <3>3, <3>4
    <2>3. ErrorsNeedCtlC'
      BY <1>1, <1>7 DEF OrBegin, ErrorsNeedCtlC, Stop
    <2>4. QED
      BY <1>3, <2>1, <2>2, <2>3 DEF IInv, Running
  <1>8. CASE EndGroup
    <2>1. Types'
      BY <1>1, <1>2, <1>8, GroupType DEF EndGroup, Main, Types, PCs, mainVars, sigVars, procVars
    <2>2. Keeps' /\ HandlerInv' /\ ModeInv' /\ ChildrenInv'
      <3>1. Keeps'
        BY <1>1, <1>2, <1>3, <1>8, GroupType, SMTT(30)
        DEF EndGroup, Main, OrPCs, Group, mainVars, sigVars, procVars, ChildOfShell, Keeps
      <3>2. HandlerInv'
        BY <1>1, <1>2, <1>3, <1>8, GroupType, SMTT(30)
        DEF EndGroup, Main, OrPCs, Group, mainVars, sigVars, procVars, ChildOfShell, HandlerInv
      <3>3. ModeInv'
        BY <1>1, <1>2, <1>3, <1>8, GroupType, SMTT(30)
        DEF EndGroup, Main, OrPCs, Group, mainVars, sigVars, procVars, ChildOfShell, ModeInv
      <3>4. ChildrenInv'
        BY <1>1, <1>2, <1>3, <1>8, GroupType, SMTT(30)
        DEF EndGroup, Main, OrPCs, Group, mainVars, sigVars, procVars, ChildOfShell, ChildrenInv
      <3>5. QED
        BY <3>1, <3>2, <3>3, <3>4
    <2>3. ErrorsNeedCtlC'
      BY <1>1, <1>8 DEF EndGroup, ErrorsNeedCtlC, Stop
    <2>4. QED
      BY <1>3, <2>1, <2>2, <2>3 DEF IInv, Running
  <1>9. CASE freeArray
    <2>1. CASE pc = "freeing"
      <3>1. array' = [array EXCEPT !.ok = FALSE] /\ pc' = "freed" /\ g' = g
        BY <1>9, <2>1 DEF freeArray
      <3>2. array' \in [ok : BOOLEAN, pids : Seq(Pids)] /\ array'.pids = array.pids
        BY <1>2, <3>1 DEF Types
      <3>3. Types'
        BY <1>1, <1>2, <1>9, <2>1, <3>1, <3>2 DEF freeArray, Types, PCs, sigVars, procVars
      <3>4. Keeps' /\ HandlerInv' /\ ModeInv' /\ ChildrenInv'
        BY <1>1, <1>2, <1>3, <1>9, <2>1, <3>1, <3>2
        DEF freeArray, Keeps, HandlerInv, ModeInv, ChildrenInv, OrPCs, sigVars, ChildOfShell
      <3>5. QED
        BY <1>1, <1>3, <1>9, <3>3, <3>4 DEF IInv, Running, ErrorsNeedCtlC, freeArray
    <2>2. CASE pc = "freed"
      <3>1. array' = [ok |-> TRUE, pids |-> <<>>] /\ pc' = "group" /\ g' = g + 1
        BY <1>9, <2>2 DEF freeArray
      <3>2. array' \in [ok : BOOLEAN, pids : Seq(Pids)] /\ array'.ok /\ Len(array'.pids) = 0
        BY <3>1
      <3>3. Types'
        BY <1>1, <1>2, <1>9, <2>2, <3>1, <3>2 DEF freeArray, Types, PCs, sigVars, procVars
      <3>4. Keeps' /\ HandlerInv' /\ ModeInv' /\ ChildrenInv'
        BY <1>1, <1>2, <1>3, <1>9, <2>2, <3>1, <3>2
        DEF freeArray, Keeps, HandlerInv, ModeInv, ChildrenInv, OrPCs, sigVars, ChildOfShell
      <3>5. QED
        BY <1>1, <1>3, <1>9, <3>3, <3>4 DEF IInv, Running, ErrorsNeedCtlC, freeArray
    <2>3. QED
      BY <1>9, <2>1, <2>2 DEF freeArray
  <1>10. CASE EndScript
    <2>1. Types'
      BY <1>1, <1>2, <1>10 DEF EndScript, Main, Types, PCs, mainVars, sigVars, procVars
    <2>2. Keeps' /\ HandlerInv' /\ ModeInv' /\ ChildrenInv'
      BY <1>1, <1>2, <1>3, <1>10
      DEF EndScript, Main, Keeps, HandlerInv, ModeInv, ChildrenInv, OrPCs, Group, mainVars, sigVars,
          procVars, ChildOfShell
    <2>3. ErrorsNeedCtlC'
      BY <1>1, <1>10 DEF EndScript, ErrorsNeedCtlC, Stop
    <2>4. QED
      BY <1>3, <2>1, <2>2, <2>3 DEF IInv, Running
  <1>11. QED
    BY <1>4, <1>5, <1>6, <1>7, <1>8, <1>9, <1>10

(* Forks: the new child is the one that the place after the fork knows of. *)
LEMMA RunCommandStep == ASSUME IInv, run_command PROVE IInv'
  <1>1. /\ out = "running" /\ hpc = "none" /\ UNCHANGED <<script, mainVars, hpc, hits>>
        /\ pc = "rep" /\ pc' = "unblock" /\ blocked' = TRUE
        /\ Fork(shell, g, "run", Group.commands[1]) /\ pid' = NextPid
        /\ array' = [ok |-> TRUE, pids |-> <<NextPid>>]
        /\ k < Group.repeats /\ Group.mode = "SINGLE"
    BY DEF run_command, Main
  <1>2. Types /\ PidsInOrder /\ Keeps /\ HandlerInv /\ ModeInv /\ ChildrenInv
    BY <1>1 DEF IInv, Running
  <1>3. /\ NextPid \in Pids /\ st[NextPid] = "none" /\ PidsInOrder'
        /\ st' = [st EXCEPT ![NextPid] = "run"] /\ st' \in [Pids -> States]
        /\ parent' = [parent EXCEPT ![NextPid] = shell] /\ parent' \in [Pids -> Pids \cup {shell}]
        /\ grp' = [grp EXCEPT ![NextPid] = g] /\ grp' \in [Pids -> Nat]
        /\ Children(shell)' = Children(shell) \cup {NextPid} /\ code' = code
    BY <1>1, <1>2, ForkChildren DEF Types, Fork
  <1>4. array' \in [ok : BOOLEAN, pids : Seq(Pids)] /\ array'.ok
           /\ Len(array'.pids) = 1 /\ array'.pids[1] = NextPid
    BY <1>1, <1>3
  <1>5. Types'
    BY <1>1, <1>2, <1>3, <1>4 DEF Types, PCs, mainVars
  <1>6. Keeps'
    BY <1>1, <1>2, <1>3, <1>4, SMTT(30) DEF Keeps, ChildOfShell, Types, mainVars
  <1>7. HandlerInv' /\ ModeInv' /\ ChildrenInv'
    BY <1>1, <1>2, <1>3, <1>4
    DEF HandlerInv, ModeInv, ChildrenInv, Group, mainVars, OrPCs, Types, shell, Pids
  <1>8. ErrorsNeedCtlC'
    BY <1>1 DEF run_command, SetPidTo, Stop, ErrorsNeedCtlC
  <1>9. QED
    BY <1>3, <1>5, <1>6, <1>7, <1>8 DEF IInv, Running

(* The fork of an AND group: a child that the shell has not yet noted.     *)
LEMMA AndForkStep == ASSUME IInv, AndFork PROVE IInv'
  <1>1. /\ out = "running" /\ UNCHANGED <<script, mainVars, array, pid, sigVars, out>>
        /\ pc = "rep" /\ pc' = "and_assign"
        /\ Fork(shell, g, "pipe", Group.commands[1])
        /\ k < Group.repeats /\ Group.mode = "AND"
    BY DEF AndFork, Main
  <1>2. Types /\ PidsInOrder /\ Keeps /\ HandlerInv /\ ModeInv /\ ChildrenInv
    BY <1>1 DEF IInv, Running
  <1>3. /\ NextPid \in Pids /\ st[NextPid] = "none" /\ PidsInOrder'
        /\ st' = [st EXCEPT ![NextPid] = "pipe"] /\ st' \in [Pids -> States]
        /\ parent' = [parent EXCEPT ![NextPid] = shell] /\ parent' \in [Pids -> Pids \cup {shell}]
        /\ grp' = [grp EXCEPT ![NextPid] = g] /\ grp' \in [Pids -> Nat]
        /\ Children(shell)' = Children(shell) \cup {NextPid} /\ code' = code
    BY <1>1, <1>2, ForkChildren DEF Types, Fork
  <1>4. Types'
    BY <1>1, <1>2, <1>3 DEF Types, PCs, mainVars, sigVars
  <1>5. Keeps'
    BY <1>1, <1>2, <1>3, SMTT(30) DEF Keeps, ChildOfShell, Types, mainVars
  <1>6. NextPid # pid
    BY <1>2, <1>3 DEF Keeps, Pids
  <1>7. HandlerInv' /\ ModeInv'
    BY <1>1, <1>2 DEF HandlerInv, ModeInv, Group, mainVars, sigVars, OrPCs
  <1>8. Children(shell)' = {NextPid} /\ grp'[NextPid] = g' /\ NextPid # pid'
    BY <1>1, <1>2, <1>3, <1>6 DEF ChildrenInv, mainVars, Types
  <1>9. ChildrenInv'
    BY <1>1, <1>3, <1>8 DEF ChildrenInv, OrPCs
  <1>10. QED
    BY <1>1, <1>3, <1>4, <1>5, <1>7, <1>9 DEF IInv, Running, ErrorsNeedCtlC

(* The assignment after that fork notes the one child there is.            *)
LEMMA AndAssignStep == ASSUME IInv, AndAssign PROVE IInv'
  <1>1. /\ out = "running" /\ UNCHANGED <<script, mainVars, array, sigVars, out, procVars>>
        /\ pc = "and_assign" /\ pc' = "and_wait"
    BY DEF AndAssign, Main
  <1>2. Types /\ PidsInOrder /\ Keeps /\ HandlerInv /\ ModeInv /\ ChildrenInv
    BY <1>1 DEF IInv, Running
  <1>3. pid' \in Children(shell) /\ pid' \in Pids /\ st[pid'] # "none"
    BY DEF AndAssign, Children, Unreaped
  <1>4. Children(shell)' = Children(shell) /\ PidsInOrder'
    BY <1>1, <1>2, ChildrenKept DEF procVars
  <1>5. Types'
    BY <1>1, <1>2, <1>3 DEF Types, PCs, mainVars, sigVars, procVars
  <1>6. Keeps' /\ HandlerInv' /\ ModeInv' /\ ChildrenInv'
    BY <1>1, <1>2, <1>3, <1>4
    DEF Keeps, ChildOfShell, HandlerInv, ModeInv, ChildrenInv, Group, mainVars, sigVars, procVars, OrPCs, Types
  <1>7. QED
    BY <1>1, <1>4, <1>5, <1>6 DEF IInv, Running, ErrorsNeedCtlC

(* The forks of handle_or: its children are those it has listed.           *)
LEMMA OrForkStep == ASSUME IInv, OrFork PROVE IInv'
  <1>1. /\ out = "running" /\ UNCHANGED <<script, g, k, first_pid, array, pid, sigVars, out>>
        /\ pc = "or_fork"
    BY DEF OrFork, Main
  <1>2. Types /\ PidsInOrder /\ Keeps /\ HandlerInv /\ ModeInv /\ ChildrenInv
    BY <1>1 DEF IInv, Running
  <1>3. Len(Group.commands) > 0 /\ Len(Group.commands) \in Nat
    BY <1>1, <1>2, GroupType
  <1>4. CASE Len(pid_list) < Len(Group.commands)
    <2>1. /\ Fork(shell, g, "run", Group.commands[Len(pid_list) + 1])
          /\ pid_list' = Append(pid_list, NextPid) /\ UNCHANGED <<pc, i>>
      BY <1>4 DEF OrFork
    <2>2. /\ NextPid \in Pids /\ st[NextPid] = "none" /\ PidsInOrder'
          /\ st' = [st EXCEPT ![NextPid] = "run"] /\ st' \in [Pids -> States]
          /\ parent' = [parent EXCEPT ![NextPid] = shell] /\ parent' \in [Pids -> Pids \cup {shell}]
          /\ grp' = [grp EXCEPT ![NextPid] = g] /\ grp' \in [Pids -> Nat]
          /\ Children(shell)' = Children(shell) \cup {NextPid} /\ code' = code
      BY <1>1, <1>2, <2>1, ForkChildren DEF Types, Fork
    <2>3. /\ pid_list' \in Seq(Pids) /\ Len(pid_list') = Len(pid_list) + 1
          /\ \A n \in 1..Len(pid_list) : pid_list'[n] = pid_list[n]
          /\ pid_list'[Len(pid_list) + 1] = NextPid /\ Len(pid_list) \in Nat
      BY <1>2, <2>1, <2>2 DEF Types
    <2>4. Types'
      BY <1>1, <1>2, <2>1, <2>2, <2>3 DEF Types, PCs, sigVars
    <2>5. Keeps'
      <3>1. \A p \in Pids : ChildOfShell(p) \/ p = NextPid => st'[p] # "none" /\ parent'[p] = shell
        BY <1>2, <2>2 DEF ChildOfShell, Types
      <3>2. \A n \in 1..Len(pid_list') : n \in 1..Len(pid_list) \/ n = Len(pid_list) + 1
        BY <2>3
      <3>3. \A n \in 1..Len(pid_list') : st'[pid_list'[n]] # "none" /\ parent'[pid_list'[n]] = shell
        <4>1. \A n \in 1..Len(pid_list) : pid_list[n] \in Pids /\ ChildOfShell(pid_list[n])
          BY <1>2 DEF Keeps, Types
        <4>2. QED
          BY <2>2, <2>3, <3>1, <3>2, <4>1
      <3>4. \A n \in 1..Len(array.pids) : array.pids[n] \in Pids
        BY <1>2 DEF Types
      <3>5. QED
        BY <1>1, <1>2, <2>2, <3>1, <3>3, <3>4 DEF Keeps, Types, ChildOfShell
    <2>6. Listed' = Listed \cup {NextPid}
      BY <1>2, <2>3 DEF Listed
    <2>7. Distinct'
      <3>1. Distinct /\ \A n \in 1..Len(pid_list) : pid_list[n] # NextPid
        BY <1>1, <1>2, <2>2 DEF ChildrenInv, OrPCs, Keeps, ChildOfShell
      <3>2. QED
        BY <2>3, <3>1 DEF Distinct
    <2>8. HandlerInv' /\ ModeInv' /\ ChildrenInv'
      BY <1>1, <1>2, <2>1, <2>2, <2>6, <2>7
      DEF HandlerInv, ModeInv, ChildrenInv, Group, sigVars, OrPCs, Types
    <2>9. QED
      BY <1>1, <2>2, <2>4, <2>5, <2>8 DEF IInv, Running, ErrorsNeedCtlC
  <1>5. CASE ~(Len(pid_list) < Len(Group.commands))
    <2>1. pc' = "or_wait" /\ UNCHANGED <<pid_list, procVars>> /\ i' = 1
      BY <1>5 DEF OrFork
    <2>2. Children(shell)' = Children(shell) /\ PidsInOrder'
      BY <1>2, <2>1, ChildrenKept DEF procVars
    <2>3. Len(pid_list) \in Nat /\ pid_list[1] \in Listed /\ Listed' = Listed /\ Distinct' = Distinct
      BY <1>2, <1>3, <1>5, <2>1 DEF Types, Listed, Distinct
    <2>4. Types' /\ Keeps'
      BY <1>1, <1>2, <2>1 DEF Types, PCs, sigVars, procVars, Keeps, ChildOfShell
    <2>5. HandlerInv' /\ ModeInv' /\ ChildrenInv'
      BY <1>1, <1>2, <2>1, <2>2, <2>3
      DEF HandlerInv, ModeInv, ChildrenInv, Group, sigVars, procVars, OrPCs, Types
    <2>6. QED
      BY <1>1, <2>2, <2>4, <2>5 DEF IInv, Running, ErrorsNeedCtlC
  <1>6. QED
    BY <1>4, <1>5

(* A change of processes' states that starts none of them leaves alone     *)
(* what the shell keeps.                                                   *)
LEMMA KeepsKept ==
  ASSUME Types, Keeps, PidsInOrder, st' \in [Pids -> States],
         UNCHANGED <<parent, array, pid_list, pid>>,
         \A p \in Pids : st'[p] = "none" <=> st[p] = "none",
         \A p \in Pids : st'[p] \in {"term", "zombie"} => parent[p] = shell
  PROVE  Keeps' /\ PidsInOrder'
  <1>1. PidsInOrder'
    BY DEF PidsInOrder
  <1>2. /\ \A n \in 1..Len(array.pids) : array.pids[n] \in Pids
        /\ \A n \in 1..Len(pid_list) : pid_list[n] \in Pids
    BY DEF Types
  <1>3. Keeps'
    BY <1>2 DEF Keeps, ChildOfShell, Types
  <1>4. QED
    BY <1>1, <1>3

(* Waiting for a child takes it from the children. *)
LEMMA ReapChild ==
  ASSUME Types, Keeps, PidsInOrder, NEW p \in Zombies,
         st' = [st EXCEPT ![p] = "gone"], UNCHANGED <<parent, array, pid_list, pid>>
  PROVE  /\ Keeps' /\ PidsInOrder' /\ st' \in [Pids -> States]
         /\ Children(shell)' = Children(shell) \ {p} /\ p \in Pids
  <1>1. p \in Pids /\ st[p] = "zombie"
    BY DEF Zombies, Children, Unreaped
  <1>2. st' \in [Pids -> States]
    BY DEF Types, States
  <1>3. Keeps' /\ PidsInOrder'
    <2>1. \A q \in Pids : st'[q] = "none" <=> st[q] = "none"
      BY <1>1 DEF Types
    <2>2. \A q \in Pids : st'[q] \in {"term", "zombie"} => parent[q] = shell
      BY <1>1 DEF Keeps, Types
    <2>3. QED
      BY <1>2, <2>1, <2>2, KeepsKept
  <1>4. Children(shell)' = Children(shell) \ {p}
    BY <1>1 DEF Children, Unreaped, Types
  <1>5. QED
    BY <1>1, <1>2, <1>3, <1>4

(* The rest of pid_list, without its first entry. *)
LEMMA ListedRest ==
  ASSUME Types, i \in 1..Len(pid_list)
  PROVE  /\ ListedFrom(i) = ListedFrom(i + 1) \cup {pid_list[i]}
         /\ Distinct => pid_list[i] \notin ListedFrom(i + 1)
  <1>1. pid_list \in Seq(Pids) /\ Len(pid_list) \in Nat
    BY DEF Types
  <1>2. i..Len(pid_list) = ((i + 1)..Len(pid_list)) \cup {i}
    BY <1>1
  <1>3. ListedFrom(i) = ListedFrom(i + 1) \cup {pid_list[i]}
    BY <1>2 DEF ListedFrom
  <1>4. Distinct => pid_list[i] \notin ListedFrom(i + 1)
    BY <1>1 DEF ListedFrom, Distinct
  <1>5. QED
    BY <1>3, <1>4

(* Wait takes a child that has ended, or fails when a Ctl-C took the last. *)
LEMMA WaitStep == ASSUME IInv, Wait PROVE IInv'
  <1>1. /\ out = "running" /\ hpc = "none" /\ pc \in {"wait", "and_wait", "or_wait"}
        /\ UNCHANGED <<script, g, i, pid_list, array, pid, sigVars, parent, grp, code>>
        /\ k' = IF pc = "and_wait" THEN k + 1 ELSE k
    BY DEF Wait, Main
  <1>2. Types /\ PidsInOrder /\ Keeps /\ HandlerInv /\ ModeInv /\ ChildrenInv
    BY <1>1 DEF IInv, Running
  <1>3. CASE Children(shell) = {} /\ Stop("error") /\ UNCHANGED <<st, status, first_pid, pc>>
    <2>1. hits # {}
      BY <1>1, <1>2, <1>3 DEF ChildrenInv
    <2>2. Types' /\ PidsInOrder'
      BY <1>1, <1>2, <1>3, ChildrenKept DEF Types, sigVars
    <2>3. QED
      BY <1>1, <1>3, <2>1, <2>2 DEF IInv, Running, ErrorsNeedCtlC, Stop, sigVars
  <1>4. ASSUME NEW p \in Children(shell) \cap Zombies,
               st' = [st EXCEPT ![p] = "gone"], first_pid' = p, UNCHANGED out,
               pc' = CASE pc = "wait" -> "status" [] pc = "and_wait" -> "rep"
                       [] pc = "or_wait" -> "or_loop"
        PROVE  IInv'
    <2>1. /\ Keeps' /\ PidsInOrder' /\ st' \in [Pids -> States]
          /\ Children(shell)' = Children(shell) \ {p} /\ p \in Pids
      BY <1>1, <1>2, <1>4, ReapChild
    <2>2. Types'
      BY <1>1, <1>2, <1>4, <2>1 DEF Types, PCs, sigVars
    <2>3. HandlerInv' /\ ModeInv'
      BY <1>1, <1>2, <1>4 DEF HandlerInv, ModeInv, Group, OrPCs, sigVars
    <2>4. Listed' = Listed /\ ListedFrom(1)' = Listed /\ (Distinct <=> Distinct')
      BY <1>1 DEF Listed, ListedFrom, Distinct
    <2>5. ChildrenInv'
      BY <1>1, <1>2, <1>4, <2>1, <2>4 DEF ChildrenInv, OrPCs
    <2>6. QED
      BY <1>1, <1>4, <2>1, <2>2, <2>3, <2>5 DEF IInv, Running, ErrorsNeedCtlC
  <1>5. QED
    BY <1>3, <1>4 DEF Wait, Reap

(* The loop of handle_or kills a child that it has not waited for yet.     *)
LEMMA OrKillStep == ASSUME IInv, OrKill PROVE IInv'
  <1>1. /\ out = "running" /\ hpc = "none" /\ pc = "or_loop"
        /\ UNCHANGED <<script, g, k, pid_list, first_pid, array, pid, sigVars, parent, grp, code>>
    BY DEF OrKill, KillLoop, Main
  <1>2. Types /\ PidsInOrder /\ Keeps /\ HandlerInv /\ ModeInv /\ ChildrenInv
    BY <1>1 DEF IInv, Running
  <1>3. /\ Children(shell) = ListedFrom(i) \ {first_pid} /\ Distinct /\ i > 0 /\ i \in Nat
        /\ Len(pid_list) \in Nat
    BY <1>1, <1>2 DEF ChildrenInv, OrPCs, Types
  <1>4. CASE i > Len(pid_list)
    <2>1. pc' = "or_status" /\ UNCHANGED <<i, st, out>>
      BY <1>4 DEF OrKill, KillLoop
    <2>2. Children(shell) = {}
      BY <1>3, <1>4 DEF ListedFrom
    <2>3. Children(shell)' = Children(shell) /\ PidsInOrder'
      BY <1>1, <1>2, <2>1, ChildrenKept
    <2>4. Types' /\ Keeps'
      BY <1>1, <1>2, <2>1 DEF Types, PCs, sigVars, Keeps, ChildOfShell
    <2>5. HandlerInv' /\ ModeInv' /\ ChildrenInv'
      BY <1>1, <1>2, <2>1, <2>2, <2>3 DEF HandlerInv, ModeInv, ChildrenInv, Group, OrPCs, sigVars
    <2>6. QED
      BY <1>1, <2>1, <2>3, <2>4, <2>5 DEF IInv, Running, ErrorsNeedCtlC
  <1>5. CASE i <= Len(pid_list) /\ pid_list[i] = first_pid
    <2>1. i' = i + 1 /\ UNCHANGED <<pc, st, out>>
      BY <1>3, <1>5 DEF OrKill, KillLoop
    <2>2. ListedFrom(i)' \ {first_pid'} = ListedFrom(i) \ {first_pid}
      BY <1>1, <1>2, <1>3, <1>5, <2>1, ListedRest DEF ListedFrom
    <2>3. Children(shell)' = Children(shell) /\ PidsInOrder' /\ (Distinct <=> Distinct')
      BY <1>1, <1>2, <2>1, ChildrenKept DEF Distinct
    <2>4. Types' /\ Keeps'
      BY <1>1, <1>2, <2>1 DEF Types, PCs, sigVars, Keeps, ChildOfShell
    <2>5. HandlerInv' /\ ModeInv' /\ ChildrenInv'
      BY <1>1, <1>2, <1>3, <2>1, <2>2, <2>3 DEF HandlerInv, ModeInv, ChildrenInv, Group, OrPCs, sigVars
    <2>6. QED
      BY <1>1, <2>1, <2>3, <2>4, <2>5 DEF IInv, Running, ErrorsNeedCtlC
  <1>6. CASE i <= Len(pid_list) /\ pid_list[i] # first_pid
    <2>1. pid_list[i] \in Children(shell) /\ pid_list[i] \in Unreaped /\ pid_list[i] \in Pids
          /\ parent[pid_list[i]] = shell
      BY <1>2, <1>3, <1>6, ListedRest DEF Children, Types
    <2>2. st' = Terminated({pid_list[i]}) /\ pc' = "or_reap" /\ UNCHANGED <<i, out>>
      BY <1>3, <1>6, <2>1 DEF OrKill, KillLoop
    <2>3. st' \in [Pids -> States] /\ Unreaped' = Unreaped
      BY <1>2, <2>2 DEF Types, Terminated, States, Unreaped
    <2>4. Keeps' /\ PidsInOrder'
      <3>1. \A p \in Pids : st'[p] = "none" <=> st[p] = "none"
        BY <2>2 DEF Terminated
      <3>2. \A p \in Pids : st'[p] \in {"term", "zombie"} => parent[p] = shell
        BY <1>2, <2>1, <2>2 DEF Terminated, Keeps
      <3>3. QED
        BY <1>1, <1>2, <2>3, <3>1, <3>2, KeepsKept
    <2>5. Children(shell)' = Children(shell) /\ ListedFrom(i)' = ListedFrom(i) /\ (Distinct <=> Distinct')
      BY <1>1, <2>2, <2>3 DEF Children, ListedFrom, Distinct
    <2>6. Types'
      BY <1>1, <1>2, <2>2, <2>3 DEF Types, PCs, sigVars
    <2>7. HandlerInv' /\ ModeInv' /\ ChildrenInv'
      BY <1>1, <1>2, <1>3, <1>6, <2>2, <2>5
      DEF HandlerInv, ModeInv, ChildrenInv, Group, OrPCs, sigVars
    <2>8. QED
      BY <1>1, <2>2, <2>4, <2>6, <2>7 DEF IInv, Running, ErrorsNeedCtlC
  <1>7. QED
    BY <1>3, <1>4, <1>5, <1>6

(* ... and waits for it: its children are the rest of the list.            *)
LEMMA OrReapStep == ASSUME IInv, OrReap PROVE IInv'
  <1>1. /\ out = "running" /\ hpc = "none" /\ pc = "or_reap" /\ pc' = "or_loop" /\ i' = i + 1
        /\ UNCHANGED <<script, g, k, pid_list, first_pid, array, pid, sigVars, out, parent, grp, code>>
        /\ pid_list[i] \in Zombies /\ st' = [st EXCEPT ![pid_list[i]] = "gone"]
    BY DEF OrReap, Main
  <1>2. Types /\ PidsInOrder /\ Keeps /\ HandlerInv /\ ModeInv /\ ChildrenInv
    BY <1>1 DEF IInv, Running
  <1>3. /\ Children(shell) = ListedFrom(i) \ {first_pid} /\ Distinct
        /\ i \in 1..Len(pid_list) /\ pid_list[i] # first_pid
    BY <1>1, <1>2 DEF ChildrenInv, OrPCs, Types
  <1>4. /\ Keeps' /\ PidsInOrder' /\ st' \in [Pids -> States]
        /\ Children(shell)' = Children(shell) \ {pid_list[i]}
    BY <1>1, <1>2, ReapChild
  <1>5. ListedFrom(i)' \ {first_pid'} = Children(shell)' /\ (Distinct <=> Distinct')
    BY <1>1, <1>2, <1>3, <1>4, ListedRest DEF ListedFrom, Distinct
  <1>6. Types'
    BY <1>1, <1>2, <1>4 DEF Types, PCs, sigVars
  <1>7. HandlerInv' /\ ModeInv' /\ ChildrenInv'
    BY <1>1, <1>2, <1>3, <1>4, <1>5, <1>6
    DEF HandlerInv, ModeInv, ChildrenInv, Group, OrPCs, sigVars, Types
  <1>8. QED
    BY <1>1, <1>4, <1>6, <1>7 DEF IInv, Running, ErrorsNeedCtlC

(* Processes: a pipeline that forks or becomes its last command, and the   *)
(* end of a process, change no child of the shell into anything else.      *)
LEMMA PipeStep == ASSUME IInv, NEW p \in Pids, handle_pipe(p) PROVE IInv'
  <1>1. /\ UNCHANGED <<script, pc, mainVars, array, pid, sigVars, out, code>> /\ st[p] = "pipe"
    BY DEF handle_pipe, Fork
  <1>2. Types /\ PidsInOrder /\ ErrorsNeedCtlC /\ grp[p] \in Nat
    BY DEF IInv, Types
  <1>3. /\ st' \in [Pids -> States] /\ parent' \in [Pids -> Pids \cup {shell}] /\ grp' \in [Pids -> Nat]
        /\ PidsInOrder' /\ Children(shell)' = Children(shell)
        /\ \A q \in Pids : st[q] # "none" =>
             /\ st'[q] # "none" /\ parent'[q] = parent[q] /\ grp'[q] = grp[q]
             /\ st'[q] \in {"term", "zombie"} <=> st[q] \in {"term", "zombie"}
        /\ \A q \in Pids : st[q] = "none" => st'[q] \in {"none", "run"}
    <2>1. CASE st' = [st EXCEPT ![p] = "run"] /\ UNCHANGED <<parent, grp>>
      <3>1. PidsInOrder'
        BY <1>1, <1>2, <2>1 DEF Types, PidsInOrder
      <3>2. QED
        BY <1>1, <1>2, <2>1, <3>1 DEF Types, States, Children, Unreaped
    <2>2. ASSUME NEW c, Fork(p, grp[p], "run", c) PROVE <1>3!:
      <3>1. /\ NextPid \in Pids /\ st[NextPid] = "none" /\ PidsInOrder'
            /\ st' = [st EXCEPT ![NextPid] = "run"] /\ st' \in [Pids -> States]
            /\ parent' = [parent EXCEPT ![NextPid] = p] /\ parent' \in [Pids -> Pids \cup {shell}]
            /\ grp' = [grp EXCEPT ![NextPid] = grp[p]] /\ grp' \in [Pids -> Nat]
            /\ Children(shell)' = Children(shell)
        BY <1>2, <2>2, ForkChildren DEF shell, Pids
      <3>2. QED
        BY <1>2, <3>1 DEF Types
    <2>3. QED
      BY <2>1, <2>2 DEF handle_pipe
  <1>4. Types'
    BY <1>1, <1>2, <1>3 DEF Types, mainVars, sigVars
  <1>5. ASSUME out = "running" PROVE Keeps' /\ HandlerInv' /\ ModeInv' /\ ChildrenInv'
    <2>1. Keeps /\ HandlerInv /\ ModeInv /\ ChildrenInv
      BY <1>5 DEF IInv, Running
    <2>2. /\ \A n \in 1..Len(array.pids) : array.pids[n] \in Pids
          /\ \A n \in 1..Len(pid_list) : pid_list[n] \in Pids
      BY <1>2 DEF Types
    <2>3. Keeps'
      BY <1>1, <1>2, <1>3, <2>1, <2>2 DEF Keeps, ChildOfShell, mainVars, Types
    <2>4. \A q \in Children(shell) : grp'[q] = grp[q]
      BY <1>3 DEF Children, Unreaped
    <2>5. HandlerInv' /\ ModeInv'
      BY <1>1, <2>1 DEF HandlerInv, ModeInv, Group, mainVars, sigVars
    <2>6. Listed' = Listed /\ ListedFrom(i)' = ListedFrom(i) /\ (Distinct <=> Distinct')
      BY <1>1 DEF Listed, ListedFrom, Distinct, mainVars
    <2>7. ChildrenInv'
      BY <1>1, <1>3, <2>1, <2>4, <2>6 DEF ChildrenInv, mainVars, sigVars
    <2>8. QED
      BY <2>3, <2>5, <2>7
  <1>6. QED
    BY <1>1, <1>2, <1>3, <1>4, <1>5 DEF IInv, Running, ErrorsNeedCtlC, sigVars

(* A child that ends stays a child until it is waited for.                 *)
LEMMA ExitStep == ASSUME IInv, NEW p \in Pids, Exit(p) PROVE IInv'
  <1>1. /\ UNCHANGED <<script, pc, mainVars, array, pid, sigVars, out, parent, grp>>
        /\ st[p] \in {"run", "term"}
        /\ st' = [st EXCEPT ![p] = IF parent[p] = shell /\ out = "running" THEN "zombie" ELSE "gone"]
    BY DEF Exit
  <1>2. Types /\ PidsInOrder /\ ErrorsNeedCtlC
    BY DEF IInv
  <1>3. code' \in [Pids -> Endings]
    <2>1. PICK e : code' = [code EXCEPT ![p] = e] /\ e \in Endings
      <3>1. \A s \in Ends : s \in Int
        BY BoundsAssumption DEF Ends
      <3>2. \A s \in Ends : [status |-> s, by |-> "itself"] \in Endings
        BY <3>1 DEF Endings
      <3>3. [status |-> -SIGTERM, by |-> "shell"] \in Endings
        BY DEF Endings, SIGTERM
      <3>4. QED
        BY <3>2, <3>3 DEF Exit
    <2>2. QED
      BY <1>2, <2>1 DEF Types
  <1>4. st' \in [Pids -> States] /\ \A q \in Pids : st'[q] = "none" <=> st[q] = "none"
    BY <1>1, <1>2 DEF Types, States
  <1>5. Types' /\ PidsInOrder'
    BY <1>1, <1>2, <1>3, <1>4 DEF Types, PidsInOrder, mainVars, sigVars
  <1>6. ASSUME out = "running" PROVE Keeps' /\ HandlerInv' /\ ModeInv' /\ ChildrenInv'
    <2>1. Keeps /\ HandlerInv /\ ModeInv /\ ChildrenInv
      BY <1>6 DEF IInv, Running
    <2>2. \A q \in Pids : st'[q] \in {"term", "zombie"} => parent[q] = shell
      BY <1>1, <1>2, <2>1 DEF Keeps, Types
    <2>3. Keeps'
      BY <1>1, <1>2, <1>4, <2>1, <2>2, KeepsKept DEF mainVars
    <2>4. Children(shell)' = Children(shell)
      BY <1>1, <1>2, <1>6 DEF Children, Unreaped, Types
    <2>5. HandlerInv' /\ ModeInv'
      BY <1>1, <2>1 DEF HandlerInv, ModeInv, Group, mainVars, sigVars
    <2>6. Listed' = Listed /\ ListedFrom(i)' = ListedFrom(i) /\ (Distinct <=> Distinct')
      BY <1>1 DEF Listed, ListedFrom, Distinct, mainVars
    <2>7. ChildrenInv'
      BY <1>1, <2>1, <2>4, <2>6 DEF ChildrenInv, mainVars, sigVars
    <2>8. QED
      BY <2>3, <2>5, <2>7
  <1>7. QED
    BY <1>1, <1>2, <1>5, <1>6 DEF IInv, Running, ErrorsNeedCtlC, sigVars

(* Ctl-C and the handler.  Only a child that has ended goes, and only at a *)
(* place that expects it.                                                  *)
LEMMA SignalStep == ASSUME IInv, Interrupt \/ Deliver PROVE IInv'
  <1>1. /\ out = "running" /\ UNCHANGED <<script, pc, mainVars, array, pid, blocked, out, procVars>>
        /\ hits \subseteq hits'
        /\ (UNCHANGED <<hpc, hits>> \/ (~blocked /\ hpc' = "kill" /\ hits' # {}))
    BY DEF Interrupt, Deliver
  <1>2. Types /\ PidsInOrder /\ Keeps /\ HandlerInv /\ ModeInv /\ ChildrenInv
    BY <1>1 DEF IInv, Running
  <1>3. Children(shell)' = Children(shell) /\ PidsInOrder'
    BY <1>1, <1>2, ChildrenKept DEF procVars
  <1>4. Types' /\ Keeps' /\ HandlerInv' /\ ModeInv'
    BY <1>1, <1>2 DEF Types, Keeps, HandlerInv, ModeInv, ChildOfShell, Group, mainVars, procVars
  <1>5. Listed' = Listed /\ ListedFrom(i)' = ListedFrom(i) /\ (Distinct <=> Distinct')
    BY <1>1 DEF Listed, ListedFrom, Distinct, mainVars
  <1>6. ChildrenInv'
    BY <1>1, <1>2, <1>3, <1>5 DEF ChildrenInv, mainVars, procVars
  <1>7. QED
    BY <1>1, <1>3, <1>4, <1>6 DEF IInv, Running, ErrorsNeedCtlC

(* The handler terminates children of the shell, or the shell ends.        *)
LEMMA HandlerKillStep == ASSUME IInv, HandlerKill PROVE IInv'
  <1>1. /\ out = "running" /\ hpc = "kill"
        /\ UNCHANGED <<script, pc, mainVars, array, pid, blocked, hits, parent, grp, code>>
    BY DEF HandlerKill
  <1>2. Types /\ PidsInOrder /\ Keeps /\ HandlerInv /\ ModeInv /\ ChildrenInv
    BY <1>1 DEF IInv, Running
  <1>3. ErrorsNeedCtlC'
    BY <1>1, <1>2 DEF HandlerInv, ErrorsNeedCtlC
  <1>4. CASE UNCHANGED <<st, hpc>> /\ out' # "running"
    <2>1. Types' /\ PidsInOrder'
      BY <1>1, <1>2, <1>4, ChildrenKept DEF Types, mainVars
    <2>2. QED
      BY <1>3, <1>4, <2>1 DEF IInv, Running
  <1>5. ASSUME NEW ps, ps = {array.pids[n] : n \in 1..Len(array.pids)},
               st' = Terminated(ps), hpc' = "waitpid", UNCHANGED out
        PROVE  IInv'
    <2>1. \A p \in ps : p \in Pids /\ parent[p] = shell
      <3>1. \A n \in 1..Len(array.pids) : array.pids[n] \in Pids
        BY <1>2 DEF Types
      <3>2. QED
        BY <1>2, <1>5, <3>1 DEF Keeps, ChildOfShell
    <2>2. st' \in [Pids -> States] /\ Unreaped' = Unreaped
      BY <1>2, <1>5 DEF Types, Terminated, States, Unreaped
    <2>3. Keeps' /\ PidsInOrder'
      <3>1. \A p \in Pids : st'[p] = "none" <=> st[p] = "none"
        BY <1>5 DEF Terminated
      <3>2. \A p \in Pids : st'[p] \in {"term", "zombie"} => parent[p] = shell
        BY <1>2, <1>5, <2>1 DEF Terminated, Keeps
      <3>3. QED
        BY <1>1, <1>2, <2>2, <3>1, <3>2, KeepsKept DEF mainVars
    <2>4. Children(shell)' = Children(shell)
      BY <1>1, <2>2 DEF Children
    <2>5. Types' /\ HandlerInv' /\ ModeInv'
      BY <1>1, <1>2, <1>5, <2>2 DEF Types, HandlerInv, ModeInv, Group, mainVars
    <2>6. Listed' = Listed /\ ListedFrom(i)' = ListedFrom(i) /\ (Distinct <=> Distinct')
      BY <1>1 DEF Listed, ListedFrom, Distinct, mainVars
    <2>7. ChildrenInv'
      BY <1>1, <1>2, <2>4, <2>6 DEF ChildrenInv, mainVars
    <2>8. QED
      BY <1>3, <2>3, <2>5, <2>7 DEF IInv, Running
  <1>6. QED
    BY <1>4, <1>5 DEF HandlerKill, Stop

(* The handler reaps the noted child only where the shell waits for it.    *)
LEMMA HandlerWaitpidStep == ASSUME IInv, HandlerWaitpid PROVE IInv'
  <1>1. /\ out = "running" /\ hpc = "waitpid"
        /\ UNCHANGED <<script, pc, mainVars, array, pid, blocked, hits, parent, grp, code>>
    BY DEF HandlerWaitpid
  <1>2. Types /\ PidsInOrder /\ Keeps /\ HandlerInv /\ ModeInv /\ ChildrenInv
    BY <1>1 DEF IInv, Running
  <1>3. ErrorsNeedCtlC' /\ hits # {} /\ ~blocked
    BY <1>1, <1>2 DEF HandlerInv, ErrorsNeedCtlC, Types
  <1>4. CASE UNCHANGED st
    <2>1. Children(shell)' = Children(shell) /\ PidsInOrder'
      BY <1>1, <1>2, <1>4, ChildrenKept
    <2>2. Types' /\ Keeps'
      BY <1>1, <1>2, <1>4 DEF HandlerWaitpid, Types, Keeps, ChildOfShell, mainVars
    <2>3. HandlerInv' /\ ModeInv'
      BY <1>1, <1>2, <1>3, <1>4 DEF HandlerInv, ModeInv, Group, mainVars
    <2>4. Listed' = Listed /\ ListedFrom(i)' = ListedFrom(i) /\ (Distinct <=> Distinct')
      BY <1>1 DEF Listed, ListedFrom, Distinct, mainVars
    <2>5. ChildrenInv'
      BY <1>1, <1>2, <2>1, <2>4 DEF ChildrenInv, mainVars
    <2>6. QED
      BY <1>3, <2>1, <2>2, <2>3, <2>5 DEF IInv, Running
  <1>5. CASE /\ pid \in Children(shell) /\ st[pid] = "zombie" /\ st' = [st EXCEPT ![pid] = "gone"]
             /\ hpc' = "none" /\ UNCHANGED out
    <2>1. pid \in Zombies
      BY <1>5 DEF Zombies
    <2>2. /\ Keeps' /\ PidsInOrder' /\ st' \in [Pids -> States]
          /\ Children(shell)' = Children(shell) \ {pid}
      BY <1>1, <1>2, <1>5, <2>1, ReapChild DEF mainVars
    <2>3. pc \in {"wait", "and_wait"}
      BY <1>2, <1>3, <1>5 DEF ChildrenInv, ModeInv, OrPCs, Types, PCs
    <2>4. Types' /\ HandlerInv' /\ ModeInv'
      BY <1>1, <1>2, <1>5, <2>2 DEF Types, HandlerInv, ModeInv, Group, mainVars
    <2>5. ChildrenInv'
      BY <1>1, <1>2, <1>3, <2>2, <2>3 DEF ChildrenInv, mainVars, OrPCs
    <2>6. QED
      BY <1>3, <2>2, <2>4, <2>5 DEF IInv, Running
  <1>6. QED
    BY <1>4, <1>5 DEF HandlerWaitpid

(* At the start the shell has no child. *)
LEMMA IInvInit == Init => IInv
  <1> SUFFICES ASSUME Init PROVE IInv
    OBVIOUS
  <1>1. Types
    <2>1. Len(<<>>) = 0 /\ <<>> \in Seq(Pids)
      OBVIOUS
    <2>2. array \in [ok : BOOLEAN, pids : Seq(Pids)]
      BY <2>1 DEF Init
    <2>3. st \in [Pids -> States] /\ parent \in [Pids -> Pids \cup {shell}]
          /\ grp \in [Pids -> Nat] /\ code \in [Pids -> Endings]
      <3>1. [status |-> 0, by |-> "itself"] \in Endings
        BY DEF Endings
      <3>2. QED
        BY <3>1 DEF Init, States
    <2>4. script \in Scripts /\ pc \in PCs /\ hpc = "none" /\ g = 1 /\ k = 0 /\ i = 1
          /\ pid = 0 /\ pid_list = <<>> /\ first_pid = 0 /\ blocked = FALSE /\ pc = "group"
      BY DEF Init, PCs
    <2>5. pid_list \in Seq(Pids)
      BY <2>1, <2>4
    <2>6. g \in Nat \ {0} /\ k \in Nat /\ i \in Nat
      BY <2>4
    <2>7. pid \in Pids \cup {0} /\ first_pid \in Pids \cup {0} /\ blocked \in BOOLEAN
      BY <2>4
    <2>8. hpc \in {"none", "kill", "waitpid"} /\ pc \in PCs /\ script \in Scripts /\ pc = "group"
      BY <2>4
    <2>9. QED
      BY <2>2, <2>3, <2>5, <2>6, <2>7, <2>8 DEF Types
  <1>2. PidsInOrder
    <2>1. \A p \in Pids : st[p] # "none" <=> p <= 0
      BY BoundsAssumption DEF Init, Pids
    <2>2. 0 \in 0..MaxPids
      BY BoundsAssumption
    <2>3. QED
      BY <2>1, <2>2 DEF PidsInOrder
  <1>3. Children(shell) = {}
    BY DEF Init, Children, Unreaped
  <1>4. Keeps /\ HandlerInv /\ ModeInv
    BY DEF Init, Keeps, HandlerInv, ModeInv, OrPCs
  <1>5. ChildrenInv
    BY <1>3 DEF Init, ChildrenInv, OrPCs
  <1>6. QED
    BY <1>1, <1>2, <1>4, <1>5 DEF IInv, Running, Init, ErrorsNeedCtlC

(* Every step keeps the shell's children as the invariant says. *)
LEMMA IInvStep == IInv /\ [Next]_vars => IInv'
  <1> SUFFICES ASSUME IInv, [Next]_vars PROVE IInv'
    OBVIOUS
  <1>1. CASE UNCHANGED vars
    <2>1. Types' /\ PidsInOrder' /\ ErrorsNeedCtlC'
      BY <1>1 DEF IInv, Types, PidsInOrder, ErrorsNeedCtlC, vars, mainVars, sigVars, procVars
    <2>2. Children(shell)' = Children(shell) /\ Listed' = Listed /\ ListedFrom(i)' = ListedFrom(i)
          /\ (Distinct <=> Distinct')
      BY <1>1 DEF Children, Unreaped, Listed, ListedFrom, Distinct, vars, mainVars, procVars
    <2>3. Running'
      BY <1>1, <2>2
      DEF IInv, Running, Keeps, ChildOfShell, HandlerInv, ModeInv, Group, ChildrenInv,
          vars, mainVars, sigVars, procVars
    <2>4. QED
      BY <2>1, <2>3 DEF IInv
  <1>2. CASE Shell
    BY <1>2, QuietSteps, RunCommandStep, WaitStep, AndForkStep, AndAssignStep, OrForkStep,
       OrKillStep, OrReapStep DEF Shell
  <1>3. CASE Handler
    BY <1>3, SignalStep, HandlerKillStep, HandlerWaitpidStep DEF Handler
  <1>4. CASE Interrupt
    BY <1>4, SignalStep
  <1>5. ASSUME NEW p \in Pids, handle_pipe(p) \/ Exit(p) PROVE IInv'
    BY <1>5, PipeStep, ExitStep
  <1>6. QED
    BY <1>1, <1>2, <1>3, <1>4, <1>5 DEF Next

(* The inductive invariant: the shell's children at every place of         *)
(* run_script, whatever the scripts, the exit codes and the Ctl-C.         *)
THEOREM ChildrenCorrect == Spec => []IInv
  BY IInvInit, IInvStep, PTL DEF Spec

(* Between two commands or groups the shell has no child, running or       *)
(* zombie, whichever of its waits reaped them.                             *)
THEOREM NoZombiesCorrect == Spec => []NoZombies
  <1>1. IInv => NoZombies
    BY DEF IInv, Running, ChildrenInv, NoZombies
  <1>2. QED
    BY <1>1, ChildrenCorrect, PTL

(* No Wait, Waitpid or Kill of the shell fails unless a Ctl-C was handled. *)
THEOREM ErrorsCorrect == Spec => []ErrorsNeedCtlC
  <1>1. IInv => ErrorsNeedCtlC
    BY DEF IInv
  <1>2. QED
    BY <1>1, ChildrenCorrect, PTL

(* SIGTERM reaches processes of the current group only: it is sent to      *)
(* children of the shell, and every child is of the current group.         *)
THEOREM TermsCorrect == Spec => []TermsOwnGroup
  <1>1. IInv => TermsOwnGroup
    <2> SUFFICES ASSUME IInv, NEW p \in Pids, st[p] = "term", out = "running" PROVE grp[p] = g
      BY DEF TermsOwnGroup
    <2>1. p \in Children(shell)
      BY DEF IInv, Running, Keeps, Children, Unreaped
    <2>2. QED
      BY <2>1 DEF IInv, Running, ChildrenInv
  <1>2. QED
    BY <1>1, ChildrenCorrect, PTL

-----------------------------------------------------------------------------
(* The variables of a script: where the statuses go, and when the shell    *)
(* runs into an entry of var_list that is not there.                       *)

VarTypes ==
  /\ var_list \in [0..(VAR - 1) -> Vars \cup {NULL}] /\ var_index \in Nat
  /\ value \in [Vars -> Int] /\ status \in Int /\ g <= Len(script) + 1

(* The group sets its result in the shell. *)
Owed(j) == script[j].result_to # NULL /\ script[j].mode # "AND" /\ script[j].repeats > 0

(* The command of a single group has a pid variable, and the shell is past *)
(* the assignment.                                                         *)
TakesPid(j) == script[j].mode = "SINGLE" /\ script[j].commands[1].pid_to # NULL
PidTaken == TakesPid(g) /\ pc \in {"unblock", "wait", "status"}

(* The entry at var_index: run_group notes the result variable there; once *)
(* it is used, or a pid has taken it, there is no entry for a result.      *)
EntryInv ==
  /\ \A n \in 0..(VAR - 1) : n > var_index => var_list[n] = NULL
  /\ pc \notin {"group", "freeing", "freed"} /\ Group.result_to # NULL /\ k = 0 /\ ~PidTaken =>
       var_index < VAR /\ var_list[var_index] = Group.result_to
  /\ pc # "group" /\ Owed(g) /\ (k > 0 \/ PidTaken) /\ var_index < VAR => var_list[var_index] = NULL

(* The entries that the shell has used: those of the groups before, and of *)
(* the current one as far as it has come.                                  *)
PidsDone == IF pc \in {"unblock", "wait", "status"} THEN k + 1 ELSE k
EntriesBefore == UNION {EntriesOf(j) : j \in 1..(g - 1)}
EntriesUsed ==
  EntriesBefore
    \cup {e \in IF pc = "group" THEN {} ELSE EntriesOf(g) :
            \/ e[3] = "pid" /\ e[2] <= PidsDone
            \/ e[3] = "result" /\ e[2] <= k}

CountInv == var_index <= Cardinality(EntriesUsed)

(* A process of group j that the shell has waited for, and its status. *)
OfGroup(p, j) ==
  /\ st[p] = "gone" /\ parent[p] = shell /\ grp[p] = j
  /\ hits = {} => code[p].by = "itself"
Received(j) == \E p \in Pids : OfGroup(p, j) /\ value[script[j].result_to] = code[p].status

(* Without Ctl-C nothing has been terminated until handle_or has its first *)
(* finisher.                                                               *)
Unterminated ==
  pc \notin {"or_loop", "or_reap"} /\ hits = {} =>
    \A p \in Children(shell) : st[p] # "term" /\ (st[p] = "zombie" => code[p].by = "itself")

(* The status that the last Wait returned, until the shell has noted it.   *)
Waited ==
  pc \in {"status", "or_loop", "or_reap", "or_status"} =>
    first_pid \in Pids /\ OfGroup(first_pid, g) /\ status = code[first_pid].status

StatusInv ==
  /\ Unterminated /\ Waited
  /\ pc # "group" /\ Owed(g) /\ k > 0 => Received(g) /\ ~TakesPid(g)
  /\ pc \in {"freeing", "freed"} => k >= Group.repeats

(* The results of the groups before stay until a group assigns the same    *)
(* variable.                                                               *)
ResultsInv ==
  \A j \in 1..(g - 1) :
    Owed(j) /\ (\A l \in (j + 1)..(IF pc = "group" THEN g - 1 ELSE g) : ~Assigns(l, script[j].result_to))
      => Received(j)

VarInv ==
  /\ VarTypes /\ ResultsInv /\ CrashesExplained
  /\ out = "running" => EntryInv /\ CountInv /\ StatusInv

-----------------------------------------------------------------------------
(* What is past stays as it is: the script, a process that is gone, and    *)
(* that a Ctl-C was handled.                                               *)
Past ==
  /\ script' = script /\ (hits' = {} => hits = {})
  /\ \A p \in Pids : st[p] = "gone" =>
       st'[p] = "gone" /\ parent'[p] = parent[p] /\ grp'[p] = grp[p] /\ code'[p] = code[p]

(* No step of the shell, its handler or its processes changes the past: a  *)
(* new process gets a pid that was never used.                             *)
LEMMA PastStays == ASSUME IInv, Next PROVE Past
  <1>1. Types /\ PidsInOrder
    BY DEF IInv
  <1>2. ASSUME UNCHANGED <<script, hits, parent, grp, code>>,
               \A p \in Pids : st[p] = "gone" => st'[p] = "gone"
        PROVE  Past
    BY <1>2 DEF Past
  <1>3. ASSUME UNCHANGED <<script, hits>>, NEW q \in Pids \cup {shell}, NEW j \in Nat,
               NEW s \in {"run", "pipe"}, NEW c, Fork(q, j, s, c)
        PROVE  Past
    <2>1. /\ NextPid \in Pids /\ st[NextPid] = "none"
          /\ st' = [st EXCEPT ![NextPid] = s]
          /\ parent' = [parent EXCEPT ![NextPid] = q]
          /\ grp' = [grp EXCEPT ![NextPid] = j] /\ code' = code
      BY <1>1, <1>3, ForkChildren DEF Fork
    <2>2. QED
      BY <1>1, <1>3, <2>1 DEF Past, Types
  <1>4. CASE BeginGroup \/ Unblock \/ set_status_to_list \/ AndAssign \/ OrBegin \/ EndGroup
             \/ freeArray \/ EndScript \/ Interrupt
    BY <1>2, <1>4
    DEF BeginGroup, Unblock, set_status_to_list, AndAssign, OrBegin, EndGroup, freeArray, EndScript,
        Interrupt, sigVars, procVars
  <1>5. CASE run_command
    BY <1>1, <1>3, <1>5 DEF run_command, Types
  <1>6. CASE AndFork
    BY <1>1, <1>3, <1>6 DEF AndFork, Types, sigVars
  <1>7. CASE OrFork
    BY <1>1, <1>2, <1>3, <1>7 DEF OrFork, Types, sigVars, procVars
  <1>8. CASE Wait
    BY <1>1, <1>2, <1>8 DEF Wait, Reap, Types, sigVars
  <1>9. CASE OrKill
    BY <1>1, <1>2, <1>9 DEF OrKill, KillLoop, Terminated, sigVars
  <1>10. CASE OrReap
    BY <1>1, <1>2, <1>10 DEF OrReap, Types, sigVars
  <1>11. CASE Deliver
    BY <1>11 DEF Deliver, Past, procVars
  <1>12. CASE HandlerKill
    BY <1>1, <1>2, <1>12 DEF HandlerKill, Terminated
  <1>13. CASE HandlerWaitpid
    BY <1>1, <1>2, <1>13 DEF HandlerWaitpid, Types
  <1>14. ASSUME NEW p \in Pids, handle_pipe(p) PROVE Past
    <2>1. grp[p] \in Nat /\ st[p] = "pipe" /\ UNCHANGED <<script, hits>>
      BY <1>1, <1>14 DEF Types, handle_pipe, sigVars
    <2>2. CASE st' = [st EXCEPT ![p] = "run"] /\ UNCHANGED <<parent, grp, code>>
      BY <1>1, <1>2, <2>1, <2>2 DEF Types
    <2>3. ASSUME NEW c, Fork(p, grp[p], "run", c) PROVE Past
      BY <1>3, <2>1, <2>3
    <2>4. QED
      BY <1>14, <2>2, <2>3 DEF handle_pipe
  <1>15. ASSUME NEW p \in Pids, Exit(p) PROVE Past
    <2>1. UNCHANGED <<script, hits, parent, grp>>
      BY <1>15 DEF Exit, sigVars
    <2>2. \A q \in Pids : st[q] = "gone" => st'[q] = "gone" /\ code'[q] = code[q]
      BY <1>1, <1>15 DEF Exit, Types
    <2>3. QED
      BY <2>1, <2>2 DEF Past
  <1>16. QED
    BY <1>4, <1>5, <1>6, <1>7, <1>8, <1>9, <1>10, <1>11, <1>12, <1>13, <1>14, <1>15
    DEF Next, Shell, Handler

(* A status that was received stays received while the variable has it.    *)
LEMMA ReceivedKept ==
  ASSUME Past, NEW j, value'[script[j].result_to] = value[script[j].result_to], Received(j)
  PROVE  Received(j)'
  BY DEF Received, OfGroup, Past

(* So does the process itself. *)
LEMMA OfGroupKept ==
  ASSUME Past, NEW p \in Pids, NEW j, OfGroup(p, j)
  PROVE  OfGroup(p, j)' /\ code'[p] = code[p]
  BY DEF OfGroup, Past

-----------------------------------------------------------------------------
(* The entries that a group asks for are finitely many ...                 *)
LEMMA EntriesOfFinite ==
  ASSUME Types, NEW j \in 1..Len(script)
  PROVE  IsFiniteSet(EntriesOf(j))
  <1> DEFINE r == script[j].repeats + 1
             Tag(t) == {<<j, n, t>> : n \in 1..r}
             Made(t) == [n \in 1..r |-> <<j, n, t>>]
  <1>1. r \in Nat /\ script[j].repeats \in Nat
    <2>1. script \in Seq(Groups)
      BY ScriptsAssumption DEF Types
    <2>2. script[j] \in Groups
      BY <2>1
    <2>3. QED
      BY <2>2 DEF Groups
  <1>2. IsFiniteSet(1..r)
    <2>1. 1 \in Int /\ r \in Int
      BY <1>1
    <2> HIDE DEF r
    <2>2. QED
      BY <2>1, FS_Interval
  <1>3. ASSUME NEW t PROVE IsFiniteSet(Tag(t))
    <2>1. Made(t) \in Surjection(1..r, Tag(t))
      BY DEF Surjection
    <2>2. QED
      BY <1>2, <2>1, FS_Surjection
  <1>4. IsFiniteSet(Tag("pid") \cup Tag("result"))
    BY <1>3, FS_Union
  <1>5. EntriesOf(j) \subseteq Tag("pid") \cup Tag("result")
    BY <1>1 DEF EntriesOf
  <1>6. QED
    BY <1>4, <1>5, FS_Subset

(* ... and so are those of any number of groups.                           *)
LEMMA EntriesFinite ==
  ASSUME Types, NEW m \in Nat, m <= Len(script)
  PROVE  IsFiniteSet(UNION {EntriesOf(j) : j \in 1..m})
  <1> DEFINE Sets == {EntriesOf(j) : j \in 1..m}
             Of == [j \in 1..m |-> EntriesOf(j)]
  <1>1. Len(script) \in Nat
    BY ScriptsAssumption DEF Types
  <1>2. Of \in Surjection(1..m, Sets)
    BY DEF Surjection
  <1>3. IsFiniteSet(1..m)
    BY FS_Interval
  <1>4. IsFiniteSet(Sets)
    BY <1>2, <1>3, FS_Surjection
  <1>5. \A T \in Sets : IsFiniteSet(T)
    BY <1>1, EntriesOfFinite
  <1>6. QED
    BY <1>4, <1>5, FS_UNION

(* An entry of a group names it. *)
LEMMA EntryNames ==
  ASSUME NEW j, NEW e \in EntriesOf(j)
  PROVE  e[1] = j
  BY DEF EntriesOf

(* The entries used are among those asked for so far, and finitely many.   *)
LEMMA UsedFinite ==
  ASSUME Types, g <= Len(script) + 1
  PROVE  /\ IsFiniteSet(EntriesUsed)
         /\ pc # "group" \/ g <= Len(script) => EntriesUsed \subseteq EntriesAsked /\ IsFiniteSet(EntriesAsked)
  <1>1. Len(script) \in Nat /\ g \in Nat \ {0} /\ g - 1 \in Nat /\ g - 1 <= Len(script)
    BY ScriptsAssumption DEF Types
  <1>2. IsFiniteSet(EntriesBefore)
    BY <1>1, EntriesFinite DEF EntriesBefore
  <1>3. CASE pc = "group"
    <2>1. EntriesUsed = EntriesBefore
      BY <1>3 DEF EntriesUsed
    <2>2. EntriesUsed \subseteq EntriesAsked
      BY <1>1, <2>1 DEF EntriesBefore, EntriesAsked
    <2>3. g <= Len(script) => IsFiniteSet(EntriesAsked)
      BY <1>1, EntriesFinite DEF EntriesAsked
    <2>4. QED
      BY <1>2, <1>3, <2>1, <2>2, <2>3
  <1>4. CASE pc # "group"
    <2>1. g <= Len(script)
      BY <1>4 DEF Types
    <2>2. IsFiniteSet(EntriesAsked)
      BY <1>1, <2>1, EntriesFinite DEF EntriesAsked
    <2>3. EntriesUsed \subseteq EntriesAsked
      BY <1>1 DEF EntriesUsed, EntriesBefore, EntriesAsked
    <2>4. QED
      BY <2>2, <2>3, FS_Subset
  <1>5. QED
    BY <1>3, <1>4

(* The count of entries keeps up with var_index: a step that uses another  *)
(* entry of var_list uses another entry that was asked for.                *)
LEMMA CountGrows ==
  ASSUME NEW S, NEW T, IsFiniteSet(T), S \subseteq T, NEW n \in Nat, n <= Cardinality(S)
  PROVE  /\ n <= Cardinality(T)
         /\ (\E e \in T : e \notin S) => n + 1 <= Cardinality(T)
  <1>1. IsFiniteSet(S) /\ Cardinality(S) <= Cardinality(T) /\ (Cardinality(S) = Cardinality(T) => S = T)
    BY FS_Subset
  <1>2. Cardinality(S) \in Nat /\ Cardinality(T) \in Nat
    BY <1>1, FS_CardinalityType
  <1>3. QED
    BY <1>1, <1>2

(* How many of the group's pids are noted is a number, before and after.   *)
LEMMA PidsDoneType == (k \in Nat => PidsDone \in Nat) /\ (k' \in Nat => PidsDone' \in Nat)
  BY DEF PidsDone

(* Nothing that was used becomes unused. *)
LEMMA UsedKept ==
  ASSUME Types, script' = script, k' \in Nat,
         \/ /\ g' = g /\ (pc' = "group" => pc = "group")
            /\ pc # "group" => PidsDone <= PidsDone' /\ k <= k'
         \/ g' = g + 1 /\ pc' = "group"
  PROVE  EntriesUsed \subseteq EntriesUsed'
  <1>1. \A j : EntriesOf(j)' = EntriesOf(j)
    BY DEF EntriesOf
  <1>2. g \in Nat \ {0} /\ k \in Nat /\ PidsDone \in Nat /\ PidsDone' \in Nat
    BY PidsDoneType, Zenon DEF Types
  <1>3. CASE g' = g + 1 /\ pc' = "group"
    <2>1. EntriesUsed' = UNION {EntriesOf(j) : j \in 1..g}
      BY <1>1, <1>2, <1>3 DEF EntriesUsed, EntriesBefore
    <2>2. EntriesUsed \subseteq UNION {EntriesOf(j) : j \in 1..g}
      BY <1>2 DEF EntriesUsed, EntriesBefore
    <2>3. QED
      BY <2>1, <2>2
  <1>4. CASE g' = g /\ (pc' = "group" => pc = "group")
             /\ (pc # "group" => PidsDone <= PidsDone' /\ k <= k')
    <2>1. EntriesBefore' = EntriesBefore
      BY <1>1, <1>4 DEF EntriesBefore
    <2>2. CASE pc = "group"
      BY <2>1, <2>2 DEF EntriesUsed
    <2>3. CASE pc # "group"
      <3>1. ASSUME NEW e \in EntriesOf(g), (e[3] = "pid" /\ e[2] <= PidsDone) \/ (e[3] = "result" /\ e[2] <= k)
            PROVE  (e[3] = "pid" /\ e[2] <= PidsDone') \/ (e[3] = "result" /\ e[2] <= k')
        <4>1. e[2] \in Int
          BY <3>1 DEF EntriesOf
        <4>2. QED
          BY <1>2, <1>4, <2>3, <3>1, <4>1
      <3>2. EntriesOf(g)' = EntriesOf(g)
        BY <1>4, <1>1
      <3>3. QED
        BY <1>4, <2>1, <2>3, <3>1, <3>2 DEF EntriesUsed
    <2>4. QED
      BY <2>2, <2>3
  <1>5. QED
    BY <1>3, <1>4

(* The entries used after a step are finitely many, too. *)
LEMMA UsedFiniteNext == (Types /\ VarTypes => IsFiniteSet(EntriesUsed))'
  <1>1. Types /\ VarTypes => IsFiniteSet(EntriesUsed)
    BY UsedFinite DEF VarTypes
  <1>2. QED
    BY <1>1, PTL

(* The shell counts on: a step that leaves var_index alone, or adds one to *)
(* it for an entry that was not used before.                               *)
LEMMA CountKept ==
  ASSUME Types, Types', VarTypes, VarTypes', CountInv, EntriesUsed \subseteq EntriesUsed',
         \/ var_index' = var_index
         \/ var_index' = var_index + 1 /\ \E e \in EntriesUsed' : e \notin EntriesUsed
  PROVE  CountInv'
  <1>1. IsFiniteSet(EntriesUsed')
    BY UsedFiniteNext
  <1>2. var_index \in Nat /\ var_index <= Cardinality(EntriesUsed)
    BY DEF VarTypes, CountInv
  <1>3. QED
    BY <1>1, <1>2, CountGrows DEF CountInv

(* A step that finds no room in var_list was asked for more entries than   *)
(* there are.                                                              *)
LEMMA OverflowMeans ==
  ASSUME Types, VarTypes, CountInv, pc # "group" \/ g <= Len(script), var_index >= VAR,
         \E e \in EntriesAsked : e \notin EntriesUsed
  PROVE  Cardinality(EntriesAsked) > VAR
  <1>1. EntriesUsed \subseteq EntriesAsked /\ IsFiniteSet(EntriesAsked)
    BY UsedFinite DEF VarTypes
  <1>2. var_index + 1 <= Cardinality(EntriesAsked) /\ var_index \in Nat
    BY <1>1, CountGrows DEF VarTypes, CountInv
  <1>3. Cardinality(EntriesAsked) \in Nat
    BY <1>1, FS_CardinalityType
  <1>4. QED
    BY <1>2, <1>3, BoundsAssumption

-----------------------------------------------------------------------------
(* The results of the groups before are kept by what a group does: it      *)
(* changes no variable but its own ...                                     *)
LEMMA ResultsKept ==
  ASSUME Types, ResultsInv, Past, g' = g, pc' = "group" => pc = "group",
         \/ value' = value
         \/ pc # "group" /\ \A v \in Vars \cup {NULL} : ~Assigns(g, v) => value'[v] = value[v]
  PROVE  ResultsInv'
  <1> SUFFICES ASSUME NEW j \in 1..(g - 1), Owed(j)',
                      \A l \in (j + 1)..(IF pc' = "group" THEN g - 1 ELSE g) : ~Assigns(l, script[j].result_to)'
               PROVE  Received(j)'
    BY DEF ResultsInv, Past
  <1>1. g \in Nat \ {0} /\ script' = script
    BY DEF Types, Past
  <1>2. Owed(j) /\ \A l : Assigns(l, script[j].result_to)' = Assigns(l, script[j].result_to)
    BY <1>1 DEF Owed, Assigns
  <1>3. Received(j)
    <2>1. \A l \in (j + 1)..(IF pc = "group" THEN g - 1 ELSE g) :
             l \in (j + 1)..(IF pc' = "group" THEN g - 1 ELSE g)
      BY <1>1
    <2>2. QED
      BY <1>2, <2>1 DEF ResultsInv
  <1>4. value'[script[j].result_to] = value[script[j].result_to]
    <2>1. CASE value' = value
      BY <2>1
    <2>2. CASE pc # "group" /\ \A v \in Vars \cup {NULL} : ~Assigns(g, v) => value'[v] = value[v]
      <3>1. g \in (j + 1)..(IF pc' = "group" THEN g - 1 ELSE g)
        BY <1>1, <2>2
      <3>2. ~Assigns(g, script[j].result_to)
        BY <1>2, <3>1
      <3>3. script[j].result_to \in Vars \cup {NULL}
        <4>1. script \in Seq(Groups) /\ j \in 1..Len(script) /\ Len(script) \in Nat
          BY <1>1, <2>2, ScriptsAssumption DEF Types
        <4>2. script[j] \in Groups
          BY <4>1
        <4>3. QED
          BY <4>2 DEF Groups
      <3>4. QED
        BY <2>2, <3>2, <3>3
    <2>3. QED
      BY <2>1, <2>2
  <1>5. QED
    BY <1>3, <1>4, ReceivedKept

(* ... and it is one of them when it is over, with its result received.    *)
LEMMA ResultsOver ==
  ASSUME Types, ResultsInv, Past, value' = value, pc # "group", pc' = "group", g' = g + 1,
         Owed(g) => Received(g)
  PROVE  ResultsInv'
  <1> SUFFICES ASSUME NEW j \in 1..g, Owed(j)',
                      \A l \in (j + 1)..g : ~Assigns(l, script[j].result_to)'
               PROVE  Received(j)'
    BY DEF ResultsInv, Past, Types
  <1>1. g \in Nat \ {0} /\ script' = script
    BY DEF Types, Past
  <1>2. Owed(j) /\ \A l : Assigns(l, script[j].result_to)' = Assigns(l, script[j].result_to)
    BY <1>1 DEF Owed, Assigns
  <1>3. Received(j)
    <2>1. j = g \/ j \in 1..(g - 1)
      BY <1>1
    <2>2. QED
      BY <1>2, <2>1 DEF ResultsInv
  <1>4. QED
    BY <1>3, ReceivedKept

(* Without Ctl-C only handle_or terminates: what another step does to the  *)
(* shell's children is to start one, or to let one end by itself.          *)
LEMMA UntermStep ==
  ASSUME IInv, IInv', Next, out = "running", out' = "running", Unterminated
  PROVE  Unterminated'
  <1>1. Types /\ PidsInOrder /\ HandlerInv /\ Types' /\ ChildrenInv'
    BY DEF IInv, Running
  <1> SUFFICES ASSUME pc' \notin {"or_loop", "or_reap"}, hits' = {}, NEW p \in Children(shell)'
               PROVE  st'[p] # "term" /\ (st'[p] = "zombie" => code'[p].by = "itself")
    BY DEF Unterminated
  <1>2. p \in Pids /\ pc' # "or_status" /\ st'[p] # "none" /\ parent'[p] = shell
    BY <1>1 DEF ChildrenInv, Children, Unreaped
  <1>3. ASSUME NEW q \in Children(shell), hits = {}, pc \notin {"or_loop", "or_reap"}
        PROVE  st[q] # "term" /\ (st[q] = "zombie" => code[q].by = "itself")
    BY <1>3 DEF Unterminated
  <1>4. ASSUME UNCHANGED <<parent, code>>, hits = {}, pc \notin {"or_loop", "or_reap"},
               st'[p] = st[p] \/ st'[p] \in {"run", "pipe", "gone"}
        PROVE  st'[p] # "term" /\ (st'[p] = "zombie" => code'[p].by = "itself")
    BY <1>2, <1>3, <1>4 DEF Children, Unreaped
  <1>5. ASSUME hits = {}, pc \notin {"or_loop", "or_reap"}, NEW q \in Pids \cup {shell}, NEW j \in Nat,
               NEW s \in {"run", "pipe"}, NEW c, Fork(q, j, s, c)
        PROVE  st'[p] # "term" /\ (st'[p] = "zombie" => code'[p].by = "itself")
    <2>1. /\ NextPid \in Pids /\ st[NextPid] = "none" /\ st' = [st EXCEPT ![NextPid] = s] /\ code' = code
          /\ Children(shell)' = IF q = shell THEN Children(shell) \cup {NextPid} ELSE Children(shell)
      BY <1>1, <1>5, ForkChildren DEF Fork
    <2>2. QED
      BY <1>1, <1>2, <1>3, <1>5, <2>1 DEF Types
  <1>6. CASE BeginGroup \/ Unblock \/ set_status_to_list \/ AndAssign \/ OrBegin \/ EndGroup
             \/ freeArray \/ EndScript \/ Interrupt
    <2>1. UNCHANGED <<st, parent, code, hits>> /\ pc \notin {"or_loop", "or_reap"}
      BY <1>2, <1>6
      DEF BeginGroup, Unblock, set_status_to_list, AndAssign, OrBegin, EndGroup, freeArray, EndScript,
          Interrupt, sigVars, procVars
    <2>2. QED
      BY <1>4, <2>1
  <1>7. CASE run_command
    BY <1>1, <1>5, <1>7 DEF run_command, Types
  <1>8. CASE AndFork
    BY <1>1, <1>5, <1>8 DEF AndFork, Types, sigVars
  <1>9. CASE OrFork
    BY <1>1, <1>4, <1>5, <1>9 DEF OrFork, Types, sigVars, procVars
  <1>10. CASE Wait
    <2>1. UNCHANGED <<parent, code, hits>> /\ pc \notin {"or_loop", "or_reap"}
      BY <1>10 DEF Wait, sigVars
    <2>2. st'[p] = st[p] \/ st'[p] = "gone"
      BY <1>1, <1>2, <1>10 DEF Wait, Reap, Types
    <2>3. QED
      BY <1>4, <2>1, <2>2
  <1>11. CASE OrKill \/ OrReap
    BY <1>2, <1>11 DEF OrKill, KillLoop, OrReap
  <1>12. CASE Deliver
    BY <1>12 DEF Deliver
  <1>13. CASE HandlerKill
    BY <1>1, <1>13 DEF HandlerKill, HandlerInv
  <1>14. CASE HandlerWaitpid
    BY <1>1, <1>14 DEF HandlerWaitpid, HandlerInv
  <1>15. ASSUME NEW q \in Pids, handle_pipe(q)
         PROVE  st'[p] # "term" /\ (st'[p] = "zombie" => code'[p].by = "itself")
    <2>1. grp[q] \in Nat /\ st[q] = "pipe" /\ UNCHANGED <<pc, hits>>
      BY <1>1, <1>15 DEF Types, handle_pipe, sigVars
    <2>2. CASE st' = [st EXCEPT ![q] = "run"] /\ UNCHANGED <<parent, grp, code>>
      BY <1>1, <1>2, <1>4, <2>1, <2>2 DEF Types
    <2>3. ASSUME NEW c, Fork(q, grp[q], "run", c)
          PROVE  st'[p] # "term" /\ (st'[p] = "zombie" => code'[p].by = "itself")
      BY <1>5, <2>1, <2>3
    <2>4. QED
      BY <1>15, <2>2, <2>3 DEF handle_pipe
  <1>16. ASSUME NEW q \in Pids, Exit(q)
         PROVE  st'[p] # "term" /\ (st'[p] = "zombie" => code'[p].by = "itself")
    <2>1. UNCHANGED <<pc, hits, parent>>
      BY <1>16 DEF Exit, sigVars
    <2>2. CASE p # q
      <3>1. st'[p] = st[p] /\ code'[p] = code[p]
        BY <1>1, <1>2, <1>16, <2>2 DEF Exit, Types
      <3>2. QED
        BY <1>2, <1>3, <2>1, <3>1 DEF Children, Unreaped
    <2>3. CASE p = q
      <3>1. st'[p] \in {"zombie", "gone"}
        BY <1>1, <1>2, <1>16, <2>3 DEF Exit, Types
      <3>2. st[p] \in {"run", "term"} /\ p \in Children(shell)
        BY <1>2, <1>16, <2>1, <2>3 DEF Exit, Children, Unreaped
      <3>3. st[p] # "term"
        BY <1>3, <2>1, <3>2
      <3>4. PICK s \in Ends : code' = [code EXCEPT ![p] = [status |-> s, by |-> "itself"]]
        BY <1>16, <2>3, <3>3 DEF Exit
      <3>5. code'[p].by = "itself"
        BY <1>1, <1>2, <3>4 DEF Types
      <3>6. QED
        BY <3>1, <3>5
    <2>4. QED
      BY <2>2, <2>3
  <1>17. QED
    BY <1>6, <1>7, <1>8, <1>9, <1>10, <1>11, <1>12, <1>13, <1>14, <1>15, <1>16
    DEF Next, Shell, Handler

-----------------------------------------------------------------------------
(* A step that leaves the shell where it is and touches no variable.       *)
LEMMA StillStep ==
  ASSUME IInv, VarInv, Past, UNCHANGED <<pc, g, k, first_pid, status, varVars>>, CrashesExplained',
         out' = "running" => out = "running" /\ Unterminated'
  PROVE  VarInv'
  <1>1. Types /\ VarTypes /\ ResultsInv /\ script' = script /\ value' = value
    BY DEF IInv, VarInv, Past, varVars
  <1>2. VarTypes'
    BY <1>1 DEF VarTypes, varVars
  <1>3. ResultsInv'
    BY <1>1, ResultsKept
  <1>4. ASSUME out' = "running" PROVE EntryInv' /\ CountInv' /\ StatusInv'
    <2>1. EntryInv /\ CountInv /\ StatusInv
      BY <1>4 DEF VarInv
    <2>2. /\ EntriesUsed' = EntriesUsed /\ PidTaken' = PidTaken
          /\ Owed(g)' = Owed(g) /\ TakesPid(g)' = TakesPid(g)
      BY <1>1 DEF EntriesUsed, EntriesBefore, EntriesOf, PidsDone, PidTaken, TakesPid, Owed
    <2>3. EntryInv'
      BY <1>1, <2>1, <2>2 DEF EntryInv, Group, varVars
    <2>4. CountInv'
      BY <2>1, <2>2 DEF CountInv, varVars
    <2>5. Waited'
      BY <2>1, OfGroupKept DEF StatusInv, Waited
    <2>6. Received(g) => Received(g)'
      BY <1>1, ReceivedKept
    <2>7. StatusInv'
      BY <1>1, <1>4, <2>1, <2>2, <2>5, <2>6 DEF StatusInv, Group
    <2>8. QED
      BY <2>3, <2>4, <2>7
  <1>5. QED
    BY <1>2, <1>3, <1>4 DEF VarInv

(* A step of the shell within a group that touches no variable.            *)
LEMMA MoveStep ==
  ASSUME IInv, IInv', VarInv, Past, UNCHANGED <<g, varVars>>, out = "running", out' = "running",
         pc # "group", pc' # "group", status' \in Int, Waited', Unterminated',
         PidTaken' <=> PidTaken, PidsDone <= PidsDone',
         k' = k \/ (k' = k + 1 /\ Group.mode = "AND"),
         pc' \in {"freeing", "freed"} => k' >= Group.repeats,
         pc \in {"freeing", "freed"} => pc' \in {"freeing", "freed"}
  PROVE  VarInv'
  <1>1. /\ Types /\ Types' /\ VarTypes /\ ResultsInv /\ script' = script /\ value' = value
        /\ EntryInv /\ CountInv /\ StatusInv /\ k \in Nat /\ k' \in Nat
    BY DEF IInv, VarInv, Past, varVars, Types
  <1>2. VarTypes'
    BY <1>1 DEF VarTypes, varVars
  <1>3. ResultsInv'
    BY <1>1, ResultsKept
  <1>4. Owed(g)' = Owed(g) /\ TakesPid(g)' = TakesPid(g) /\ (Owed(g) => k' = k)
    BY <1>1 DEF TakesPid, Owed, Group
  <1>5. EntryInv'
    BY <1>1, <1>4 DEF EntryInv, Group, varVars
  <1>6. CountInv'
    <2>1. EntriesUsed \subseteq EntriesUsed'
      BY <1>1, UsedKept
    <2>2. QED
      BY <1>1, <1>2, <2>1, CountKept DEF varVars
  <1>7. Received(g) => Received(g)'
    BY <1>1, ReceivedKept
  <1>8. StatusInv'
    BY <1>1, <1>4, <1>7 DEF StatusInv, Group
  <1>9. QED
    BY <1>2, <1>3, <1>5, <1>6, <1>8 DEF VarInv, CrashesExplained

(* The end of a group: whatever was owed has been received.                *)
LEMMA OverStep ==
  ASSUME IInv, IInv', VarInv, Past, UNCHANGED <<k, status, varVars>>, out = "running", out' = "running",
         pc \in {"rep", "freed"}, pc' = "group", g' = g + 1, k >= Group.repeats, Unterminated'
  PROVE  VarInv'
  <1>1. /\ Types /\ Types' /\ VarTypes /\ ResultsInv /\ script' = script /\ value' = value
        /\ EntryInv /\ CountInv /\ StatusInv /\ k \in Nat
    BY DEF IInv, VarInv, Past, varVars, Types
  <1>2. VarTypes'
    BY <1>1, GroupType DEF VarTypes, varVars
  <1>3. Group \in Groups
    BY <1>1, GroupType
  <1>4. Owed(g) => Received(g)
    BY <1>1, <1>3 DEF StatusInv, Owed, Group, Groups
  <1>5. ResultsInv'
    BY <1>1, <1>4, ResultsOver
  <1>6. EntryInv' /\ StatusInv'
    BY <1>1 DEF EntryInv, varVars, StatusInv, Waited
  <1>7. CountInv'
    <2>1. EntriesUsed \subseteq EntriesUsed'
      BY <1>1, UsedKept
    <2>2. QED
      BY <1>1, <1>2, <2>1, CountKept DEF varVars
  <1>8. QED
    BY <1>2, <1>5, <1>6, <1>7 DEF VarInv, CrashesExplained

-----------------------------------------------------------------------------
(* run_group notes the variable of a result at var_index.                  *)
LEMMA BeginGroupVar ==
  ASSUME IInv, IInv', VarInv, Past, out' = "running" => Unterminated', BeginGroup
  PROVE  VarInv'
  <1>1. /\ out = "running" /\ pc = "group" /\ g <= Len(script) /\ pc' = "rep" /\ k' = 0
        /\ UNCHANGED <<script, g, status, var_index, value>>
    BY DEF BeginGroup, Main
  <1>2. /\ Types /\ Types' /\ VarTypes /\ ResultsInv /\ EntryInv /\ CountInv /\ StatusInv
    BY <1>1 DEF IInv, VarInv
  <1>3. Group \in Groups /\ g \in Nat \ {0}
    BY <1>1, <1>2, GroupType DEF Types
  <1>4. Group.result_to \in Vars \cup {NULL} /\ Group.repeats \in Nat
    BY <1>3 DEF Groups
  <1>5. \/ var_list' = var_list
        \/ /\ var_index < VAR /\ Group.result_to # NULL
           /\ var_list' = [var_list EXCEPT ![var_index] = Group.result_to]
    BY <1>2, BoundsAssumption DEF BeginGroup, NoteVar, VarTypes
  <1>6. VarTypes'
    BY <1>1, <1>2, <1>4, <1>5 DEF VarTypes
  <1>7. ResultsInv'
    BY <1>1, <1>2, ResultsKept
  <1>8. CASE out' = "overflow"
    <2>1. Group.result_to # NULL /\ var_index >= VAR
      BY <1>1, <1>8 DEF BeginGroup, NoteVar
    <2>2. <<g, 1, "result">> \in EntriesOf(g)
      BY <1>4, <2>1 DEF EntriesOf, Group
    <2>3. <<g, 1, "result">> \in EntriesAsked
      BY <1>3, <2>2 DEF EntriesAsked
    <2>4. <<g, 1, "result">> \notin EntriesUsed
      <3>1. \A j \in 1..(g - 1) : <<g, 1, "result">> \notin EntriesOf(j)
        BY <1>3 DEF EntriesOf
      <3>2. QED
        BY <1>1, <3>1 DEF EntriesUsed, EntriesBefore
    <2>5. Cardinality(EntriesAsked) > VAR
      BY <1>1, <1>2, <2>1, <2>3, <2>4, OverflowMeans
    <2>6. EntriesAsked' = EntriesAsked
      BY <1>1 DEF EntriesAsked, EntriesOf
    <2>7. QED
      BY <1>6, <1>7, <1>8, <2>5, <2>6 DEF VarInv, CrashesExplained
  <1>9. CASE out' = "running"
    <2>1. Group.result_to # NULL => var_index < VAR /\ var_list' = [var_list EXCEPT ![var_index] = Group.result_to]
      BY <1>2, <1>9, BoundsAssumption DEF BeginGroup, NoteVar, Stop, VarTypes
    <2>2. EntryInv'
      <3>1. \A n \in 0..(VAR - 1) : n > var_index => var_list'[n] = NULL
        <4>1. \A n \in 0..(VAR - 1) : n > var_index => var_list[n] = NULL
          BY <1>2 DEF EntryInv
        <4>2. CASE var_list' = var_list
          BY <4>1, <4>2
        <4>3. CASE var_list' = [var_list EXCEPT ![var_index] = Group.result_to]
          BY <1>2, <4>1, <4>3 DEF VarTypes
        <4>4. QED
          BY <1>5, <4>2, <4>3
      <3>2. Group.result_to # NULL => var_index < VAR /\ var_list'[var_index] = Group.result_to
        BY <1>2, <2>1, BoundsAssumption DEF VarTypes
      <3>3. QED
        BY <1>1, <3>1, <3>2 DEF EntryInv, Group, PidTaken
    <2>3. CountInv'
      <3>1. EntriesUsed \subseteq EntriesUsed'
        BY <1>1, <1>2, UsedKept
      <3>2. QED
        BY <1>1, <1>2, <1>6, <3>1, CountKept
    <2>4. StatusInv'
      BY <1>1, <1>9 DEF StatusInv, Waited
    <2>5. QED
      BY <1>6, <1>7, <1>9, <2>2, <2>3, <2>4 DEF VarInv, CrashesExplained
  <1>10. QED
    BY <1>1, <1>8, <1>9 DEF BeginGroup, Stop

(* The variables that SetPidTo may change. *)
LEMMA SetPidToCases ==
  ASSUME VarTypes, NEW v, SetPidTo(v), out = "running"
  PROVE  \/ v = NULL /\ UNCHANGED <<varVars, out>>
         \/ v # NULL /\ var_index >= VAR /\ out' = "overflow" /\ UNCHANGED varVars
         \/ /\ v # NULL /\ var_index < VAR /\ out' = "running"
            /\ var_list' = [var_list EXCEPT ![var_index] = v]
            /\ value' = [value EXCEPT ![v] = NextPid] /\ var_index' = var_index + 1
  BY BoundsAssumption DEF SetPidTo, Stop, NoteVar, VarTypes

(* run_command takes the entry at var_index for the pid, result or not.    *)
LEMMA RunCommandVar ==
  ASSUME IInv, IInv', VarInv, Past, out' = "running" => Unterminated', run_command
  PROVE  VarInv'
  <1>1. /\ out = "running" /\ pc = "rep" /\ k < Group.repeats /\ Group.mode = "SINGLE" /\ pc' = "unblock"
        /\ UNCHANGED <<script, g, k, status, first_pid>> /\ NextPid \in Pids
        /\ SetPidTo(Group.commands[1].pid_to)
    BY DEF run_command, Main, mainVars, Fork
  <1>2. /\ Types /\ Types' /\ VarTypes /\ ResultsInv /\ EntryInv /\ CountInv /\ StatusInv
    BY <1>1 DEF IInv, VarInv
  <1>3. /\ Group \in Groups /\ g \in Nat \ {0} /\ k \in Nat /\ Group.repeats \in Nat
        /\ Len(Group.commands) \in Nat \ {0} /\ Group.commands \in Seq(Commands)
    BY <1>1, <1>2, GroupType DEF Types, Groups
  <1>4. Group.commands[1] \in Commands
    BY <1>3
  <1> DEFINE v == Group.commands[1].pid_to
  <1>5. v \in Vars \cup {NULL}
    BY <1>4 DEF Commands
  <1>6. CASE v = NULL /\ UNCHANGED <<varVars, out>>
    <2>1. ~TakesPid(g) /\ ~PidTaken /\ ~PidTaken'
      BY <1>1, <1>6 DEF TakesPid, PidTaken, Group
    <2>2. PidsDone <= PidsDone'
      BY <1>1, <1>3 DEF PidsDone
    <2>3. QED
      BY <1>1, <1>2, <1>6, <2>1, <2>2, MoveStep DEF Waited, VarTypes
  <1>7. ASSUME v # NULL
        PROVE  /\ <<g, k + 1, "pid">> \in EntriesOf(g) /\ <<g, k + 1, "pid">> \in EntriesAsked
               /\ <<g, k + 1, "pid">> \notin EntriesUsed
    <2>1. k + 1 \in 1..Group.repeats
      BY <1>1, <1>3
    <2>2. <<g, k + 1, "pid">> \in EntriesOf(g)
      BY <1>1, <1>7, <2>1 DEF EntriesOf, Group
    <2>3. <<g, k + 1, "pid">> \in EntriesAsked
      BY <1>3, <2>2 DEF EntriesAsked
    <2>4. \A j \in 1..(g - 1) : <<g, k + 1, "pid">> \notin EntriesOf(j)
      BY <1>3 DEF EntriesOf
    <2>5. <<g, k + 1, "pid">> \notin EntriesUsed
      BY <1>1, <1>3, <2>4 DEF EntriesUsed, EntriesBefore, PidsDone
    <2>6. QED
      BY <2>2, <2>3, <2>5
  <1>8. CASE v # NULL /\ var_index >= VAR /\ out' = "overflow" /\ UNCHANGED varVars
    <2>1. Cardinality(EntriesAsked) > VAR
      BY <1>1, <1>2, <1>7, <1>8, OverflowMeans
    <2>2. EntriesAsked' = EntriesAsked
      BY <1>1 DEF EntriesAsked, EntriesOf
    <2>3. VarTypes' /\ ResultsInv'
      BY <1>1, <1>2, <1>8, ResultsKept DEF VarTypes, varVars
    <2>4. QED
      BY <1>8, <2>1, <2>2, <2>3 DEF VarInv, CrashesExplained
  <1>9. CASE /\ v # NULL /\ var_index < VAR /\ out' = "running"
             /\ var_list' = [var_list EXCEPT ![var_index] = v]
             /\ value' = [value EXCEPT ![v] = NextPid] /\ var_index' = var_index + 1
    <2>1. v \in Vars /\ NextPid \in Int
      BY <1>1, <1>5, <1>9, BoundsAssumption DEF Pids
    <2>2. VarTypes'
      <3>1. var_list' \in [0..(VAR - 1) -> Vars \cup {NULL}]
        BY <1>2, <1>9, <2>1 DEF VarTypes
      <3>2. value' \in [Vars -> Int] /\ var_index' \in Nat
        BY <1>2, <1>9, <2>1 DEF VarTypes
      <3>3. QED
        BY <1>1, <1>2, <3>1, <3>2 DEF VarTypes
    <2>3. Assigns(g, v)
      BY <1>3 DEF Assigns, Group
    <2>4. \A w \in Vars \cup {NULL} : ~Assigns(g, w) => value'[w] = value[w]
      BY <1>2, <1>9, <2>3 DEF VarTypes
    <2>5. ResultsInv'
      BY <1>1, <1>2, <2>4, ResultsKept
    <2>6. TakesPid(g) /\ TakesPid(g)' /\ PidTaken'
      BY <1>1, <1>9 DEF TakesPid, PidTaken, Group
    <2>7. EntryInv'
      <3>1. \A n \in 0..(VAR - 1) : n > var_index => var_list'[n] = NULL
        BY <1>2, <1>9 DEF EntryInv, VarTypes
      <3>2. var_index' < VAR => var_list'[var_index'] = NULL
        BY <1>2, <1>9, <3>1, BoundsAssumption DEF VarTypes
      <3>3. QED
        BY <1>1, <1>2, <1>9, <2>6, <3>1, <3>2 DEF EntryInv, VarTypes
    <2>8. CountInv'
      <3>1. PidsDone <= PidsDone' /\ PidsDone' = k + 1
        BY <1>1, <1>3 DEF PidsDone
      <3>2. EntriesUsed \subseteq EntriesUsed'
        BY <1>1, <1>2, <1>3, <3>1, UsedKept
      <3>3. EntriesOf(g)' = EntriesOf(g)
        BY <1>1 DEF EntriesOf
      <3>4. <<g, k + 1, "pid">> \in EntriesUsed'
        BY <1>1, <1>3, <1>7, <1>9, <3>1, <3>3 DEF EntriesUsed
      <3>5. QED
        BY <1>2, <1>7, <1>9, <2>2, <3>2, <3>4, CountKept
    <2>9. StatusInv'
      <3>1. ~(Owed(g) /\ k > 0)
        BY <1>1, <1>2, <2>6 DEF StatusInv
      <3>2. Owed(g)' = Owed(g)
        BY <1>1 DEF Owed
      <3>3. QED
        BY <1>1, <1>9, <3>1, <3>2 DEF StatusInv, Waited
    <2>10. QED
      BY <1>9, <2>2, <2>5, <2>7, <2>8, <2>9 DEF VarInv, CrashesExplained
  <1>10. QED
    BY <1>1, <1>2, <1>6, <1>8, <1>9, SetPidToCases

(* set_status_to_list gives the status to the variable that run_group      *)
(* noted, or finds none and crashes.                                       *)
LEMMA SetStatusVar ==
  ASSUME IInv, IInv', VarInv, Past, out' = "running" => Unterminated', set_status_to_list
  PROVE  VarInv'
  <1>1. /\ out = "running" /\ pc \in {"status", "or_status"} /\ pc' = "rep" /\ k' = k + 1
        /\ UNCHANGED <<script, g, first_pid, status, procVars, hits>>
    BY DEF set_status_to_list, Main, sigVars
  <1>2. /\ Types /\ Types' /\ VarTypes /\ ResultsInv /\ EntryInv /\ CountInv /\ StatusInv /\ ModeInv
    BY <1>1 DEF IInv, VarInv, Running
  <1>3. /\ Group \in Groups /\ g \in Nat \ {0} /\ k \in Nat /\ Group.repeats \in Nat
        /\ Group.result_to \in Vars \cup {NULL}
    BY <1>1, <1>2, GroupType DEF Types, Groups
  <1>4. k < Group.repeats /\ Group.mode # "AND" /\ (pc = "or_status" => Group.mode = "OR")
    BY <1>1, <1>2 DEF ModeInv, OrPCs
  <1>5. Owed(g)' = Owed(g) /\ TakesPid(g)' = TakesPid(g) /\ ~PidTaken'
    BY <1>1 DEF Owed, TakesPid, PidTaken
  <1>6. PidsDone <= PidsDone' /\ k <= k'
    BY <1>1, <1>3 DEF PidsDone
  <1>7. EntriesUsed \subseteq EntriesUsed'
    BY <1>1, <1>2, <1>3, <1>6, UsedKept
  <1>8. CASE Group.result_to = NULL
    <2>1. UNCHANGED <<varVars, out>>
      BY <1>8 DEF set_status_to_list
    <2>2. ~Owed(g)
      BY <1>8 DEF Owed, Group
    <2>3. VarTypes' /\ ResultsInv'
      BY <1>1, <1>2, <2>1, ResultsKept DEF VarTypes, varVars
    <2>4. EntryInv'
      BY <1>1, <1>2, <1>3, <1>5, <2>1, <2>2 DEF EntryInv, varVars, Group
    <2>5. CountInv'
      BY <1>2, <1>7, <2>1, <2>3, CountKept DEF varVars
    <2>6. StatusInv'
      BY <1>1, <1>5, <2>1, <2>2 DEF StatusInv, Waited
    <2>7. QED
      BY <1>1, <2>1, <2>3, <2>4, <2>5, <2>6 DEF VarInv, CrashesExplained
  <1>9. ASSUME Group.result_to # NULL
        PROVE  /\ <<g, k + 1, "result">> \in EntriesOf(g) /\ <<g, k + 1, "result">> \in EntriesAsked
               /\ <<g, k + 1, "result">> \notin EntriesUsed /\ Owed(g)
    <2>1. k + 1 \in 1..(Group.repeats + 1) /\ k + 1 <= Group.repeats
      BY <1>3, <1>4
    <2>2. <<g, k + 1, "result">> \in EntriesOf(g)
      BY <1>4, <1>9, <2>1 DEF EntriesOf, Group
    <2>3. <<g, k + 1, "result">> \in EntriesAsked
      BY <1>3, <2>2 DEF EntriesAsked
    <2>4. \A j \in 1..(g - 1) : <<g, k + 1, "result">> \notin EntriesOf(j)
      BY <1>3 DEF EntriesOf
    <2>5. <<g, k + 1, "result">> \notin EntriesUsed
      BY <1>1, <1>3, <2>4 DEF EntriesUsed, EntriesBefore
    <2>6. QED
      BY <1>3, <1>4, <1>9, <2>2, <2>3, <2>5 DEF Owed, Group
  <1>10. CASE Group.result_to # NULL /\ var_index >= VAR
    <2>1. out' = "overflow" /\ UNCHANGED varVars
      BY <1>10 DEF set_status_to_list, Stop
    <2>2. Cardinality(EntriesAsked) > VAR
      BY <1>1, <1>2, <1>9, <1>10, OverflowMeans
    <2>3. EntriesAsked' = EntriesAsked
      BY <1>1 DEF EntriesAsked, EntriesOf
    <2>4. VarTypes' /\ ResultsInv'
      BY <1>1, <1>2, <2>1, ResultsKept DEF VarTypes, varVars
    <2>5. QED
      BY <2>1, <2>2, <2>3, <2>4 DEF VarInv, CrashesExplained
  <1>11. CASE Group.result_to # NULL /\ var_index < VAR /\ var_list[var_index] = NULL
    <2>1. out' = "segv" /\ UNCHANGED varVars
      BY <1>2, <1>11, BoundsAssumption DEF set_status_to_list, Stop, VarTypes
    <2>2. k > 0 \/ PidTaken
      BY <1>1, <1>2, <1>3, <1>11 DEF EntryInv
    <2>3. ResultHasNoEntry(script[g])
      BY <1>3, <1>4, <1>11, <2>2 DEF ResultHasNoEntry, PidTaken, TakesPid, Group
    <2>4. VarTypes' /\ ResultsInv'
      BY <1>1, <1>2, <2>1, ResultsKept DEF VarTypes, varVars
    <2>5. QED
      BY <1>1, <2>1, <2>3, <2>4 DEF VarInv, CrashesExplained
  <1>12. CASE Group.result_to # NULL /\ var_index < VAR /\ var_list[var_index] # NULL
    <2>1. /\ out' = "running" /\ var_list' = var_list /\ var_index' = var_index + 1
          /\ value' = [value EXCEPT ![var_list[var_index]] = status]
      BY <1>1, <1>2, <1>12, BoundsAssumption DEF set_status_to_list, VarTypes
    <2>2. k = 0 /\ ~PidTaken /\ Owed(g)
      BY <1>1, <1>2, <1>3, <1>9, <1>12 DEF EntryInv
    <2>3. var_list[var_index] = Group.result_to /\ Group.result_to \in Vars
      BY <1>1, <1>2, <1>3, <1>12, <2>2 DEF EntryInv
    <2>4. VarTypes'
      <3>1. value' \in [Vars -> Int] /\ var_index' \in Nat
        BY <1>2, <2>1, <2>3 DEF VarTypes
      <3>2. QED
        BY <1>1, <1>2, <2>1, <3>1 DEF VarTypes
    <2>5. value'[Group.result_to] = status
      BY <1>2, <2>1, <2>3 DEF VarTypes
    <2>6. ResultsInv'
      <3>1. Assigns(g, Group.result_to)
        BY DEF Assigns, Group
      <3>2. \A w \in Vars \cup {NULL} : ~Assigns(g, w) => value'[w] = value[w]
        BY <1>2, <2>1, <2>3, <3>1 DEF VarTypes
      <3>3. QED
        BY <1>1, <1>2, <3>2, ResultsKept
    <2>7. EntryInv'
      <3>1. var_index' < VAR => var_list'[var_index'] = NULL
        BY <1>2, <2>1, BoundsAssumption DEF EntryInv, VarTypes
      <3>2. \A n \in 0..(VAR - 1) : n > var_index' => var_list'[n] = NULL
        BY <1>2, <2>1 DEF EntryInv, VarTypes
      <3>3. QED
        BY <1>1, <1>3, <3>1, <3>2 DEF EntryInv
    <2>8. CountInv'
      <3>1. EntriesOf(g)' = EntriesOf(g)
        BY <1>1 DEF EntriesOf
      <3>2. <<g, k + 1, "result">> \in EntriesUsed'
        BY <1>1, <1>3, <1>9, <1>12, <3>1 DEF EntriesUsed
      <3>3. QED
        BY <1>2, <1>7, <1>9, <1>12, <2>1, <2>4, <3>2, CountKept
    <2>9. StatusInv'
      <3>1. first_pid \in Pids /\ OfGroup(first_pid, g) /\ status = code[first_pid].status
        BY <1>1, <1>2 DEF StatusInv, Waited
      <3>2. OfGroup(first_pid, g)' /\ code'[first_pid] = code[first_pid]
        BY <1>1, <3>1 DEF OfGroup, procVars
      <3>3. Received(g)'
        BY <1>1, <2>5, <3>1, <3>2 DEF Received, Group
      <3>4. ~TakesPid(g)
        BY <1>1, <1>4, <2>2 DEF PidTaken, TakesPid, Group
      <3>5. QED
        BY <1>1, <1>5, <2>1, <3>3, <3>4 DEF StatusInv, Waited
    <2>10. QED
      BY <2>1, <2>4, <2>6, <2>7, <2>8, <2>9 DEF VarInv, CrashesExplained
  <1>13. QED
    BY <1>2, <1>8, <1>10, <1>11, <1>12, BoundsAssumption DEF VarTypes

(* The shell within a group: nothing but Wait changes the status, and the  *)
(* child that Wait returns is of the group.                                *)
LEMMA MovesVar ==
  ASSUME IInv, IInv', VarInv, Past, out' = "running" => Unterminated',
         Unblock \/ Wait \/ AndFork \/ AndAssign \/ OrBegin \/ OrFork \/ OrKill \/ OrReap
  PROVE  VarInv'
  <1>1. /\ out = "running" /\ pc \notin {"group", "freeing", "freed"} /\ UNCHANGED <<g, varVars>>
        /\ out' \in {"running", "error"}
    BY DEF Unblock, Wait, Reap, AndFork, AndAssign, OrBegin, OrFork, OrKill, KillLoop, OrReap, Main, mainVars, Stop
  <1>2. /\ Types /\ Types' /\ VarTypes /\ StatusInv /\ ChildrenInv /\ k \in Nat /\ k' \in Nat
        /\ script' = script /\ CrashesExplained'
    BY <1>1 DEF IInv, VarInv, Running, Types, Past, CrashesExplained
  <1>3. CASE out' = "error"
    <2>1. UNCHANGED <<pc, g, first_pid, status, varVars>> /\ script' = script
      BY <1>1, <1>2, <1>3
      DEF Unblock, Wait, Reap, AndFork, AndAssign, OrBegin, OrFork, OrKill, KillLoop, OrReap
    <2>2. VarTypes' /\ ResultsInv'
      BY <1>2, <2>1, ResultsKept DEF VarTypes, varVars, VarInv
    <2>3. QED
      BY <1>2, <1>3, <2>2 DEF VarInv
  <1>4. CASE Wait /\ out' = "running"
    <2>1. PICK p \in Children(shell) \cap Zombies :
            /\ st' = [st EXCEPT ![p] = "gone"] /\ status' = code[p].status /\ first_pid' = p
            /\ pc' = CASE pc = "wait" -> "status" [] pc = "and_wait" -> "rep" [] pc = "or_wait" -> "or_loop"
      BY <1>1, <1>4 DEF Wait, Reap, Stop
    <2>2. /\ pc \in {"wait", "and_wait", "or_wait"} /\ k' = (IF pc = "and_wait" THEN k + 1 ELSE k)
          /\ UNCHANGED <<parent, grp, code, hits>>
      BY <1>4 DEF Wait, sigVars
    <2>3. p \in Pids /\ st[p] = "zombie" /\ parent[p] = shell /\ grp[p] = g /\ code[p] \in Endings
      BY <1>2, <2>1 DEF Zombies, Children, Unreaped, ChildrenInv, Types
    <2>4. hits = {} => code[p].by = "itself"
      BY <1>2, <2>1, <2>2, <2>3 DEF StatusInv, Unterminated
    <2>5. Waited'
      BY <1>1, <1>2, <2>1, <2>2, <2>3, <2>4 DEF Waited, OfGroup, Types
    <2>6. pc = "and_wait" => Group.mode = "AND"
      BY <1>1 DEF IInv, Running, ModeInv
    <2>7. (PidTaken' <=> PidTaken) /\ PidsDone <= PidsDone'
      BY <1>1, <1>2, <2>1, <2>2, <2>6 DEF PidTaken, TakesPid, PidsDone, Group
    <2>8. pc' \notin {"freeing", "freed", "group"}
      BY <2>1, <2>2
    <2>9. code[p].status \in Int
      BY <2>3 DEF Endings
    <2>10. status' \in Int
      BY <1>2, <2>1, <2>9
    <2>11. QED
      BY <1>1, <1>2, <1>4, <2>1, <2>2, <2>3, <2>5, <2>6, <2>7, <2>8, <2>10, MoveStep
  <1>5. CASE ~Wait /\ out' = "running"
    <2>1. /\ UNCHANGED <<k, status, first_pid>> /\ pc' \notin {"group", "freeing", "freed"}
      BY <1>1, <1>5
      DEF Unblock, AndFork, AndAssign, OrBegin, OrFork, OrKill, KillLoop, OrReap, mainVars
    <2>2. /\ pc' \in {"status", "or_loop", "or_reap", "or_status"} =>
               pc \in {"status", "or_loop", "or_reap", "or_status"}
          /\ pc' \in {"unblock", "wait", "status"} <=> pc \in {"unblock", "wait", "status"}
      BY <1>1, <1>5
      DEF Unblock, AndFork, AndAssign, OrBegin, OrFork, OrKill, KillLoop, OrReap
    <2>3. Waited'
      BY <1>1, <1>2, <2>1, <2>2, OfGroupKept DEF StatusInv, Waited
    <2>4. (PidTaken' <=> PidTaken) /\ PidsDone <= PidsDone'
      BY <1>1, <1>2, <2>1, <2>2 DEF PidTaken, TakesPid, PidsDone
    <2>5. QED
      BY <1>1, <1>2, <1>5, <2>1, <2>3, <2>4, MoveStep DEF VarTypes
  <1>6. QED
    BY <1>1, <1>3, <1>4, <1>5

(* The end of a group and of the script. *)
LEMMA EndsVar ==
  ASSUME IInv, IInv', VarInv, Past, out' = "running" => Unterminated',
         EndGroup \/ freeArray \/ EndScript
  PROVE  VarInv'
  <1>1. /\ out = "running" /\ UNCHANGED <<k, first_pid, status, varVars>> /\ out' \in {"running", "ok"}
    BY DEF EndGroup, freeArray, EndScript, Main, mainVars, Stop
  <1>2. /\ Types /\ Types' /\ VarTypes /\ StatusInv /\ k \in Nat /\ script' = script /\ CrashesExplained'
    BY <1>1 DEF IInv, VarInv, Types, Past, CrashesExplained
  <1>3. CASE EndScript
    BY <1>1, <1>2, <1>3, StillStep DEF EndScript, mainVars, Stop
  <1>4. CASE pc' = "group" /\ g' = g + 1 /\ pc \in {"rep", "freed"} /\ k >= Group.repeats /\ out' = "running"
    BY <1>1, <1>2, <1>4, OverStep
  <1>5. CASE pc \in {"rep", "freeing"} /\ pc' \in {"freeing", "freed"} /\ k >= Group.repeats /\ UNCHANGED <<g, out>>
    <2>1. Waited' /\ (PidTaken' <=> PidTaken) /\ PidsDone <= PidsDone'
      BY <1>2, <1>1, <1>5 DEF Waited, PidTaken, PidsDone
    <2>2. QED
      BY <1>1, <1>2, <1>5, <2>1, MoveStep DEF VarTypes
  <1>6. CASE EndGroup
    BY <1>1, <1>4, <1>5, <1>6 DEF EndGroup
  <1>7. CASE freeArray
    <2>1. pc \in {"freeing", "freed"} => k >= Group.repeats
      BY <1>2 DEF StatusInv
    <2>2. QED
      BY <1>1, <1>4, <1>5, <1>7, <2>1 DEF freeArray
  <1>8. QED
    BY <1>3, <1>6, <1>7

(* Processes and signals leave the shell where it is; the handler crashes  *)
(* only on an array that is being freed.                                   *)
LEMMA OthersVar ==
  ASSUME IInv, IInv', VarInv, Past, out = "running" /\ out' = "running" => Unterminated',
         \/ Interrupt \/ Deliver \/ HandlerKill \/ HandlerWaitpid
         \/ \E p \in Pids : handle_pipe(p) \/ Exit(p)
  PROVE  VarInv'
  <1>1. UNCHANGED <<script, pc, g, k, first_pid, status, varVars>> /\ (out' = "running" => out = "running")
    BY DEF Interrupt, Deliver, HandlerKill, HandlerWaitpid, handle_pipe, Exit, mainVars, Stop
  <1>2. CrashesExplained /\ EntriesAsked' = EntriesAsked
    BY <1>1 DEF VarInv, EntriesAsked, EntriesOf
  <1>3. CASE Interrupt \/ Deliver \/ HandlerWaitpid
    <2>1. out' \in {"running", "error"}
      BY <1>3 DEF Interrupt, Deliver, HandlerWaitpid, Stop
    <2>2. QED
      BY <1>1, <2>1, StillStep DEF CrashesExplained
  <1>4. CASE HandlerKill
    <2>1. HandlerInv /\ hpc = "kill"
      BY <1>4 DEF HandlerKill, IInv, Running
    <2>2. \/ out' \in {"running", "error"}
          \/ out' \in {"segv", "killed"} /\ ~array.ok /\ UNCHANGED <<hpc, hits>>
      BY <1>4 DEF HandlerKill, Stop
    <2>3. CrashesExplained'
      BY <1>1, <2>1, <2>2 DEF CrashesExplained, HandlerInv
    <2>4. QED
      BY <1>1, <2>3, StillStep
  <1>5. ASSUME NEW p \in Pids, handle_pipe(p) \/ Exit(p) PROVE VarInv'
    <2>1. UNCHANGED <<out, hpc, hits>>
      BY <1>5 DEF handle_pipe, Exit, sigVars
    <2>2. CrashesExplained'
      BY <1>1, <1>2, <2>1 DEF CrashesExplained, ResultHasNoEntry
    <2>3. QED
      BY <1>1, <2>1, <2>2, StillStep
  <1>6. QED
    BY <1>3, <1>4, <1>5

(* At the start no variable is noted. *)
LEMMA VarInvInit == Init => VarInv
  <1> SUFFICES ASSUME Init PROVE VarInv
    OBVIOUS
  <1>1. Types
    BY IInvInit DEF IInv
  <1>2. Len(script) \in Nat
    BY <1>1, ScriptsAssumption DEF Types
  <1>3. VarTypes
    BY <1>2, BoundsAssumption DEF Init, VarTypes
  <1>4. EntryInv
    BY BoundsAssumption DEF Init, EntryInv
  <1>5. CountInv
    <2>1. IsFiniteSet(EntriesUsed)
      BY <1>1, <1>3, UsedFinite DEF VarTypes
    <2>2. Cardinality(EntriesUsed) \in Nat
      BY <2>1, FS_CardinalityType
    <2>3. QED
      BY <2>2 DEF Init, CountInv
  <1>6. StatusInv
    BY DEF Init, StatusInv, Unterminated, Waited, Children, Unreaped
  <1>7. ResultsInv /\ CrashesExplained
    BY DEF Init, ResultsInv, CrashesExplained
  <1>8. QED
    BY <1>3, <1>4, <1>5, <1>6, <1>7 DEF VarInv

(* Every step keeps the variables as the invariant says. *)
LEMMA VarInvStep == IInv /\ IInv' /\ VarInv /\ [Next]_vars => VarInv'
  <1> SUFFICES ASSUME IInv, IInv', VarInv, [Next]_vars PROVE VarInv'
    OBVIOUS
  <1>1. CASE UNCHANGED vars
    <2>1. UNCHANGED <<script, pc, g, k, first_pid, status, varVars, hits, hpc, out, st, parent, grp, code>>
      BY <1>1 DEF vars, mainVars, sigVars, procVars
    <2>2. Past
      BY <2>1 DEF Past
    <2>3. CrashesExplained'
      BY <2>1 DEF VarInv, CrashesExplained, ResultHasNoEntry, EntriesAsked, EntriesOf
    <2>4. out = "running" => Unterminated'
      BY <2>1 DEF VarInv, StatusInv, Unterminated, Children, Unreaped
    <2>5. QED
      BY <2>1, <2>2, <2>3, <2>4, StillStep
  <1>2. CASE Next
    <2>1. Past
      BY <1>2, PastStays
    <2>2. out = "running" /\ out' = "running" => Unterminated'
      BY <1>2, UntermStep DEF VarInv, StatusInv
    <2>3. CASE Shell
      <3>1. out = "running"
        BY <2>3
        DEF Shell, Main, BeginGroup, run_command, Unblock, Wait, set_status_to_list, AndFork, AndAssign,
            OrBegin, OrFork, OrKill, KillLoop, OrReap, EndGroup, freeArray, EndScript
      <3>2. QED
        BY <2>1, <2>2, <2>3, <3>1, BeginGroupVar, RunCommandVar, SetStatusVar, MovesVar, EndsVar DEF Shell
    <2>4. CASE ~Shell
      BY <1>2, <2>1, <2>2, <2>4, OthersVar DEF Next, Handler
    <2>5. QED
      BY <2>3, <2>4
  <1>3. QED
    BY <1>1, <1>2

(* The inductive invariant: where var_list and the variables are at every  *)
(* place of run_script, whatever the scripts, VAR, the codes and Ctl-C.    *)
THEOREM VariablesCorrect == Spec => []VarInv
  BY VarInvInit, VarInvStep, ChildrenCorrect, PTL DEF Spec

(* The variable of a group's result holds the status of a process that the *)
(* shell started for the group, until a later group is given the same      *)
(* variable; without Ctl-C of one that ended by itself, with an exit code  *)
(* or by a signal, and never of one which handle_or terminated.            *)
THEOREM ResultCorrect == Spec => []ResultReceived
  <1>1. VarInv => ResultReceived
    <2> SUFFICES ASSUME VarInv, pc = "group", NEW j \in 1..(g - 1), script[j].result_to # NULL,
                        script[j].mode # "AND", script[j].repeats > 0,
                        \A l \in (j + 1)..(g - 1) : ~Assigns(l, script[j].result_to)
                 PROVE  \E p \in Pids : /\ st[p] = "gone" /\ parent[p] = shell /\ grp[p] = j
                                        /\ value[script[j].result_to] = code[p].status
                                        /\ hits = {} => code[p].by = "itself"
      BY DEF ResultReceived
    <2>1. Received(j)
      BY DEF VarInv, ResultsInv, Owed
    <2>2. QED
      BY <2>1 DEF Received, OfGroup
  <1>2. QED
    BY <1>1, VariablesCorrect, PTL

(* The shell leaves var_list only when the script asks for more than VAR   *)
(* entries, and crashes only at a result without an entry or in a freed    *)
(* array.                                                                  *)
THEOREM CrashesCorrect == Spec => []CrashesExplained
  <1>1. VarInv => CrashesExplained
    BY DEF VarInv
  <1>2. QED
    BY <1>1, VariablesCorrect, PTL
=============================================================================
