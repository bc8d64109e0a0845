------------------------------ MODULE MCWhoosh ------------------------------
(* Small scripts for the shell. *)
EXTENDS Whoosh

C(prog) == [prog |-> prog, pid_to |-> NULL]
G(mode, n, v, commands) ==
  [mode |-> mode, repeats |-> n, result_to |-> v, commands |-> commands]

Single(prog) == G("SINGLE", 1, NULL, <<C(prog)>>)
v1 == CHOOSE v \in Vars : TRUE

(* a command, repeated, with a result, both, with its pid noted, with its  *)
(* pid and a result, and with more pids than there are variables           *)
Singles ==
  {Single("ends"), G("SINGLE", 0, NULL, <<C("ends")>>),
   G("SINGLE", 2, NULL, <<C("ends")>>), G("SINGLE", 1, v1, <<C("ends")>>),
   G("SINGLE", 2, v1, <<C("ends")>>),
   G("SINGLE", 1, NULL, <<[prog |-> "ends", pid_to |-> v1]>>),
   G("SINGLE", 1, v1, <<[prog |-> "ends", pid_to |-> v1]>>),
   G("SINGLE", 3, NULL, <<[prog |-> "ends", pid_to |-> v1]>>)}

(* pipelines and races of two or three commands *)
Pipes == {G("AND", 1, NULL, <<C(a), C("ends")>>) : a \in {"ends", "sleeps"}}
         \cup {G("AND", 2, NULL, <<C("ends"), C("ends")>>),
               G("AND", 1, v1, <<C("ends"), C("ends")>>)}
Races == {G("OR", 1, v, <<C("ends"), C("sleeps"), C("ends")>>) : v \in Vars \cup {NULL}}
         \cup {G("OR", 1, v1, <<C("sleeps"), [prog |-> "ends", pid_to |-> v1]>>)}

(* every group alone and in front of others, also ones that sleep until    *)
(* Ctl-C is pressed                                                        *)
SmallGroups == Singles \cup Pipes \cup Races \cup {Single("sleeps")}
SecondGroups ==
  {Single("sleeps"), Single("ends"), G("SINGLE", 2, v1, <<C("ends")>>), G("SINGLE", 1, v1, <<C("ends")>>),
   G("AND", 1, NULL, <<C("sleeps"), C("ends")>>), G("AND", 1, NULL, <<C("ends"), C("ends")>>),
   G("OR", 1, v1, <<C("sleeps"), C("ends")>>)}
AllScripts == {<<a>> : a \in SmallGroups} \cup {<<a, b>> : a \in SmallGroups, b \in SecondGroups}

(* scripts/ctl-c/pause.whoosh *)
PauseScript == {<<Single("sleeps"), Single("ends")>>}
=============================================================================
