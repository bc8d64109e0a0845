------------------------------- MODULE Parse --------------------------------
(***************************************************************************)
(* The parser of whoosh scripts (parse.c): lines of characters to groups   *)
(* of commands over one table of variables, and print_script, which writes *)
(* a parsed script back.  The script is parsed, printed, and the printed   *)
(* text parsed by a second process.  A line is the characters before its   *)
(* newline; 256 stands for the word "repeat".                              *)
(***************************************************************************)
EXTENDS Integers, Sequences, SequencesExt

CONSTANTS
  ScriptFiles,       \* the scripts that are parsed
  MAX_LINE_LENGTH,   \* size of the line buffer
  INT_MAX,           \* the largest int
  NONE               \* a NULL result_to or pid_to

(* A script is a file of lines of characters. *)
ASSUME ScriptAssumption == ScriptFiles \subseteq Seq(Seq(Int))
ASSUME IntAssumption == INT_MAX \in Nat \ {0}

VARIABLES
  file, lines,       \* the text, and how many of its lines are read
  text, at,          \* buffer_start and buffer
  names,             \* the names in vars[]
  refs,              \* history: each name read and the variable found for it
  group, command,    \* the group and the command being filled
  groups,            \* scr->groups
  step,              \* which loop the parser is in, "done" or "failed"
  printed            \* the script that print_script has printed, or NONE

parseVars == <<file, lines, text, at, names, refs, group, command, groups, step, printed>>

-----------------------------------------------------------------------------
SPACE == 32
QUOTE == 34
NUMBER_SIGN == 35
DOLLAR == 36
MINUS == 45
EQUAL == 61
AT == 64
BAR == 124
repeat == 256

isblank(c) == c \in 9..13 \cup {SPACE}
isnumber(c) == c \in 48..57
isletter(c) == c \in 65..90 \cup 97..122 \cup {repeat}
issep(c) == c = BAR
isliteral(c) == isletter(c) \/ isnumber(c) \/ c \in {46, 58, 95, MINUS, EQUAL, 47}

(* The character at i, 0 for the terminator. *)
Char(s, i) == IF i \in DOMAIN s THEN s[i] ELSE 0
Ends(c) == c = 0 \/ isblank(c) \/ issep(c)

(* The first index from i on whose character does not have the property.   *)
skip_space(s, i) == CHOOSE k \in i..(Len(s) + 1) :
  ~isblank(Char(s, k)) /\ \A m \in i..(k - 1) : isblank(s[m])
SkipNumber(s, i) == CHOOSE k \in i..(Len(s) + 1) :
  ~isnumber(Char(s, k)) /\ \A m \in i..(k - 1) : isnumber(s[m])
SkipName(s, i) == CHOOSE k \in i..(Len(s) + 1) :
  /\ ~isletter(Char(s, k)) /\ ~isnumber(Char(s, k))
  /\ \A m \in i..(k - 1) : isletter(s[m]) \/ isnumber(s[m])

(* The int that the machine keeps of a sum. *)
ToInt(n) == ((n + INT_MAX + 1) % (2 * (INT_MAX + 1))) - (INT_MAX + 1)

(* The int that the digits from i up to k leave in repeats. *)
Number(s, i, k) ==
  LET value[n \in i..k] == IF n = i THEN 0 ELSE ToInt(10 * value[n - 1] + (s[n - 1] - 48))
  IN  value[k]

(* The literal at i: where it ends and its text, ok when nothing was wrong. *)
parse_literal(s, i) ==
  LET closing(k) == {q \in (k + 1)..Len(s) : s[q] = QUOTE}
      lit[k \in i..(Len(s) + 1)] ==
        CASE Char(s, k) = QUOTE /\ closing(k) # {} ->
               LET q == CHOOSE q \in closing(k) : \A r \in closing(k) : q <= r
               IN  [lit[q + 1] EXCEPT !.text = SubSeq(s, k + 1, q - 1) \o @]
          [] isliteral(Char(s, k)) -> [lit[k + 1] EXCEPT !.text = <<s[k]>> \o @]
          [] OTHER -> [end |-> k, text |-> <<>>, ok |-> Ends(Char(s, k))]
  IN  lit[i]

(* mutant: a name finds the variables whose names it begins with *)
Matches_reversed(name, known) == IsPrefix(known, name)

(* strncmp over the length of the name that is read. *)
Matches(name, known) == IsPrefix(name, known)

(* The variable at i: its index in the table, which grows if it is new.    *)
parse_variable(s, i, table) ==
  LET k == SkipName(s, i + 1)
      name == SubSeq(s, i + 1, k - 1)
      found == {v \in DOMAIN table : Matches(name, table[v])}
  IN  [ok |-> name # <<>> /\ Ends(Char(s, k)),
       end |-> k, name |-> name,
       var |-> IF found = {} THEN Len(table) + 1 ELSE CHOOSE v \in found : \A w \in found : v <= w,
       names |-> IF found = {} THEN Append(table, name) ELSE table]

-----------------------------------------------------------------------------
ParseIdle ==
  /\ lines = 0 /\ text = <<>> /\ at = 1
  /\ names = <<>> /\ refs = {} /\ groups = <<>>
  /\ group = NONE /\ command = NONE /\ printed = NONE

ParseInit == file \in ScriptFiles /\ ParseIdle /\ step = "line"

(* fail exits. *)
Fails == step' = "failed" /\ UNCHANGED <<file, lines, text, at, names, refs, group, command, groups, printed>>

(* fgets and the tests of a line: its length counts the newline.           *)
ReadLine ==
  /\ step = "line" /\ lines < Len(file)
  /\ LET line == file[lines + 1]
         b == skip_space(line, 1)
     IN  IF (\E i \in DOMAIN line : line[i] \in 128..255) \/ Len(line) + 1 >= MAX_LINE_LENGTH - 1
         THEN Fails
         ELSE /\ lines' = lines + 1
              /\ IF Char(line, b) \in {0, NUMBER_SIGN} THEN UNCHANGED <<text, at, step>>
                 ELSE text' = line /\ at' = b /\ step' = "group"
              /\ UNCHANGED <<file, names, refs, group, command, groups, printed>>

EndOfFile ==
  /\ step = "line" /\ lines = Len(file)
  /\ step' = "done"
  /\ UNCHANGED <<file, lines, text, at, names, refs, group, command, groups, printed>>

(* parse_group up to its first command. *)
StartGroup ==
  /\ step = "group"
  /\ LET repeated == Char(text, at) = repeat /\ Char(text, at + 1) = SPACE
         digits == skip_space(text, at + 2)
         after == SkipNumber(text, digits)
         number == digits < after /\ isblank(Char(text, after))
         b == IF repeated THEN skip_space(text, after) ELSE at
         v == parse_variable(text, b, names)
         eq == skip_space(text, v.end)
         start == IF Char(text, b) = DOLLAR THEN skip_space(text, eq + 1) ELSE b
         opened(result) ==
           /\ group' = [mode |-> "SINGLE", repeats |-> IF repeated THEN Number(text, digits, after) ELSE 1,
                        result_to |-> result, commands |-> <<>>]
           /\ at' = start /\ step' = "command"
     IN  IF (repeated /\ ~number) \/ (Char(text, at) = repeat /\ at = Len(text)) THEN Fails
         ELSE IF Char(text, b) = DOLLAR
         THEN IF ~v.ok \/ Char(text, eq) # EQUAL \/ Char(text, start) = 0 THEN Fails
              ELSE /\ names' = v.names /\ refs' = refs \cup {<<v.name, v.var>>}
                   /\ opened(v.var)
                   /\ UNCHANGED <<file, lines, text, command, groups, printed>>
         ELSE IF Char(text, b) = 0 THEN Fails
         ELSE opened(NONE) /\ UNCHANGED <<file, lines, text, names, refs, command, groups, printed>>

(* parse_command: the program. *)
StartCommand ==
  /\ step = "command"
  /\ \E lit \in {parse_literal(text, at)} :
       IF ~lit.ok \/ lit.end = at THEN Fails
       ELSE /\ command' = [program |-> lit.text, arguments |-> <<>>, pid_to |-> NONE]
            /\ at' = skip_space(text, lit.end) /\ step' = "argument"
            /\ UNCHANGED <<file, lines, text, names, refs, group, groups, printed>>

(* The command is complete: back to the loop of parse_group.               *)
EndCommand(c, b) ==
  /\ group' = [group EXCEPT !.commands = Append(@, c)]
  /\ at' = skip_space(text, b) /\ step' = "combiner"
  /\ UNCHANGED <<file, lines, text, command, groups, printed>>

Argument(a, b) ==
  /\ command' = [command EXCEPT !.arguments = Append(@, a)]
  /\ at' = skip_space(text, b)
  /\ UNCHANGED <<file, lines, text, group, groups, step, printed>>

(* One turn of the loop over the arguments. *)
NextArgument ==
  /\ step = "argument"
  /\ LET dest == skip_space(text, at + 1)
         v == parse_variable(text, IF Char(text, at) = AT THEN dest ELSE at, names)
         lit == parse_literal(text, at)
         noted == names' = v.names /\ refs' = refs \cup {<<v.name, v.var>>}
     IN  CASE Char(text, at) = DOLLAR ->
                IF ~v.ok THEN Fails ELSE noted /\ Argument([kind |-> "VARIABLE", value |-> v.var], v.end)
           [] Char(text, at) = AT ->
                IF Char(text, dest) # DOLLAR \/ ~v.ok \/ ~Ends(Char(text, skip_space(text, v.end))) THEN Fails
                ELSE noted /\ EndCommand([command EXCEPT !.pid_to = v.var], v.end)
           [] OTHER ->
                IF ~lit.ok THEN Fails
                ELSE /\ UNCHANGED <<names, refs>>
                     /\ IF lit.end = at THEN EndCommand(command, at)
                        ELSE Argument([kind |-> "LITERAL", value |-> lit.text], lit.end)

(* After a command: the end of the group, or a combiner, the same as the   *)
(* ones before.                                                            *)
NextCombiner ==
  /\ step = "combiner"
  /\ LET or == Char(text, at + 1) = BAR
         mode == IF or THEN "OR" ELSE "AND"
         b == skip_space(text, IF or THEN at + 2 ELSE at + 1)
     IN  IF Char(text, at) = 0
         THEN /\ groups' = Append(groups, group) /\ step' = "line"
              /\ UNCHANGED <<file, lines, text, at, names, refs, group, command, printed>>
         ELSE IF Char(text, at) # BAR \/ group.mode \notin {"SINGLE", mode} \/ Char(text, b) = 0 THEN Fails
         ELSE /\ group' = [group EXCEPT !.mode = mode]
              /\ at' = b /\ step' = "command"
              /\ UNCHANGED <<file, lines, text, names, refs, command, groups, printed>>

-----------------------------------------------------------------------------
(* mutant: only an empty literal is quoted *)
Quoted_bare(s) == IF s = <<>> THEN <<QUOTE, QUOTE>> ELSE s

(* print_script: literals in quotes, variables under their names.          *)
Quoted(s) == <<QUOTE>> \o s \o <<QUOTE>>
Variable(v, table) == <<DOLLAR>> \o table[v]
Decimal(n) ==
  LET decimal[m \in 0..n] == IF m < 10 THEN <<48 + m>> ELSE decimal[m \div 10] \o <<48 + (m % 10)>>
  IN  decimal[n]
PrintNumber(n) == IF n < 0 THEN <<MINUS>> \o Decimal(-n) ELSE Decimal(n)

PrintCommand(c, table) ==
  Quoted(c.program)
    \o FlattenSeq([k \in DOMAIN c.arguments |->
         <<SPACE>> \o IF c.arguments[k].kind = "LITERAL" THEN Quoted(c.arguments[k].value)
                      ELSE Variable(c.arguments[k].value, table)])
    \o IF c.pid_to = NONE THEN <<>> ELSE <<SPACE, AT, SPACE>> \o Variable(c.pid_to, table)

PrintGroup(g, table) ==
  (IF g.repeats = 1 THEN <<>> ELSE <<repeat, SPACE>> \o PrintNumber(g.repeats) \o <<SPACE>>)
    \o (IF g.result_to = NONE THEN <<>> ELSE Variable(g.result_to, table) \o <<SPACE, EQUAL, SPACE>>)
    \o FlattenSeq([j \in DOMAIN g.commands |->
         (IF j = 1 THEN <<>> ELSE IF g.mode = "AND" THEN <<SPACE, BAR, SPACE>> ELSE <<SPACE, BAR, BAR, SPACE>>)
           \o PrintCommand(g.commands[j], table)])

print_script(scr, table) == [i \in DOMAIN scr |-> PrintGroup(scr[i], table)]

(* The printed script is the script of another process. *)
ParsePrinted ==
  /\ step = "done" /\ printed = NONE
  /\ file' = print_script(groups, names)
  /\ printed' = [groups |-> groups, names |-> names]
  /\ step' = "line" /\ lines' = 0
  /\ names' = <<>> /\ refs' = {} /\ groups' = <<>>
  /\ UNCHANGED <<text, at, group, command>>

ParseNext ==
  \/ ReadLine \/ EndOfFile \/ StartGroup \/ StartCommand
  \/ NextArgument \/ NextCombiner \/ ParsePrinted

ParseSpec == ParseInit /\ [][ParseNext]_parseVars

-----------------------------------------------------------------------------
(* What print_script prints for a script is accepted again and means the   *)
(* same script: the same groups, modes, repeats, literals (quoted pieces   *)
(* joined, blanks and combiners inside quotes kept) and variables.  It is  *)
(* refused only at a line that the added quotes make too long, or at a     *)
(* group whose repeats has overflowed to a negative int (parse.c:98),      *)
(* which is printed with its sign and is no number at parse.c:94.          *)
PrintsBack ==
  printed # NONE =>
    /\ step = "failed" => \/ lines < Len(file) /\ Len(file[lines + 1]) + 1 >= MAX_LINE_LENGTH - 1
                          \/ lines > 0 /\ printed.groups[lines].repeats < 0
    /\ step = "done" => groups = printed.groups /\ names = printed.names

(* One name means one variable in the whole script, and the variable is    *)
(* found again under its own name.  Two names share a variable only when   *)
(* both begin the name it was first read with: $a after $ab is $ab         *)
(* (parse.c:198), while $ab after $a is a variable of its own.             *)
NamesStable ==
  \A r, s \in refs :
    /\ r[1] = s[1] => r[2] = s[2]
    /\ r[2] = s[2] => \A name \in {r[1], s[1]} : IsPrefix(name, names[r[2]])
    /\ <<names[r[2]], r[2]>> \in refs
=============================================================================
