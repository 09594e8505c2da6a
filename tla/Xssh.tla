-------------------------------- MODULE Xssh -------------------------------
(***************************************************************************)
(* The shell "Simple XSSHell/xssh.c" running a script (-f), with every     *)
(* process that comes of it.  A child whose execvp fails returns into the  *)
(* command loop: it is a shell like its parent, with a copy of all of its  *)
(* memory, and runs the rest of the script too.                            *)
(*                                                                         *)
(* mem[p] is the memory of process p.  The entries of args are pointers:   *)
(* to the value inside a struct of the table, NULL, or Junk where nothing  *)
(* was ever stored.  A word is a record of its text and its tail, the text *)
(* without the first character.                                            *)
(***************************************************************************)
EXTENDS EnvTable, Sequences, SequencesExt, Functions, TLC

CONSTANTS
  Procs,     \* process numbers 1..n; fork fails when they are used up
  PidName,   \* their decimal notation
  Scripts,   \* files of command lines: sequences of sequences of words
  Argvs,     \* what may follow the file's name on the command line
  FirstEnv,  \* the first string of the environment (envp[0])
  Programs,  \* names execvp finds
  Files,     \* names open finds
  Refused,   \* names setenv refuses
  MaxArgs,   \* bound on the words of a line
  Codes      \* exit codes, as strings; "0" and "255" are two

(* process numbers that are none: 0 stands for any child, as in waitpid *)
AnyChild == 0
ForkFailed == -1
Nobody == -2

Builtins == {"show", "set", "unset", "export", "unexport", "chdir", "exit", "wait"}

ASSUME XsshAssumption ==
  /\ \A s \in Scripts : \A n \in DOMAIN s : Len(s[n]) <= MaxArgs
  /\ Keys = Values /\ Procs \subseteq Nat \ {0} /\ 1 \in Procs /\ PidName \in [Procs -> Values]
  /\ {"0", "255"} \subseteq Codes /\ Codes \cup {"-1", "$", "?", "!", FirstEnv} \subseteq Values

States == {"none", "read", "parsed", "forked", "foreground", "wait", "exec",
           "program", "done", "reaped", "hung", "crashed"}

VARIABLES
  script,   \* the file's lines
  argv,
  mem,      \* per process [tbl, args, bg, inPOS, outPOS, stdin, environ, line]
  st,       \* per process, what it is doing
  parent,   \* per process, who forked it; 0 for the first
  inBg,     \* per process, how many commands it has started in the background
  target,   \* per process, whom its waitpid waits for
  code      \* per process, its exit code

vars == <<script, argv, mem, st, parent, inBg, target, code>>

(***************************************************************************)
(* A command line (the while loop of main, and getVal).                    *)
(***************************************************************************)
(* The '$' is assigned, not compared: whatever a word is, it stands for the
   variable its tail names, and for NULL if there is none. *)
GetVal(m, w) == Find(m.tbl, w.tail)

Special == {"&", "<", ">"}

(* what a word that is not an argument changes; i is its position *)
Flags(m, w, i) ==
  CASE w.text = "&" -> [m EXCEPT !.bg = TRUE]
    [] w.text = "<" -> [m EXCEPT !.inPOS = i + 1]
    [] w.text = ">" -> [m EXCEPT !.outPOS = i + 1]
    [] OTHER        -> m

(* One word.  &, < and > go on as the word NULL; the word at inPOS is opened
   as standard input, wherever the < was. *)
ParseWord(q, w) ==
  LET m == Flags(q.m, w, q.i)
      opened == IF w.text \in Files THEN w.text ELSE m.stdin
      value == IF w.text \in Special THEN NULL ELSE GetVal(m, w)
  IN IF q.i = m.inPOS THEN [q EXCEPT !.i = @ + 1, !.m = [m EXCEPT !.stdin = opened]]
     ELSE IF q.i = m.outPOS THEN [q EXCEPT !.i = @ + 1, !.m = m]
     ELSE [q EXCEPT !.i = @ + 1, !.j = @ + 1, !.m = [m EXCEPT !.args[q.j] = value]]

(* mutant: the line is read again and again *)
ParseAgain(m, ws) ==
  LET q == FoldLeft(ParseWord, [m |-> m, i |-> 0, j |-> 0], ws)
  IN [q.m EXCEPT !.args[q.i] = NULL]

(* mutant: the end of args is not marked *)
ParseUnended(m, ws) ==
  LET q == FoldLeft(ParseWord, [m |-> m, i |-> 0, j |-> 0], ws)
  IN [q.m EXCEPT !.line = @ + 1]

(* The end of args is marked at i, the number of words, while the arguments
   end at j; the entries between are those of an earlier line. *)
Parse(m, ws) ==
  LET q == FoldLeft(ParseWord, [m |-> m, i |-> 0, j |-> 0], ws)
  IN [q.m EXCEPT !.args[q.i] = NULL, !.line = @ + 1]

(* the string args[n] points to; NULL for no string *)
Arg(m, n) ==
  LET a == m.args[n]
  IN IF a \in Structs THEN m.tbl.value[a] ELSE IF a = Junk THEN NULL ELSE a

(* a pointer nobody stored is among the first n arguments a command follows *)
FollowsJunk(m, n) ==
  \E i \in 1..n : m.args[i] = Junk /\ \A h \in 1..i : m.args[h] # NULL

(***************************************************************************)
(* The shell takes the next line.                                          *)
(***************************************************************************)
Hangs(m) == \E n \in 0..MaxArgs : m.args[n] = Endless

(* p goes on with memory m, unless its table has brought it to a halt *)
GoesOn(p, m) ==
  /\ mem' = [mem EXCEPT ![p] = m]
  /\ st' = [st EXCEPT ![p] = IF m.tbl.fate = "ok" THEN "read" ELSE m.tbl.fate]
  /\ UNCHANGED <<script, argv, parent, inBg, target, code>>

Stops(p, how, c) ==
  /\ st' = [st EXCEPT ![p] = how]
  /\ code' = [code EXCEPT ![p] = c]
  /\ UNCHANGED <<script, argv, mem, parent, inBg, target>>

(* A lookup of a word may never return. *)
ReadLine(p) ==
  /\ st[p] = "read" /\ mem[p].line <= Len(script)
  /\ mem' = [mem EXCEPT ![p] = Parse(mem[p], script[mem[p].line])]
  /\ st' = [st EXCEPT ![p] = IF Hangs(mem'[p]) THEN "hung" ELSE "parsed"]
  /\ UNCHANGED <<script, argv, parent, inBg, target, code>>

EndOfScript(p) ==
  /\ st[p] = "read" /\ mem[p].line > Len(script)
  /\ Stops(p, "done", "0")

Runs(p, command) == st[p] = "parsed" /\ Arg(mem[p], 0) = command

(* an empty line, and any whose first word stands for no variable *)
NoCommand(p) == Runs(p, NULL) /\ GoesOn(p, mem[p])

(***************************************************************************)
(* runInternal.                                                            *)
(***************************************************************************)
With(m, t) == [m EXCEPT !.tbl = t]

(* Following a pointer nobody stored: what it leads to is printed or used, or
   the shell crashes.  Here what it leads to is taken for NULL. *)
FollowCrashes(p) ==
  /\ \/ /\ \E command \in {"unset", "unexport", "chdir", "exit"} : Runs(p, command)
        /\ FollowsJunk(mem[p], 1)
     \/ /\ \E command \in {"set", "export"} : Runs(p, command)
        /\ FollowsJunk(mem[p], 2)
     \/ Runs(p, "show") /\ FollowsJunk(mem[p], MaxArgs)
  /\ Stops(p, "crashed", "0")

(* show prints and chdir goes elsewhere; neither touches what is modelled *)
ShowOrChdir(p) ==
  \E command \in {"show", "chdir"} : Runs(p, command) /\ GoesOn(p, mem[p])

(* add, if there are a name and a value *)
Enters(p, m) ==
  IF NULL \in {Arg(m, 1), Arg(m, 2)} THEN GoesOn(p, m)
  ELSE \E t \in Add(m.tbl, Arg(m, 1), Arg(m, 2)) : GoesOn(p, With(m, t))

Removes(p, m) ==
  IF Arg(m, 1) = NULL THEN GoesOn(p, m)
  ELSE \E t \in RemoveKey(m.tbl, Arg(m, 1)) : GoesOn(p, With(m, t))

Set(p) == Runs(p, "set") /\ Enters(p, mem[p])

Unset(p) == Runs(p, "unset") /\ Removes(p, mem[p])

(* what setenv makes of the environment *)
Exported(m) ==
  IF Arg(m, 2) = NULL THEN m
  ELSE [m EXCEPT !.environ = (Arg(m, 1) :> Arg(m, 2)) @@ @]

Unexported(m) == [m EXCEPT !.environ = Restrict(@, DOMAIN @ \ {Arg(m, 1)})]

(* setenv and unsetenv come first, and if they fail it is all *)
Export(p) ==
  /\ Runs(p, "export")
  /\ IF Arg(mem[p], 1) \in Refused \cup {NULL} THEN GoesOn(p, mem[p])
     ELSE Enters(p, Exported(mem[p]))

Unexport(p) ==
  /\ Runs(p, "unexport")
  /\ IF Arg(mem[p], 1) \in Refused \cup {NULL} THEN GoesOn(p, mem[p])
     ELSE Removes(p, Unexported(mem[p]))

(* exit(atoi(v)): the low byte of the number, 0 for what is none.  A process
   number, or what a pointer nobody stored leads to, may give any code; other
   numerals than these, the codes and -1 do not occur. *)
ExitCodes(v) ==
  CASE v \in Codes          -> {v}
    [] v = "-1"             -> {"255"}
    [] v \in Range(PidName) -> Codes
    [] OTHER                -> {"0"}

Exit(p) ==
  /\ Runs(p, "exit")
  /\ \E c \in IF mem[p].args[1] = Junk THEN Codes ELSE ExitCodes(Arg(mem[p], 1)) :
       Stops(p, "done", c)

Children(p) == {c \in Procs : parent[c] = p /\ st[c] # "reaped"}

(* The argument of wait is the pointer, taken for a process number: it means
   any child if there is none, and else nobody, or by chance a child. *)
Wait(p) ==
  /\ Runs(p, "wait")
  /\ st' = [st EXCEPT ![p] = "wait"]
  /\ \E w \in (IF mem[p].args[1] = NULL THEN {AnyChild} ELSE {Nobody} \cup Children(p)) :
       target' = [target EXCEPT ![p] = w]
  /\ UNCHANGED <<script, argv, mem, parent, inBg, code>>

(***************************************************************************)
(* runExternal.                                                            *)
(***************************************************************************)
(* the child has a copy of the memory m; fork fails when Procs is used up *)
Forks(p, m) ==
  LET free == {c \in Procs : st[c] = "none"}
      c == IF free = {} THEN ForkFailed ELSE Min(free)
  IN /\ mem' = [q \in Procs |-> IF q \in {p, c} THEN m ELSE mem[q]]
     /\ st' = [q \in Procs |-> CASE q = p -> "forked" [] q = c -> "exec"
                                  [] OTHER -> st[q]]
     /\ parent' = [q \in Procs |-> IF q = c THEN p ELSE parent[q]]
     /\ target' = [target EXCEPT ![p] = c]
     /\ UNCHANGED <<script, argv, inBg, code>>

(* an external command: $ is entered, and the shell forks *)
Fork(p) ==
  /\ st[p] = "parsed" /\ Arg(mem[p], 0) \notin Builtins \cup {NULL}
  /\ \E t \in Add(mem[p].tbl, "$", PidName[p]) :
       IF t.fate = "ok" THEN Forks(p, With(mem[p], t)) ELSE GoesOn(p, With(mem[p], t))

Exec(c) ==
  /\ st[c] = "exec" /\ Arg(mem[c], 0) \in Programs
  /\ st' = [st EXCEPT ![c] = "program"]
  /\ UNCHANGED <<script, argv, mem, parent, inBg, target, code>>

(* The child goes on as a shell. *)
ExecFails(c) ==
  /\ st[c] = "exec"
  /\ Arg(mem[c], 0) \notin Programs \/ FollowsJunk(mem[c], MaxArgs)
  /\ GoesOn(c, mem[c])

(* child was never written, and may look like the -1 of a failed fork *)
ForkLooksFailed(p) == st[p] = "forked" /\ GoesOn(p, mem[p])

(* mutant: getpid() where pid is meant *)
ForkedNameOwn(p) == PidName[p]

ForkedName(p) == IF target[p] = ForkFailed THEN "-1" ELSE PidName[target[p]]

(* mutant: the flag stays after a start in the background *)
BackgroundKeeps(p) ==
  /\ st[p] = "forked" /\ mem[p].bg
  /\ \E t \in Add(mem[p].tbl, "!", ForkedName(p)) :
       /\ mem' = [mem EXCEPT ![p] = With(mem[p], t)]
       /\ st' = [st EXCEPT ![p] = IF t.fate = "ok" THEN "read" ELSE t.fate]
  /\ inBg' = [inBg EXCEPT ![p] = @ + 1]
  /\ UNCHANGED <<script, argv, parent, target, code>>

Background(p) ==
  /\ st[p] = "forked" /\ mem[p].bg
  /\ \E t \in Add(mem[p].tbl, "!", ForkedName(p)) :
       /\ mem' = [mem EXCEPT ![p] = [With(mem[p], t) EXCEPT !.bg = FALSE]]
       /\ st' = [st EXCEPT ![p] = IF t.fate = "ok" THEN "read" ELSE t.fate]
  /\ inBg' = [inBg EXCEPT ![p] = @ + 1]
  /\ UNCHANGED <<script, argv, parent, target, code>>

(* waitpid(child, ...): child names no process of ours, any, or by chance one *)
Foreground(p) ==
  /\ st[p] = "forked" /\ ~mem[p].bg
  /\ st' = [st EXCEPT ![p] = "foreground"]
  /\ \E w \in {Nobody, AnyChild} \cup Children(p) : target' = [target EXCEPT ![p] = w]
  /\ UNCHANGED <<script, argv, mem, parent, inBg, code>>

(***************************************************************************)
(* waitpid.                                                                *)
(***************************************************************************)
WaitedFor(p) == IF target[p] = AnyChild THEN Children(p) ELSE Children(p) \cap {target[p]}

(* waitpid is back with the states st1 and the exit code c *)
Waited(p, st1, c) ==
  /\ UNCHANGED <<script, argv, parent, inBg, target, code>>
  /\ \/ /\ st[p] = "wait"
        /\ st' = [st1 EXCEPT ![p] = "read"]
        /\ UNCHANGED mem
     \/ /\ st[p] = "foreground"
        /\ \E t \in Add(mem[p].tbl, "?", c) :
             /\ mem' = [mem EXCEPT ![p] = With(mem[p], t)]
             /\ st' = [st1 EXCEPT ![p] = IF t.fate = "ok" THEN "read" ELSE t.fate]

(* A child has exited, or a signal has ended it: then WEXITSTATUS is 0. *)
Ended(c) == st[c] \in {"done", "crashed"}

Reap(p) ==
  /\ st[p] \in {"wait", "foreground"}
  /\ \E c \in WaitedFor(p) :
       Ended(c) /\ Waited(p, [st EXCEPT ![c] = "reaped"], code[c])

(* mutant: status is not set before waitpid *)
NoChildFails(p) ==
  /\ st[p] \in {"wait", "foreground"} /\ WaitedFor(p) = {}
  /\ Waited(p, st, "1")

(* waitpid fails and leaves status at 0 *)
NoChild(p) ==
  /\ st[p] \in {"wait", "foreground"} /\ WaitedFor(p) = {}
  /\ Waited(p, st, "0")

(***************************************************************************)
(* The specification.                                                      *)
(***************************************************************************)
ProgramEnds(c) == st[c] = "program" /\ \E v \in Codes : Stops(c, "done", v)

Adds(tables, k, v) == UNION {Add(t, k, v) : t \in tables}

(* $1 and $2.  Without any argument argv[pos+2] is past the NULL that ends
   argv: it is the first string of the environment. *)
Arguments(a) ==
  CASE Len(a) = 0 -> Add(NoTable, "2", FirstEnv)
    [] Len(a) = 1 -> Add(NoTable, "1", a[1])
    [] OTHER      -> Adds(Add(NoTable, "1", a[1]), "2", a[2])

Start(t) ==
  [tbl |-> t, args |-> [n \in 0..MaxArgs |-> Junk], bg |-> FALSE, inPOS |-> -1,
   outPOS |-> -1, stdin |-> NULL, environ |-> <<>>, line |-> 1]

Init ==
  /\ script \in Scripts /\ argv \in Argvs
  /\ \E t \in Arguments(argv) : mem = [p \in Procs |-> Start(t)]
  /\ st = [p \in Procs |-> IF p = 1 THEN "read" ELSE "none"]
  /\ parent = [p \in Procs |-> 0]
  /\ inBg = [p \in Procs |-> 0]
  /\ target = [p \in Procs |-> Nobody]
  /\ code = [p \in Procs |-> "0"]

Builtin(p) ==
  \/ ShowOrChdir(p) \/ Set(p) \/ Unset(p) \/ Export(p) \/ Unexport(p)
  \/ Exit(p) \/ Wait(p) \/ FollowCrashes(p)

Step(p) ==
  \/ ReadLine(p) \/ NoCommand(p) \/ EndOfScript(p) \/ Builtin(p)
  \/ Fork(p) \/ Exec(p) \/ ExecFails(p)
  \/ ForkLooksFailed(p) \/ Background(p) \/ Foreground(p)
  \/ Reap(p) \/ NoChild(p) \/ ProgramEnds(p)

Next == \E p \in Procs : Step(p)

(* The system runs every process that is not blocked in waitpid, and the
   programs end.  Every step of p changes st[p], so that fairness need speak
   of no more. *)
CanMove(p) ==
  \/ st[p] \in {"read", "parsed", "forked", "exec", "program"}
  \/ /\ st[p] \in {"wait", "foreground"}
     /\ WaitedFor(p) = {} \/ \E c \in WaitedFor(p) : Ended(c)

Moves(p) == CanMove(p) /\ st' \in [Procs -> States] /\ st'[p] # st[p]

Fairness == \A p \in Procs : WF_st(Moves(p))

Spec == Init /\ [][Next]_vars /\ Fairness

(***************************************************************************)
(* Properties.                                                             *)
(***************************************************************************)
Shells == {p \in Procs : st[p] \in {"read", "parsed", "wait", "forked", "foreground"}}

AddrOrNone == Structs \cup {NULL, Junk, Endless}

(* The memory of every process and the states of all of them keep to their
   types (xssh.h:25-46). *)
TypeOK ==
  /\ \A p \in Procs :
       /\ mem[p].args \in [0..MaxArgs -> AddrOrNone]
       /\ mem[p].inPOS \in -1..MaxArgs /\ mem[p].outPOS \in -1..MaxArgs
       /\ mem[p].bg \in BOOLEAN /\ mem[p].line \in 1..Len(script) + 1
       /\ mem[p].tbl.fate # "ok" => st[p] \in {"hung", "crashed", "reaped"}
       /\ mem[p].line > 1 => mem[p].args[0] # Junk
  /\ st \in [Procs -> States]
  /\ \A p \in Procs : st[p] = "none" <=> (p # 1 /\ parent[p] = 0)
  /\ code \in [Procs -> Codes]

(* p and the shells it descends from *)
Ancestry[p \in Procs] == IF parent[p] = 0 THEN {p} ELSE {p} \cup Ancestry[parent[p]]

(* $? is 0 or the exit code of a child that this shell, or one it was copied
   from, has waited for - through every order in which children end, and
   although waitpid is given a number nobody wrote (xssh.c:258).  No script
   here sets ? itself. *)
StatusOfAReapedChild ==
  \A p \in Shells :
    LET e == Find(mem[p].tbl, "?")
    IN e \in Structs =>
         mem[p].tbl.value[e] \in
           {"0"} \cup {code[c] : c \in {d \in Procs : st[d] = "reaped" /\ parent[d] \in Ancestry[p]}}

(* Whatever the table has been through, $$ names the shell itself or one it
   was copied from, and $! a child of one of these, or -1 where fork failed:
   a copy that a failed command leaves starts out with both from its parent
   (xssh.c:241, 248, 264).  No script here sets $ or ! itself. *)
PidsOfTheFamily ==
  \A p \in Shells :
    LET own == Find(mem[p].tbl, "$")
        last == Find(mem[p].tbl, "!")
        family == Ancestry[p]
    IN /\ own \in Structs =>
            mem[p].tbl.value[own] \in {PidName[q] : q \in family}
       /\ last \in Structs =>
            mem[p].tbl.value[last] \in
              {"-1"} \cup {PidName[c] : c \in {d \in Procs : parent[d] \in family}}

(* the lines a shell has read that have the word w *)
LinesWith(p, w) ==
  {n \in 1..mem[p].line - 1 : \E i \in DOMAIN script[n] : script[n][i].text = w}

(* A shell starts no more commands in the background than it has read lines
   with &, the flag that is still up included: a line's & may be used by a
   later line, but not twice (xssh.c:90, 257-263). *)
BackgroundsAreAsked ==
  \A p \in Shells :
    inBg[p] + (IF mem[p].bg THEN 1 ELSE 0) <= Cardinality(LinesWith(p, "&"))

(* What a shell keeps from line to line: its memory is of its types, and
   the flag for the background belongs to a line it has read. *)
ShellOK == TypeOK /\ BackgroundsAreAsked


(* Until a line has redirected something, what a command gets as arguments
   are words of its own line, and never what an earlier line or nobody left
   in args (xssh.c:95, 125). *)
OwnArguments ==
  \A p \in Procs :
    LET m == mem[p]
        ws == script[m.line - 1]
    IN /\ st[p] = "parsed"
       /\ \A n \in 1..m.line - 1 : \A i \in DOMAIN script[n] :
            script[n][i].text \notin {"<", ">"}
       => \A n \in 0..MaxArgs :
            (\A h \in 0..n : m.args[h] # NULL)
            => \E i \in DOMAIN ws : m.args[n] = GetVal(m, ws[i])

(* Every shell and every command comes to an end, if only by a crash, the
   copies of the shell that failed commands leave and the shells that wait for
   them included - unless one hangs in a spoilt table, and keeps the others
   waiting. *)
ScriptEnds ==
  <>(\/ \A p \in Procs : st[p] \in {"none", "done", "reaped", "crashed"}
     \/ \E p \in Procs : st[p] = "hung")

(***************************************************************************)
(* What README.md:14 says: "Built-ins for show, set, unset, ...".          *)
(***************************************************************************)
(* A line that begins with the name of a built-in runs it. *)
BuiltinsRun ==
  \A p \in Procs :
    st[p] = "parsed" /\ script[mem[p].line - 1] # <<>> =>
      LET first == script[mem[p].line - 1][1].text
      IN first \in Builtins => Arg(mem[p], 0) = first
=============================================================================
