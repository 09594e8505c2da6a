------------------------------- MODULE MCXssh ------------------------------
(***************************************************************************)
(* Three processes and scripts of three lines.  $1 and $2 are commands of   *)
(* every kind; a word "xno" stands for the variable "no", as $no would.    *)
(***************************************************************************)
EXTENDS Xssh

CONSTANTS e1, e2, e3, e4, e5, e6

Ref(k) == [text |-> "$" \o k, tail |-> k]

Mark(w) == [text |-> w, tail |-> ""]

MCArgvs == {<<>>, <<"ls", "exit">>, <<"no", "set">>, <<"wait", "ls">>,
            <<"unset", "ls">>, <<"export", "show">>, <<"unexport", "no">>}

MCStrings == {"1", "2", "$", "?", "!", "0", "255", "-1", "p1", "p2", "p3", "E=1", "ls", "no", "how", ""}
                \cup Builtins

Run == <<Ref("1")>>
RunOther == <<Ref("2")>>
RunBehind == <<Ref("1"), Mark("&")>>
WithArguments == <<Ref("1"), Ref("2"), Ref("2")>>
Redirect == <<Mark("<"), [text |-> "f", tail |-> ""]>>
Two == <<Ref("1"), Ref("2")>>
TwoOther == <<Ref("2"), Ref("1")>>
Literal == <<[text |-> "show", tail |-> "how"], Ref("1")>>
ByTail == <<[text |-> "xno", tail |-> "no"], Ref("?")>>

MCScripts ==
  [1..3 -> {Run, RunBehind, RunOther}] \cup [1..3 -> {Redirect, WithArguments, RunOther}]
    \cup {<<Literal, WithArguments, ByTail>>, <<RunOther, ByTail, RunBehind>>,
            <<Redirect, Two, RunOther>>, <<Redirect, TwoOther, RunOther>>}

MCPidName == <<"p1", "p2", "p3">>

MCMalloc(free) == IF free = {} THEN {} ELSE {CHOOSE e \in free : TRUE}

(* buckets as HASH_JEN and 32 buckets make them, for the names of real ones *)
MCHashOf ==
  [k \in MCStrings |->
     CASE k = "1" -> 15 [] k = "2" -> 30 [] k = "$" -> 11 [] k = "?" -> 12
       [] k = "!" -> 17 [] k = "ls" -> 11 [] k = "set" -> 26 [] k = "wait" -> 17
       [] OTHER -> 3]
=============================================================================
