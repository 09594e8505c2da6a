------------------------------ MODULE EnvTable -----------------------------
(***************************************************************************)
(* The shell's variables: find, add and removeKey of "Simple               *)
(* XSSHell/xssh.h" on the hash table of UtHash.  Which free struct     *)
(* malloc returns is its own affair: add and removeKey give the set of     *)
(* tables that may come out.                                               *)
(***************************************************************************)
EXTENDS UtHash

CONSTANT Malloc(_)  \* those of the free structs that malloc may return

ASSUME MallocAssumption ==
  \A free \in SUBSET Structs :
    Malloc(free) \subseteq free /\ (free # {} => Malloc(free) # {})

Find(t, k) == HashFind(t, k)

(* the pointer add works on: the struct of the key, or a new one *)
Target(t, k) == IF Find(t, k) = NULL THEN Malloc(Structs \ t.used) ELSE {Find(t, k)}

InUse(t, k, e) == IF Find(t, k) = NULL THEN t.used \cup {e} ELSE t.used

(* mutant: the old value stays *)
AddKeeps(t, k, v) ==
  IF Find(t, k) = Endless THEN {[t EXCEPT !.fate = "hung"]}
  ELSE {HashAdd([t EXCEPT !.key[e] = k, !.used = InUse(t, k, e),
                          !.value[e] = IF e \in t.used THEN @ ELSE v], e) :
          e \in Target(t, k)}

(* A struct that is in the table already is entered again. *)
Add(t, k, v) ==
  IF Find(t, k) = Endless THEN {[t EXCEPT !.fate = "hung"]}
  ELSE {HashAdd([t EXCEPT !.key[e] = k, !.value[e] = v, !.used = InUse(t, k, e)], e) :
          e \in Target(t, k)}

(* does anything in the table still lead to e? *)
Linked(t, e) ==
  \/ e \in {t.head, t.tail} \/ \E b \in DOMAIN t.bucket : t.bucket[b].head = e
  \/ \E d \in Structs \ {e} :
       e \in {t.next[d], t.prev[d], t.hhNext[d], t.hhPrev[d]}

(* what is in a struct the table does not lead to is forgotten, but for the
   value, which a command line may still point to *)
Forgotten(t, e) ==
  [t EXCEPT !.key[e] = Junk, !.hashv[e] = 0,
            !.next[e] = NULL, !.prev[e] = NULL,
            !.hhNext[e] = NULL, !.hhPrev[e] = NULL]

(* free: the allocator writes over the first bytes, which hold the key and may
   by chance spell another; the rest of the struct stays *)
Free(t, e) ==
  LET t1 == [t EXCEPT !.used = @ \ {e}]
  IN IF e \notin t.used THEN {[t EXCEPT !.fate = "crashed"]}
     ELSE IF Linked(t, e) THEN {[t1 EXCEPT !.key[e] = g] : g \in Keys \cup {Junk}}
     ELSE {Forgotten(t1, e)}

RemoveKey(t, k) ==
  LET var == Find(t, k)
  IN IF var = Endless THEN {[t EXCEPT !.fate = "hung"]}
     ELSE IF var = NULL THEN {t}
     ELSE Free(HashDelete(t, var), var)
=============================================================================
