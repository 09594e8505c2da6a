------------------------------ MODULE EnvVars ------------------------------
(***************************************************************************)
(* The table of variables under every sequence of set, unset and lookup    *)
(* the commands of a shell can make.  env is what a reader of the commands *)
(* expects the table to hold.                                              *)
(***************************************************************************)
EXTENDS EnvTable, TLC

CONSTANT MaxItems  \* bound on how often a struct is entered

VARIABLES
  table,
  env,       \* the variables set and not unset, with their last value
  reentered, \* has add been called for a key that was in the table?
  removed    \* has a key been removed?

vars == <<table, env, reentered, removed>>

Init == table = NoTable /\ env = <<>> /\ reentered = FALSE /\ removed = FALSE

(* set, export, and the $, ? and ! that runExternal enters *)
Set(k, v) ==
  /\ table.items < MaxItems
  /\ table' \in Add(table, k, v)
  /\ env' = (k :> v) @@ env
  /\ reentered' = (reentered \/ k \in DOMAIN env)
  /\ UNCHANGED removed

(* unset and unexport *)
Unset(k) ==
  /\ table' \in RemoveKey(table, k)
  /\ env' = [q \in DOMAIN env \ {k} |-> env[q]]
  /\ removed' = (removed \/ k \in DOMAIN env)
  /\ UNCHANGED reentered

(* a word of a command line *)
Lookup(k) ==
  /\ Find(table, k) = Endless
  /\ table' = [table EXCEPT !.fate = "hung"]
  /\ UNCHANGED <<env, reentered, removed>>

Next ==
  /\ table.fate = "ok"
  /\ \E k \in Keys : Unset(k) \/ Lookup(k) \/ \E v \in Values : Set(k, v)

Spec == Init /\ [][Next]_vars

(***************************************************************************)
(* Properties.                                                             *)
(***************************************************************************)
ReadsAs(t, k, v) ==
  /\ Find(t, k) \in Structs
  /\ t.value[Find(t, k)] = v

(* Fields of the table and of the handles keep to what uthash.h declares. *)
TypeOK ==
  /\ table.head \in ElementOrNull /\ table.tail \in ElementOrNull
  /\ table.bucket \in [0..NumBuckets(table) - 1 -> Bucket]
  /\ NumBuckets(table) % InitialBuckets = 0
  /\ table.items \in 0..MaxItems
  /\ table.key \in [Structs -> Keys \cup {Junk}]
  /\ table.value \in [Structs -> Values \cup {Junk}]
  /\ \A link \in {table.next, table.prev, table.hhNext, table.hhPrev} :
       link \in [Structs -> ElementOrNull]
  /\ table.used \subseteq Structs /\ table.fate \in {"ok", "hung", "crashed"}
  /\ DOMAIN env \subseteq Keys /\ \A k \in DOMAIN env : env[k] \in Values

(* find returns the value last set and nothing for what was never set or was
   unset, in any order of sets and unsets and through every expansion of the
   buckets, as long as no variable that exists is set again (xssh.h:49-76). *)
LooksUpWhatWasSet ==
  ~reentered =>
    \A k \in Keys : IF k \in DOMAIN env THEN ReadsAs(table, k, env[k])
                    ELSE Find(table, k) = NULL

(* Until a variable is set again, the table passes the check uthash.h:285
   makes of it, and no operation hangs or crashes. *)
SoundUntilReentered == ~reentered => HashFsck(table) /\ table.fate = "ok"

(* Until a variable is set again the table is a map, and the links that    *)
(* make it one are sound (xssh.h:49-76).                                   *)
MapUntilReentered == TypeOK /\ LooksUpWhatWasSet /\ SoundUntilReentered


(* Setting a variable again spoils the links (uthash.h:193, 625), but while
   nothing is removed it does not spoil what is read of a variable that has
   its bucket for itself. *)
AloneKeepsValue ==
  ~removed /\ table.fate = "ok" =>
    \A k \in DOMAIN env :
      (\A q \in DOMAIN env \ {k} :
         HashOf[q] % InitialBuckets # HashOf[k] % InitialBuckets)
      => ReadsAs(table, k, env[k])

(* While nothing is removed, a set that comes back is seen by the next lookup,
   whatever setting variables again has made of the links: add enters the
   struct at the front of its chain (xssh.h:63). *)
SetIsSeen ==
  [][\A k \in Keys, v \in Values :
       Set(k, v) /\ ~removed /\ table'.fate = "ok" => ReadsAs(table', k, v)]_vars
=============================================================================
