---------------------------- MODULE Cache2Clients ----------------------------
(***************************************************************************)
(* The cache on its own, used in every way its callers could use it: any   *)
(* puts and lookups, in any order, while time passes.                      *)
(***************************************************************************)
EXTENDS Cache2

VARIABLE answer  \* what the last lookup() reported

clientVars == <<data, next, now, answer>>

ClientsInit ==
  /\ CacheInit
  /\ answer = [key |-> NoKey, hit |-> FALSE, value |-> NoValue]

put(k, v) == Put(k, v) /\ UNCHANGED answer

lookup(k) ==
  /\ answer' = IF Found(k) THEN [key |-> k, hit |-> TRUE, value |-> Lookup(k)]
                           ELSE [key |-> k, hit |-> FALSE, value |-> NoValue]
  /\ UNCHANGED <<data, next, now>>

ClientsNext ==
  \/ \E k \in Keys, v \in Values : put(k, v)
  \/ \E k \in Keys : lookup(k)
  \/ Tick /\ UNCHANGED answer

ClientsSpec == ClientsInit /\ [][ClientsNext]_clientVars
-----------------------------------------------------------------------------
(* The clock and the ring index never leave their ranges, every slot holds *)
(* an entry (zeroed memory included) and an answer is about a key.         *)
ClientsTypeOK ==
  /\ CacheTypeOK
  /\ answer \in [key : Keys \cup {NoKey}, hit : BOOLEAN, value : Values]

Recent == INSTANCE CacheRecent WITH recent <- [d \in 1..Size |-> data[Back(d)]]

(* The ring buffer is the list of the last Size puts: a lookup finds the   *)
(* newest of them that is about its key and has not expired, wherever the  *)
(* ring has wrapped, and reports a miss only if there is none.             *)
ImplementsRecent == Recent!Spec
=============================================================================
