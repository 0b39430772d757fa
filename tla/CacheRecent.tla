----------------------------- MODULE CacheRecent -----------------------------
(***************************************************************************)
(* What a cache of Size entries promises: it remembers the last Size puts, *)
(* newest first, and answers a lookup with the newest that has not expired.*)
(***************************************************************************)
EXTENDS Naturals

CONSTANTS Keys, Values, NoKey, NoValue, Size, Ttl

VARIABLES recent, now, answer

Blank == [key |-> NoKey, value |-> NoValue, expires |-> 0]

Init ==
  /\ recent = [d \in 1..Size |-> Blank]
  /\ now = 0
  /\ answer = [key |-> NoKey, hit |-> FALSE, value |-> NoValue]

Put(k, v) ==
  /\ recent' = [d \in 1..Size |->
                  IF d = 1 THEN [key |-> k, value |-> v, expires |-> now + Ttl]
                           ELSE recent[d - 1]]
  /\ UNCHANGED <<now, answer>>

Good(d, k) == recent[d].key = k /\ recent[d].expires > now

Hit(k) ==
  \E d \in 1..Size :
    /\ Good(d, k) /\ \A e \in 1..(d - 1) : ~Good(e, k)
    /\ answer' = [key |-> k, hit |-> TRUE, value |-> recent[d].value]
    /\ UNCHANGED <<recent, now>>

Miss(k) ==
  /\ \A d \in 1..Size : ~Good(d, k)
  /\ answer' = [key |-> k, hit |-> FALSE, value |-> NoValue]
  /\ UNCHANGED <<recent, now>>

Tick == now' = now + 1 /\ UNCHANGED <<recent, answer>>

Next ==
  \/ \E k \in Keys, v \in Values : Put(k, v)
  \/ \E k \in Keys : Hit(k) \/ Miss(k)
  \/ Tick

Spec == Init /\ [][Next]_<<recent, now, answer>>
=============================================================================
