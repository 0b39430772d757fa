-------------------------------- MODULE Cache2 --------------------------------
(***************************************************************************)
(* cache2_t (sider.cpp): the ring buffer in front of file lookups.  Every  *)
(* operation runs under the cache's own critical section, so each is one   *)
(* step.  A module that uses the cache extends this one.                   *)
(***************************************************************************)
EXTENDS Integers

CONSTANTS
  Keys,     \* file names
  Values,   \* what is remembered about a name, NULL included
  NoKey,    \* the empty string of zeroed memory
  NoValue,  \* NULL
  Size,     \* _data_count; the configuration rounds it to a power of 2
  Ttl       \* _ttl_msec, in ticks of the clock

ASSUME CacheAssumption ==
  /\ Size \in Nat \ {0} /\ Ttl \in Nat \ {0}
  /\ NoKey \notin Keys /\ NoValue \in Values

VARIABLES
  data,  \* _data
  next,  \* _next, the slot the next put() fills
  now    \* GetTickCount64()

cache == <<data, next>>

Slots == 0..(Size - 1)
Entry == [key : Keys \cup {NoKey}, value : Values, expires : Nat]

CacheTypeOK == data \in [Slots -> Entry] /\ next \in Slots /\ now \in Nat

CacheInit ==
  /\ data = [i \in Slots |-> [key |-> NoKey, value |-> NoValue, expires |-> 0]]
  /\ next = 0 /\ now = 0

\* (i + 1) & _max_idx
After(i) == IF i + 1 = Size THEN 0 ELSE i + 1

\* The slot filled d puts ago: d applications of (i - 1) & _max_idx.
Back(d) == IF d <= next THEN next - d ELSE next - d + Size

\* Mutant of Scanned: the loop ends before it has looked at slot next itself.
ScannedTooFew == 1..(Size - 1)

\* How far back lookup() goes: all the way round to slot next.
Scanned == 1..Size

\* lookup() meets the slot d puts ago before the one e puts ago.
Newer(d, e) == d < e

\* Mutant of Live: an entry is still good at its time of expiry.
LiveTooLong(e) == e.expires >= now

Live(e) == e.expires > now

\* How many puts ago the entries that lookup(k) may return were stored.
Matches(k) == {d \in Scanned : data[Back(d)].key = k /\ Live(data[Back(d)])}

Found(k) == Matches(k) # {}

\* The slot of the first entry that lookup(k) accepts.
Hit(k) == Back(CHOOSE d \in Matches(k) : \A e \in Matches(k) \ {d} : Newer(d, e))

\* lookup(k), when it finds something.
Lookup(k) == data[Hit(k)].value

Stored(k, v) == [key |-> k, value |-> v, expires |-> now + Ttl]

Put(k, v) ==
  /\ data' = [data EXCEPT ![next] = Stored(k, v)]
  /\ next' = After(next)
  /\ UNCHANGED now

Tick == now' = now + 1 /\ UNCHANGED cache
=============================================================================
