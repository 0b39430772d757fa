----------------------------- MODULE LiveCpkProofs ----------------------------
(***************************************************************************)
(* The key cache on its own and LiveCPK, which is built on it.  cache2_t   *)
(* is the list of its last Size puts, for every Size, every time to live   *)
(* and every set of keys and values; and for any loaders, modules, roots   *)
(* and changes of the world, what LiveCPK serves is out of date for no     *)
(* longer than the time to live, and a request is about one file.          *)
(***************************************************************************)
EXTENDS LiveCpk, Cache2Clients, WellFoundedInduction, TLAPS

(* Walking back from the next slot never leaves the ring.                  *)
LEMMA BackIsASlot ==
  ASSUME next \in Slots, NEW d \in 1..Size
  PROVE  Back(d) \in Slots
BY CacheAssumption DEF Slots, Back

(* A put fills the slot that lookups then meet first, and every other put  *)
(* is one step older than it was.                                          *)
LEMMA PutShifts ==
  ASSUME next \in Slots, next' = After(next), NEW d \in 1..Size
  PROVE  /\ d = 1 => Back(d)' = next
         /\ d # 1 => /\ d - 1 \in 1..Size
                     /\ Back(d)' = Back(d - 1)
                     /\ Back(d)' # next
BY CacheAssumption DEF Slots, Back, After

(* A lookup that may answer has a newest entry to answer with, and Hit     *)
(* names it: WFMin gives the least of a set of numbers.                    *)
LEMMA NewestMatch ==
  ASSUME NEW k, Found(k)
  PROVE  \E d \in Matches(k) :
           /\ Hit(k) = Back(d)
           /\ \A e \in Matches(k) \ {d} : d < e
<1> DEFINE Best(d) == \A e \in Matches(k) \ {d} : Newer(d, e)
<1>1. Matches(k) \subseteq Nat /\ Matches(k) # {}
  BY CacheAssumption DEF Matches, Scanned, Found
<1>2. \E d \in Matches(k) : \A e \in Matches(k) : ~(<<e, d>> \in OpToRel(<, Nat))
  BY <1>1, NatLessThanWellFounded, WFMin, Zenon
<1>3. \E d \in Matches(k) : \A e \in Matches(k) : ~(e < d)
  BY <1>1, <1>2 DEF OpToRel
<1>4. \E d \in Matches(k) : Best(d)
  BY <1>1, <1>3 DEF Newer
<1> DEFINE c == CHOOSE d \in Matches(k) : Best(d)
<1>5. c \in Matches(k) /\ Best(c)
  BY <1>4, Zenon
<1>6. Hit(k) = Back(c)
  BY Zenon DEF Hit
<1> QED BY <1>5, <1>6 DEF Newer

-----------------------------------------------------------------------------
(* The cache starts well typed.                                            *)
LEMMA ClientsInitTypeOK == ClientsInit => ClientsTypeOK
BY CacheAssumption
   DEF ClientsInit, CacheInit, ClientsTypeOK, CacheTypeOK, Slots, Entry

(* What a lookup reports has the type of an answer.                        *)
LEMMA LookupTypeOK ==
  ASSUME ClientsTypeOK, NEW k \in Keys, lookup(k)
  PROVE  ClientsTypeOK'
<1>1. UNCHANGED <<data, next, now>>
  BY DEF lookup
<1>2. Found(k) => Lookup(k) \in Values
  <2>1. SUFFICES ASSUME Found(k) PROVE Lookup(k) \in Values
    OBVIOUS
  <2>2. PICK d \in Matches(k) : Hit(k) = Back(d)
    BY <2>1, NewestMatch, Zenon
  <2>3. Back(d) \in Slots
    BY BackIsASlot DEF Matches, Scanned, ClientsTypeOK, CacheTypeOK
  <2> QED BY <2>2, <2>3 DEF Lookup, ClientsTypeOK, CacheTypeOK, Entry
<1>3. answer' \in [key : Keys \cup {NoKey}, hit : BOOLEAN, value : Values]
  BY <1>2, CacheAssumption DEF lookup
<1> QED BY <1>1, <1>3 DEF ClientsTypeOK, CacheTypeOK, Slots

(* Every step keeps the types: the ring index wraps inside the ring.       *)
LEMMA ClientsTypeOKStep == ClientsTypeOK /\ [ClientsNext]_clientVars => ClientsTypeOK'
<1> SUFFICES ASSUME ClientsTypeOK, [ClientsNext]_clientVars PROVE ClientsTypeOK'
  OBVIOUS
<1> USE DEF ClientsTypeOK, CacheTypeOK
<1>1. CASE UNCHANGED clientVars
  BY <1>1 DEF clientVars, Slots
<1>2. ASSUME NEW k \in Keys, NEW v \in Values, put(k, v) PROVE ClientsTypeOK'
  <2>1. next' \in Slots
    BY <1>2, CacheAssumption DEF put, Put, After, Slots
  <2>2. Stored(k, v) \in Entry
    BY CacheAssumption DEF Stored, Entry
  <2> QED BY <1>2, <2>1, <2>2 DEF put, Put, Slots
<1>3. ASSUME NEW k \in Keys, lookup(k) PROVE ClientsTypeOK'
  BY <1>3, LookupTypeOK DEF ClientsTypeOK
<1>4. CASE Tick /\ UNCHANGED answer
  BY <1>4 DEF Tick, cache, Slots
<1> QED BY <1>1, <1>2, <1>3, <1>4 DEF ClientsNext

(* The state of the cache always has its type.                             *)
THEOREM CacheTypeCorrect == ClientsSpec => []ClientsTypeOK
BY ClientsInitTypeOK, ClientsTypeOKStep, PTL DEF ClientsSpec

-----------------------------------------------------------------------------
(* Zeroed memory is the list of no puts.                                   *)
LEMMA InitRefines == ClientsInit => Recent!Init
<1> SUFFICES ASSUME ClientsInit PROVE Recent!Init
  OBVIOUS
<1>1. next \in Slots
  BY CacheAssumption DEF ClientsInit, CacheInit, Slots
<1>2. \A d \in 1..Size : data[Back(d)] = [key |-> NoKey, value |-> NoValue, expires |-> 0]
  BY <1>1, BackIsASlot DEF ClientsInit, CacheInit
<1> QED BY <1>2 DEF ClientsInit, CacheInit, Recent!Init, Recent!Blank

(* A put of the ring is a put of the list.                                 *)
LEMMA PutRefines ==
  ASSUME ClientsTypeOK, NEW k \in Keys, NEW v \in Values, put(k, v)
  PROVE  Recent!Put(k, v)
<1>1. next \in Slots /\ next' = After(next) /\ data' = [data EXCEPT ![next] = Stored(k, v)]
  BY DEF ClientsTypeOK, CacheTypeOK, put, Put
<1>2. ASSUME NEW d \in 1..Size
      PROVE data'[Back(d)'] = IF d = 1 THEN Stored(k, v) ELSE data[Back(d - 1)]
  <2>1. CASE d = 1
    BY <1>1, <2>1, PutShifts DEF ClientsTypeOK, CacheTypeOK
  <2>2. CASE d # 1
    <3>1. Back(d)' = Back(d - 1) /\ Back(d)' # next /\ d - 1 \in 1..Size
      BY <1>1, <2>2, PutShifts, Zenon
    <3>2. Back(d - 1) \in Slots
      BY <1>1, <3>1, BackIsASlot, Zenon
    <3> QED BY <1>1, <2>2, <3>1, <3>2 DEF ClientsTypeOK, CacheTypeOK
  <2> QED BY <2>1, <2>2
<1>3. ASSUME NEW d \in 1..Size
      PROVE [e \in 1..Size |-> data[Back(e)]]' [d] =
              IF d = 1 THEN Stored(k, v) ELSE [e \in 1..Size |-> data[Back(e)]][d - 1]
  BY <1>2, CacheAssumption
<1> QED BY <1>2, <1>3, CacheAssumption DEF Recent!Put, put, Put, Stored

(* A lookup of the ring answers as a lookup of the list.                   *)
LEMMA LookupRefines ==
  ASSUME ClientsTypeOK, NEW k \in Keys, lookup(k)
  PROVE  Recent!Hit(k) \/ Recent!Miss(k)
<1>1. \A d \in 1..Size : Recent!Good(d, k) <=> d \in Matches(k)
  BY DEF Recent!Good, Matches, Scanned, Live
<1>2. UNCHANGED <<data, next, now>>
  BY DEF lookup
<1>3. UNCHANGED <<[d \in 1..Size |-> data[Back(d)]], now>>
  BY <1>2 DEF Back
<1>4. CASE Found(k)
  <2>1. PICK d \in Matches(k) : Hit(k) = Back(d) /\ \A e \in Matches(k) \ {d} : d < e
    BY <1>4, NewestMatch, Zenon
  <2>2. d \in 1..Size
    BY DEF Matches, Scanned
  <2>3. \A e \in 1..(d - 1) : e \in 1..Size /\ e \notin Matches(k)
    BY <2>1, <2>2, CacheAssumption
  <2>4. answer' = [key |-> k, hit |-> TRUE, value |-> data[Back(d)].value]
    BY <1>4, <2>1 DEF lookup, Lookup
  <2> QED BY <1>1, <1>3, <2>1, <2>2, <2>3, <2>4 DEF Recent!Hit
<1>5. CASE ~Found(k)
  BY <1>1, <1>3, <1>5 DEF Recent!Miss, Found, lookup
<1> QED BY <1>4, <1>5

(* Every step of the ring is a step of the list, or none.                  *)
LEMMA StepRefines ==
  ClientsTypeOK /\ [ClientsNext]_clientVars =>
    [Recent!Next]_<<[d \in 1..Size |-> data[Back(d)]], now, answer>>
<1> SUFFICES ASSUME ClientsTypeOK, [ClientsNext]_clientVars
             PROVE [Recent!Next]_<<[d \in 1..Size |-> data[Back(d)]], now, answer>>
  OBVIOUS
<1>1. CASE UNCHANGED clientVars
  BY <1>1 DEF clientVars, Back
<1>2. ASSUME NEW k \in Keys, NEW v \in Values, put(k, v) PROVE Recent!Next
  BY <1>2, PutRefines DEF Recent!Next
<1>3. ASSUME NEW k \in Keys, lookup(k) PROVE Recent!Next
  BY <1>3, LookupRefines DEF Recent!Next
<1>4. CASE Tick /\ UNCHANGED answer
  BY <1>4 DEF Tick, cache, Back, Recent!Next, Recent!Tick
<1> QED BY <1>1, <1>2, <1>3, <1>4 DEF ClientsNext

(* cache2_t implements the list of its last Size puts: a lookup misses     *)
(* nothing that is there and prefers the newest, wherever the ring wraps.  *)
THEOREM CacheRefinement == ClientsSpec => ImplementsRecent
<1>1. ClientsTypeOK /\ [ClientsNext]_clientVars =>
        [Recent!Next]_<<[d \in 1..Size |-> data[Back(d)]], now, answer>>
  BY StepRefines
<1> QED BY InitRefines, ClientsInitTypeOK, ClientsTypeOKStep, <1>1, PTL
        DEF ClientsSpec, ImplementsRecent, Recent!Spec

-----------------------------------------------------------------------------
(* LiveCPK.                                                                *)

(* What a lookup finds is in the ring and has not expired.                 *)
LEMMA LookupFinds ==
  ASSUME CacheTypeOK, NEW k, Found(k)
  PROVE  \E s \in Slots : /\ data[s].key = k /\ Live(data[s])
                          /\ Lookup(k) = data[s].value
<1>1. PICK d \in Matches(k) : Hit(k) = Back(d)
  BY NewestMatch, Zenon
<1>2. d \in 1..Size /\ data[Back(d)].key = k /\ Live(data[Back(d)])
  BY DEF Matches, Scanned
<1>3. Back(d) \in Slots
  BY <1>2, BackIsASlot DEF CacheTypeOK
<1> QED BY <1>1, <1>2, <1>3 DEF Lookup

(* The least of a set of numbers, once it is known ...                     *)
LEMMA FirstOfIs ==
  ASSUME NEW S \in SUBSET Nat, NEW m \in S, \A e \in S : ~(e < m)
  PROVE  FirstOf(S) = m
<1>1. \A e \in S : m <= e
  OBVIOUS
<1>2. \A x \in S : (\A e \in S : x <= e) => x = m
  BY <1>1
<1> QED BY <1>1, <1>2 DEF FirstOf

(* ... and there is one.                                                   *)
LEMMA FirstOfIsThere ==
  ASSUME NEW S \in SUBSET Nat, S # {}
  PROVE  FirstOf(S) \in S
<1>1. \E x \in S : \A y \in S : ~(<<y, x>> \in OpToRel(<, Nat))
  BY NatLessThanWellFounded, WFMin, Zenon
<1>2. \E x \in S : \A y \in S : ~(y < x)
  BY <1>1 DEF OpToRel
<1> QED BY <1>2, FirstOfIs

(* A rewritten name is a name.                                             *)
LEMMA RewrittenIsName ==
  ASSUME NEW c \in Contexts, NEW n \in Keys
  PROVE  Rewritten(c, n) \in Keys
<1>1. CASE Rewriters(c, n) = {}
  BY <1>1 DEF Rewritten
<1>2. CASE Rewriters(c, n) # {}
  <2>1. Rewriters(c, n) \in SUBSET Nat
    BY LiveCpkAssumption DEF Rewriters
  <2>2. FirstOf(Rewriters(c, n)) \in Rewriters(c, n)
    BY <1>2, <2>1, FirstOfIsThere
  <2> QED BY <1>2, <2>2, LiveCpkAssumption DEF Rewritten, Rewriters, NoName
<1> QED BY <1>1, <1>2

-----------------------------------------------------------------------------
(* What a loader can do next.                                              *)
LoaderStep(l) ==
  \/ \E n \in Files : Begin(l, n)
  \/ GetSize(l) \/ Read(l)
  \/ Cached(l) \/ DoRewrite(l) \/ ModuleMakeKey(l) \/ ModuleGetFilepath(l)
  \/ HaveLiveFile(l) \/ CacheIt(l)
  \/ ServeLookup(l) \/ ServeGetSize(l) \/ ServeRead(l)

(* Types.                                                                  *)

(* Where a loader is determines what it holds: in a call there is a name,  *)
(* and after the lookup the buffer shows one.                              *)
Holding ==
  \A l \in Loaders :
    /\ pc[l] \in Resolving \cup {"cached", "serve"} => name[l] \in Keys
    /\ pc[l] \in Resolving \cup {"cached", "serve"} <=> op[l] # "none"
    /\ pc[l] = "path" => i[l] <= NumModules
    /\ pc[l] \in {"looked_up", "sized", "read"} \/ op[l] \in {"get_size", "read"} =>
         shown[l] \in Keys

Types == TypeOK /\ Holding

LEMMA InitTypes == Init => Types
<1> SUFFICES ASSUME Init PROVE Types
  OBVIOUS
<1> USE LiveCpkAssumption, CacheAssumption DEF NoName, NoPath, Paths
<1>1. CacheTypeOK
  BY DEF Init, CacheInit, CacheTypeOK, Slots, Entry
<1>2. ctx \in Contexts /\ disk \subseteq Paths /\ changes \in 0..MaxChanges
  BY DEF Init
<1>3. key \in [Loaders -> GivenKeys]
  BY DEF Init, GivenKeys
<1>4. now = 0
  BY DEF Init, CacheInit
<1> QED BY <1>1, <1>2, <1>3, <1>4 DEF Init, Types, TypeOK, Holding, Resolving

(* The cache keeps its types.                                              *)
LEMMA PutTypes ==
  ASSUME CacheTypeOK, NEW k \in Keys, NEW v \in Values, Put(k, v)
  PROVE  CacheTypeOK'
<1>1. next' \in Slots
  BY CacheAssumption DEF CacheTypeOK, Put, After, Slots
<1>2. Stored(k, v) \in Entry
  BY CacheAssumption DEF CacheTypeOK, Stored, Entry
<1> QED BY <1>1, <1>2 DEF Put, CacheTypeOK, Slots

LEMMA SameCacheTypes == CacheTypeOK /\ UNCHANGED <<data, next, now>> => CacheTypeOK'
BY DEF CacheTypeOK, Slots

LEMMA TypesStep == Types /\ [Next]_vars => Types'
<1> SUFFICES ASSUME Types, [Next]_vars PROVE Types'
  OBVIOUS
<1> USE LiveCpkAssumption, CacheAssumption
    DEF Types, TypeOK, Holding, Resolving, NoName, NoPath, Paths
<1>1. CASE UNCHANGED vars
  BY <1>1, SameCacheTypes DEF vars, call, buffer, world, request, ghosts
<1>2. ASSUME NEW l \in Loaders, NEW n \in Files, Begin(l, n) PROVE Types'
  BY <1>2, SameCacheTypes DEF Begin, Enter, world, ghosts
<1>3. ASSUME NEW l \in Loaders, GetSize(l) PROVE Types'
  BY <1>3, SameCacheTypes DEF GetSize, Enter, call, buffer, world, request, ghosts
<1>4. ASSUME NEW l \in Loaders, Read(l) PROVE Types'
  BY <1>4, SameCacheTypes DEF Read, Enter, buffer, world, request, ghosts
<1>5. ASSUME NEW l \in Loaders, Cached(l) PROVE Types'
  <2>1. Found(name[l]) => Lookup(name[l]) \in Values
    <3>1. SUFFICES ASSUME Found(name[l]) PROVE Lookup(name[l]) \in Values
      OBVIOUS
    <3>2. PICK s \in Slots : Lookup(name[l]) = data[s].value
      BY <3>1, LookupFinds
    <3> QED BY <3>2 DEF CacheTypeOK, Entry
  <2> QED BY <1>5, <2>1, SameCacheTypes DEF Cached, buffer, world, request, ghosts
<1>6. ASSUME NEW l \in Loaders, DoRewrite(l) PROVE Types'
  BY <1>6, SameCacheTypes DEF DoRewrite, MoreModules, buffer, world, request, ghosts
<1>7. ASSUME NEW l \in Loaders, ModuleMakeKey(l) PROVE Types'
  BY <1>7, SameCacheTypes
     DEF ModuleMakeKey, MoreModules, GivenKeys, buffer, world, request, ghosts
<1>8. ASSUME NEW l \in Loaders, ModuleGetFilepath(l) PROVE Types'
  BY <1>8, SameCacheTypes
     DEF ModuleGetFilepath, ProvidedBy, GivenKeys, buffer, world, request, ghosts
<1>9. ASSUME NEW l \in Loaders, HaveLiveFile(l) PROVE Types'
  BY <1>9, SameCacheTypes DEF HaveLiveFile, buffer, world, request, ghosts
<1>10. ASSUME NEW l \in Loaders, CacheIt(l) PROVE Types'
  <2>1. CacheTypeOK'
    BY <1>10, PutTypes DEF CacheIt, Remembered
  <2> QED BY <1>10, <2>1 DEF CacheIt, Remembered, Put, CacheTypeOK, call, buffer, world, request
<1>11. ASSUME NEW l \in Loaders, ServeLookup(l) PROVE Types'
  BY <1>11, SameCacheTypes DEF ServeLookup, Return, world, request, ghosts
<1>12. ASSUME NEW l \in Loaders, ServeGetSize(l) PROVE Types'
  BY <1>12, SameCacheTypes DEF ServeGetSize, Restored, Return, world, ghosts
<1>13. ASSUME NEW l \in Loaders, ServeRead(l) PROVE Types'
  BY <1>13, SameCacheTypes DEF ServeRead, Return, world, ghosts
<1>14. CASE ChangeContext
  BY <1>14, SameCacheTypes DEF ChangeContext, Disturb, CacheTypeOK, call, buffer
<1>15. CASE ChangeDisk
  BY <1>15, SameCacheTypes DEF ChangeDisk, Disturb, CacheTypeOK, call, buffer
<1>16. CASE Advance
  BY <1>16 DEF Advance, Tick, cache, CacheTypeOK, Slots, call, buffer, world, request, ghosts
<1> QED BY <1>1, <1>2, <1>3, <1>4, <1>5, <1>6, <1>7, <1>8, <1>9, <1>10, <1>11, <1>12,
           <1>13, <1>14, <1>15, <1>16 DEF Next

-----------------------------------------------------------------------------
(* What is cached and what is being worked out.                            *)

(* An entry made after the last change by a loader that did not begin      *)
(* before it; it expires that late.                                        *)
Current(e) == e.expires > settledAt + Ttl

CacheInv ==
  \A s \in Slots :
    /\ data[s].expires <= now + Ttl
    /\ Current(data[s]) => data[s].value = Content(ctx, disk, data[s].key)

(* How far a loader has come, if nothing has changed since it began: what  *)
(* it has asked so far did not have the file.                              *)
Resolved(l) ==
  /\ pc[l] \in {"key", "path"} =>
       \A m \in 1..(i[l] - 1) : ModulePath(m, ctx, name[l]) \notin disk
  /\ pc[l] = "path" => key[l] = MakeKey(i[l], ctx, name[l])
  /\ pc[l] = "root" =>
       /\ Providers(ctx, disk, name[l]) = {}
       /\ \A r \in 1..(i[l] - 1) : RootPath(r, name[l]) \notin disk
  /\ pc[l] = "store" => fn[l] = Content(ctx, disk, name[l])

ResolveInv == \A l \in Loaders \ behind : Resolved(l)

FreshInv == Types /\ CacheInv /\ ResolveInv

LEMMA InitFresh == Init => FreshInv
<1> SUFFICES ASSUME Init PROVE FreshInv
  OBVIOUS
<1>1. CacheInv
  BY CacheAssumption DEF Init, CacheInit, CacheInv, Current
<1>2. ResolveInv
  BY DEF Init, ResolveInv, Resolved
<1> QED BY <1>1, <1>2, InitTypes DEF FreshInv

(* The module that has the file is the first that has it, ...              *)
LEMMA ModuleIsFirst ==
  ASSUME FreshInv, NEW l \in Loaders \ behind, pc[l] = "path",
         FilePath(i[l], ctx, name[l], key[l]) \in disk
  PROVE  FilePath(i[l], ctx, name[l], key[l]) = Content(ctx, disk, name[l])
<1> DEFINE S == Providers(ctx, disk, name[l])
<1>1. /\ i[l] \in 1..NumModules /\ key[l] = MakeKey(i[l], ctx, name[l])
      /\ \A m \in 1..(i[l] - 1) : ModulePath(m, ctx, name[l]) \notin disk
  BY LiveCpkAssumption DEF FreshInv, Types, TypeOK, Holding, ResolveInv, Resolved
<1>2. FilePath(i[l], ctx, name[l], key[l]) = ModulePath(i[l], ctx, name[l])
  BY <1>1 DEF ModulePath
<1>3. S \in SUBSET Nat /\ i[l] \in S /\ \A m \in S : ~(m < i[l])
  BY <1>1, <1>2, LiveCpkAssumption DEF Providers
<1>4. FirstOf(S) = i[l]
  BY <1>3, FirstOfIs
<1> QED BY <1>2, <1>3, <1>4 DEF Content

(* ... and so is the root, when no module has it.                          *)
LEMMA RootIsFirst ==
  ASSUME FreshInv, NEW l \in Loaders \ behind, pc[l] = "root",
         i[l] <= NumRoots, RootPath(i[l], name[l]) \in disk
  PROVE  RootPath(i[l], name[l]) = Content(ctx, disk, name[l])
<1> DEFINE S == Holders(disk, name[l])
<1>1. /\ i[l] \in 1..NumRoots /\ Providers(ctx, disk, name[l]) = {}
      /\ \A r \in 1..(i[l] - 1) : RootPath(r, name[l]) \notin disk
  BY LiveCpkAssumption DEF FreshInv, Types, TypeOK, ResolveInv, Resolved
<1>2. S \in SUBSET Nat /\ i[l] \in S /\ \A r \in S : ~(r < i[l])
  BY <1>1, LiveCpkAssumption DEF Holders
<1>3. FirstOf(S) = i[l]
  BY <1>2, FirstOfIs
<1> QED BY <1>1, <1>2, <1>3 DEF Content

LEMMA NobodyHasIt ==
  ASSUME FreshInv, NEW l \in Loaders \ behind, pc[l] = "root", ~(i[l] <= NumRoots)
  PROVE  Content(ctx, disk, name[l]) = NoPath
<1>1. /\ i[l] \in Nat /\ Providers(ctx, disk, name[l]) = {}
      /\ \A r \in 1..(i[l] - 1) : RootPath(r, name[l]) \notin disk
  BY LiveCpkAssumption DEF FreshInv, Types, TypeOK, ResolveInv, Resolved
<1>2. Holders(disk, name[l]) = {}
  BY <1>1, LiveCpkAssumption DEF Holders
<1> QED BY <1>1, <1>2 DEF Content

(* A step that leaves the cache and the world alone keeps what is cached.  *)
LEMMA SameCache ==
  FreshInv /\ UNCHANGED <<data, now, ctx, disk, settledAt>> => CacheInv'
BY DEF FreshInv, CacheInv, Current, Slots

LEMMA PutCache ==
  ASSUME FreshInv, NEW l \in Loaders, CacheIt(l)
  PROVE  CacheInv'
<1>1. /\ data' = [data EXCEPT ![next] = Stored(name[l], fn[l])]
      /\ UNCHANGED <<now, ctx, disk>> /\ pc[l] = "store"
      /\ settledAt' = IF l \in behind THEN now ELSE settledAt
  BY DEF CacheIt, Remembered, Put, world
<1>2. /\ data \in [Slots -> Entry] /\ next \in Slots /\ now \in Nat
      /\ settledAt \in Nat /\ settledAt <= now
  BY DEF FreshInv, Types, TypeOK, CacheTypeOK
<1> SUFFICES ASSUME NEW s \in Slots
             PROVE  /\ data'[s].expires <= now + Ttl
                    /\ data'[s].expires > settledAt' + Ttl =>
                         data'[s].value = Content(ctx, disk, data'[s].key)
  BY <1>1 DEF CacheInv, Current, Slots
<1>3. CASE s = next
  <2>1. data'[s] = [key |-> name[l], value |-> fn[l], expires |-> now + Ttl]
    BY <1>1, <1>2, <1>3 DEF Stored
  <2>2. l \notin behind => fn[l] = Content(ctx, disk, name[l])
    BY <1>1 DEF FreshInv, ResolveInv, Resolved
  <2> QED BY <1>1, <1>2, <2>1, <2>2, CacheAssumption
<1>4. CASE s # next
  <2>1. data'[s] = data[s] /\ data[s].expires \in Nat
    BY <1>1, <1>2, <1>4 DEF Entry
  <2> QED BY <1>1, <1>2, <2>1, CacheAssumption DEF FreshInv, CacheInv, Current
<1> QED BY <1>3, <1>4

(* After a change nothing that is cached is taken to be current.           *)
LEMMA DisturbFresh == FreshInv /\ Disturb => (CacheInv /\ ResolveInv)'
<1> SUFFICES ASSUME FreshInv, Disturb PROVE (CacheInv /\ ResolveInv)'
  OBVIOUS
<1>1. CacheInv'
  <2>1. \A s \in Slots : data[s].expires \in Nat /\ data[s].expires <= now + Ttl
    BY DEF FreshInv, Types, TypeOK, CacheTypeOK, Entry, CacheInv
  <2>2. now \in Nat
    BY DEF FreshInv, Types, TypeOK, CacheTypeOK
  <2> QED BY <2>1, <2>2, CacheAssumption DEF Disturb, CacheInv, Current, Slots
<1>2. ResolveInv'
  BY DEF Disturb, ResolveInv, Resolved, Resolving
<1> QED BY <1>1, <1>2

LEMMA AdvanceCache == FreshInv /\ Advance => CacheInv'
<1> SUFFICES ASSUME FreshInv, Advance PROVE CacheInv'
  OBVIOUS
<1>1. \A s \in Slots : data[s].expires \in Nat /\ data[s].expires <= now + Ttl
  BY DEF FreshInv, Types, TypeOK, CacheTypeOK, Entry, CacheInv
<1>2. now \in Nat
  BY DEF FreshInv, Types, TypeOK, CacheTypeOK
<1> QED BY <1>1, <1>2, CacheAssumption
        DEF FreshInv, Advance, Tick, cache, world, ghosts, CacheInv, Current, Slots

(* A step of one loader leaves the others where they are.                  *)
LEMMA OthersResolved ==
  ASSUME ResolveInv, NEW l \in Loaders, UNCHANGED <<ctx, disk>>, behind \ {l} \subseteq behind',
         \A o \in Loaders \ {l} :
           pc'[o] = pc[o] /\ i'[o] = i[o] /\ name'[o] = name[o]
           /\ key'[o] = key[o] /\ fn'[o] = fn[o],
         l \notin behind' => Resolved(l)'
  PROVE  ResolveInv'
<1> SUFFICES ASSUME NEW o \in Loaders \ behind' PROVE Resolved(o)'
  BY DEF ResolveInv
<1>1. CASE o = l
  BY <1>1
<1>2. CASE o # l
  <2>1. Resolved(o)
    BY <1>2 DEF ResolveInv
  <2> QED BY <1>2, <2>1 DEF Resolved
<1> QED BY <1>1, <1>2

LEMMA ResolveStep ==
  ASSUME FreshInv, NEW l \in Loaders, LoaderStep(l)
  PROVE  ResolveInv'
<1> USE DEF FreshInv, Types, TypeOK
<1>1. /\ UNCHANGED <<ctx, disk>> /\ behind \ {l} \subseteq behind'
      /\ \A o \in Loaders \ {l} :
           pc'[o] = pc[o] /\ i'[o] = i[o] /\ name'[o] = name[o]
           /\ key'[o] = key[o] /\ fn'[o] = fn[o]
  BY DEF LoaderStep, Begin, GetSize, Read, Cached, DoRewrite, ModuleMakeKey, ModuleGetFilepath,
         HaveLiveFile, CacheIt, ServeLookup, ServeGetSize, ServeRead, Enter, Return,
         call, buffer, world, request, ghosts
<1> SUFFICES ASSUME l \notin behind' PROVE Resolved(l)'
  BY <1>1, OthersResolved
<1>2. CASE \/ \E n \in Files : Begin(l, n)
           \/ GetSize(l) \/ Read(l) \/ Cached(l) \/ CacheIt(l)
           \/ ServeLookup(l) \/ ServeGetSize(l) \/ ServeRead(l)
  <2>1. pc'[l] \notin {"key", "path", "root", "store"}
    BY <1>2 DEF Begin, GetSize, Read, Cached, CacheIt, ServeLookup, ServeGetSize,
                ServeRead, Enter, Return, call
  <2> QED BY <2>1 DEF Resolved
<1> SUFFICES ASSUME DoRewrite(l) \/ ModuleMakeKey(l) \/ ModuleGetFilepath(l) \/ HaveLiveFile(l)
             PROVE  Resolved(l)'
  BY <1>2 DEF LoaderStep
<1>3. l \notin behind /\ Resolved(l) /\ UNCHANGED <<ctx, disk>>
  BY DEF DoRewrite, ModuleMakeKey, ModuleGetFilepath, HaveLiveFile, world, ghosts, ResolveInv
<1>4. CASE DoRewrite(l)
  BY <1>3, <1>4, LiveCpkAssumption DEF DoRewrite, Resolved
<1>5. CASE ModuleMakeKey(l)
  <2>1. CASE MoreModules(l)
    BY <1>3, <1>5, <2>1 DEF ModuleMakeKey, Resolved
  <2>2. CASE ~MoreModules(l)
    <3>1. Providers(ctx, disk, name[l]) = {}
      BY <1>3, <1>5, <2>2, LiveCpkAssumption DEF ModuleMakeKey, MoreModules, Resolved, Providers
    <3>2. pc'[l] = "root" /\ i'[l] = 1 /\ name' = name
      BY <1>5, <2>2 DEF ModuleMakeKey
    <3> QED BY <1>3, <3>1, <3>2 DEF Resolved
  <2> QED BY <2>1, <2>2
<1>6. CASE ModuleGetFilepath(l)
  <2>1. CASE FilePath(i[l], ctx, name[l], key[l]) \in disk
    <3>1. FilePath(i[l], ctx, name[l], key[l]) = Content(ctx, disk, name[l])
      BY <1>3, <1>6, <2>1, ModuleIsFirst DEF ModuleGetFilepath
    <3>2. FilePath(i[l], ctx, name[l], key[l]) # NoPath
      BY <2>1 DEF Paths
    <3> QED BY <1>3, <1>6, <2>1, <3>1, <3>2 DEF ModuleGetFilepath, ProvidedBy, Resolved
  <2>2. CASE FilePath(i[l], ctx, name[l], key[l]) \notin disk
    <3>1. pc'[l] = "key" /\ i'[l] = i[l] + 1 /\ name' = name
      BY <1>6, <2>2 DEF ModuleGetFilepath, ProvidedBy
    <3>2. ModulePath(i[l], ctx, name[l]) \notin disk
      BY <1>3, <1>6, <2>2 DEF ModuleGetFilepath, Resolved, ModulePath
    <3>3. i[l] \in Nat /\ \A m \in 1..(i[l] - 1) : ModulePath(m, ctx, name[l]) \notin disk
      BY <1>3, <1>6, LiveCpkAssumption DEF ModuleGetFilepath, Resolved
    <3> QED BY <1>3, <3>1, <3>2, <3>3 DEF Resolved
  <2> QED BY <2>1, <2>2
<1>7. CASE HaveLiveFile(l)
  <2>1. pc[l] = "root" /\ i[l] \in Nat /\ name' = name
    BY <1>7, LiveCpkAssumption DEF HaveLiveFile
  <2>2. CASE i[l] <= NumRoots /\ RootPath(i[l], name[l]) \in disk
    <3>1. pc'[l] = "store" /\ fn'[l] = RootPath(i[l], name[l])
      BY <1>7, <2>1, <2>2, LiveCpkAssumption DEF HaveLiveFile
    <3>2. RootPath(i[l], name[l]) = Content(ctx, disk, name[l])
      BY <1>3, <2>1, <2>2, RootIsFirst
    <3> QED BY <1>3, <2>1, <3>1, <3>2 DEF Resolved
  <2>3. CASE i[l] <= NumRoots /\ RootPath(i[l], name[l]) \notin disk
    <3>1. pc'[l] = "root" /\ i'[l] = i[l] + 1
      BY <1>7, <2>1, <2>3, LiveCpkAssumption DEF HaveLiveFile
    <3>2. /\ Providers(ctx, disk, name[l]) = {}
          /\ \A r \in 1..(i[l] - 1) : RootPath(r, name[l]) \notin disk
      BY <1>3, <2>1 DEF Resolved
    <3>3. \A r \in 1..(i'[l] - 1) : r \in 1..(i[l] - 1) \/ r = i[l]
      BY <2>1, <3>1
    <3> QED BY <1>3, <2>1, <2>3, <3>1, <3>2, <3>3 DEF Resolved
  <2>4. CASE ~(i[l] <= NumRoots)
    BY <1>3, <1>7, <2>1, <2>4, NobodyHasIt DEF HaveLiveFile, Resolved
  <2> QED BY <2>2, <2>3, <2>4
<1> QED BY <1>4, <1>5, <1>6, <1>7

LEMMA FreshStep == FreshInv /\ [Next]_vars => FreshInv'
<1> SUFFICES ASSUME FreshInv, [Next]_vars PROVE FreshInv'
  OBVIOUS
<1>1. Types'
  BY TypesStep DEF FreshInv
<1>2. CASE UNCHANGED vars
  <2>1. CacheInv'
    BY <1>2, SameCache DEF vars, world, ghosts
  <2>2. ResolveInv'
    BY <1>2 DEF FreshInv, ResolveInv, Resolved, vars, call, world, ghosts
  <2> QED BY <1>1, <2>1, <2>2 DEF FreshInv
<1>3. ASSUME NEW l \in Loaders,
             \/ \E n \in Files : Begin(l, n)
             \/ GetSize(l) \/ Read(l)
             \/ Cached(l) \/ DoRewrite(l) \/ ModuleMakeKey(l) \/ ModuleGetFilepath(l)
             \/ HaveLiveFile(l)
             \/ ServeLookup(l) \/ ServeGetSize(l) \/ ServeRead(l)
      PROVE  FreshInv'
  <2>1. CacheInv'
    BY <1>3, SameCache
       DEF Begin, GetSize, Read, Cached, DoRewrite, ModuleMakeKey, ModuleGetFilepath,
           HaveLiveFile, ServeLookup, ServeGetSize, ServeRead, Return, world, ghosts
  <2>2. ResolveInv'
    BY <1>3, ResolveStep DEF LoaderStep
  <2> QED BY <1>1, <2>1, <2>2 DEF FreshInv
<1>4. ASSUME NEW l \in Loaders, CacheIt(l) PROVE FreshInv'
  BY <1>1, <1>4, PutCache, ResolveStep DEF FreshInv, LoaderStep
<1>5. CASE ChangeContext \/ ChangeDisk
  BY <1>1, <1>5, DisturbFresh DEF FreshInv, ChangeContext, ChangeDisk
<1>6. CASE Advance
  <2>1. ResolveInv'
    BY <1>6 DEF FreshInv, ResolveInv, Resolved, Advance, call, world, ghosts
  <2> QED BY <1>1, <1>6, <2>1, AdvanceCache DEF FreshInv
<1> QED BY <1>2, <1>3, <1>4, <1>5, <1>6 DEF Next

LEMMA FreshAlways == Spec => []FreshInv
BY InitFresh, FreshStep, PTL DEF Spec

(* The loaders' calls and the cache keep their types, for any loaders,     *)
(* modules and roots.                                                      *)
THEOREM LiveCpkTypeCorrect == Spec => []TypeOK
<1>1. FreshInv => TypeOK
  BY DEF FreshInv, Types
<1> QED BY <1>1, FreshAlways, PTL

(* The time to live bounds how long an answer of the cache can be out of   *)
(* date, however many loaders resolve names across a change, for any size  *)
(* of the cache, any modules and roots, and any changes of the context and *)
(* the disk.                                                               *)
THEOREM StalenessIsBounded == Spec => []StaleNoLongerThanTtl
<1>1. FreshInv => StaleNoLongerThanTtl
  <2> SUFFICES ASSUME FreshInv, now >= settledAt + Ttl, NEW s \in Slots, Live(data[s])
               PROVE  data[s].value = Content(ctx, disk, data[s].key)
    BY DEF StaleNoLongerThanTtl
  <2>1. data[s].expires \in Nat /\ now \in Nat /\ settledAt \in Nat
    BY DEF FreshInv, Types, TypeOK, CacheTypeOK, Entry
  <2> QED BY <2>1, CacheAssumption DEF FreshInv, CacheInv, Current, Live
<1> QED BY <1>1, FreshAlways, PTL

-----------------------------------------------------------------------------
(* One request, one file.                                                  *)

(* What is remembered and what is being resolved is a name that nobody     *)
(* rewrites, and before that it is one that nobody asked so far rewrites.  *)
FinalName(l) ==
  /\ pc[l] = "rewrite" =>
       \A m \in 1..(i[l] - 1) : Rewrite(m, ctx, name[l]) = NoName
  /\ pc[l] \in {"key", "path", "root", "store"} => Rewritten(ctx, name[l]) = name[l]

CachedNames ==
  \A s \in Slots : Current(data[s]) => Rewritten(ctx, data[s].key) = data[s].key

NamesInv == CachedNames /\ \A l \in Loaders \ behind : FinalName(l)

(* A request that nothing has disturbed: its calls resolve the real name,  *)
(* and what they have found so far is its file.                            *)
Quiet == behind = {} /\ now >= settledAt + Ttl

Undisturbed(l) ==
  LET real == Rewritten(ctx, asked[l])
      file == Content(ctx, disk, real)
  IN /\ pc[l] # "idle"
     /\ pc[l] \in {"cached", "rewrite"} => Rewritten(ctx, name[l]) = real
     /\ pc[l] \in {"key", "path", "root", "store", "serve"} => name[l] = real
     /\ pc[l] = "serve" => fn[l] = file
     /\ pc[l] = "looked_up" =>
          IF file # NoPath THEN tail[l] = real ELSE tail[l] = NoName /\ shown[l] = real
     /\ pc[l] = "looked_up" \/ op[l] \in {"lookup", "get_size"} => sized[l] = NoPath
     /\ op[l] = "get_size" => file # NoPath
     /\ pc[l] \in {"sized", "read"} => shown[l] = real
     /\ pc[l] \in {"sized", "read"} \/ op[l] = "read" => sized[l] = file
     /\ pc[l] = "read" => opened[l] = file

RequestInv == \A l \in Loaders : asked[l] # NoName => Quiet /\ Undisturbed(l)

IInv == FreshInv /\ NamesInv /\ RequestInv

LEMMA InitIInv == Init => IInv
<1> SUFFICES ASSUME Init PROVE IInv
  OBVIOUS
<1>1. CachedNames
  BY CacheAssumption DEF Init, CacheInit, CachedNames, Current
<1>2. \A l \in Loaders : FinalName(l) /\ asked[l] = NoName
  BY DEF Init, FinalName
<1> QED BY <1>1, <1>2, InitFresh DEF IInv, NamesInv, RequestInv

(* What the loop over the modules makes of a name.                         *)
LEMMA RewriteResult ==
  ASSUME FreshInv, NamesInv, NEW l \in Loaders \ behind, DoRewrite(l), pc'[l] = "key"
  PROVE  name'[l] = Rewritten(ctx, name[l])
<1> DEFINE S == Rewriters(ctx, name[l])
<1>1. /\ pc[l] = "rewrite" /\ i[l] \in Nat \ {0} /\ l \in DOMAIN name
      /\ \A m \in 1..(i[l] - 1) : Rewrite(m, ctx, name[l]) = NoName
  BY LiveCpkAssumption DEF DoRewrite, FreshInv, Types, TypeOK, NamesInv, FinalName
<1>2. CASE MoreModules(l)
  <2>1. /\ Rewrite(i[l], ctx, name[l]) # NoName
        /\ name'[l] = Rewrite(i[l], ctx, name[l])
    BY <1>1, <1>2 DEF DoRewrite
  <2>2. S \in SUBSET Nat /\ i[l] \in S /\ \A m \in S : ~(m < i[l])
    BY <1>1, <1>2, <2>1, LiveCpkAssumption DEF MoreModules, Rewriters
  <2>3. FirstOf(S) = i[l]
    BY <2>2, FirstOfIs
  <2> QED BY <2>1, <2>2, <2>3 DEF Rewritten
<1>3. CASE ~MoreModules(l)
  <2>1. S = {}
    BY <1>1, <1>3, LiveCpkAssumption DEF MoreModules, Rewriters
  <2> QED BY <1>3, <2>1 DEF DoRewrite, Rewritten
<1> QED BY <1>2, <1>3

(* The names stay final through the steps of a loader ...                  *)
LEMMA CachedNamesStep ==
  ASSUME FreshInv, NamesInv, NEW l \in Loaders, CacheIt(l)
  PROVE  CachedNames'
<1>1. /\ data' = [data EXCEPT ![next] = Stored(name[l], fn[l])]
      /\ UNCHANGED <<now, ctx>> /\ pc[l] = "store"
      /\ settledAt' = IF l \in behind THEN now ELSE settledAt
  BY DEF CacheIt, Remembered, Put, world
<1>2. /\ data \in [Slots -> Entry] /\ next \in Slots /\ now \in Nat
      /\ settledAt \in Nat /\ settledAt <= now
  BY DEF FreshInv, Types, TypeOK, CacheTypeOK
<1> SUFFICES ASSUME NEW s \in Slots, data'[s].expires > settledAt' + Ttl
             PROVE  Rewritten(ctx, data'[s].key) = data'[s].key
  BY <1>1 DEF CachedNames, Current, Slots
<1>3. CASE s = next
  <2>1. data'[s] = [key |-> name[l], value |-> fn[l], expires |-> now + Ttl]
    BY <1>1, <1>2, <1>3 DEF Stored
  <2>2. l \notin behind
    BY <1>1, <1>2, <2>1, CacheAssumption
  <2> QED BY <1>1, <2>1, <2>2 DEF NamesInv, FinalName
<1>4. CASE s # next
  <2>1. data'[s] = data[s] /\ data[s].expires \in Nat
    BY <1>1, <1>2, <1>4 DEF Entry
  <2> QED BY <1>1, <1>2, <2>1, CacheAssumption DEF NamesInv, CachedNames, Current
<1> QED BY <1>3, <1>4

LEMMA NamesLoaderStep ==
  ASSUME FreshInv, NamesInv, NEW l \in Loaders, LoaderStep(l)
  PROVE  NamesInv'
<1> USE DEF FreshInv, Types, TypeOK
<1>1. CachedNames'
  <2>1. CASE CacheIt(l)
    BY <2>1, CachedNamesStep
  <2>2. CASE ~CacheIt(l)
    <3>1. UNCHANGED <<data, ctx, settledAt>>
      BY <2>2 DEF LoaderStep, Begin, GetSize, Read, Cached, DoRewrite, ModuleMakeKey,
                  ModuleGetFilepath, HaveLiveFile, ServeLookup, ServeGetSize, ServeRead, Return, world, ghosts
    <3> QED BY <3>1 DEF NamesInv, CachedNames, Current, Slots
  <2> QED BY <2>1, <2>2
<1>2. /\ UNCHANGED ctx /\ behind \ {l} \subseteq behind'
      /\ \A o \in Loaders \ {l} : pc'[o] = pc[o] /\ i'[o] = i[o] /\ name'[o] = name[o]
  BY DEF LoaderStep, Begin, GetSize, Read, Cached, DoRewrite, ModuleMakeKey, ModuleGetFilepath,
         HaveLiveFile, CacheIt, ServeLookup, ServeGetSize, ServeRead, Enter, Return,
         call, buffer, world, request, ghosts
<1>3. ASSUME NEW o \in Loaders \ behind', o # l PROVE FinalName(o)'
  <2>1. FinalName(o)
    BY <1>2, <1>3 DEF NamesInv
  <2> QED BY <1>2, <1>3, <2>1 DEF FinalName
<1>4. ASSUME l \notin behind' PROVE FinalName(l)'
  <2>1. CASE \/ \E n \in Files : Begin(l, n)
             \/ GetSize(l) \/ Read(l) \/ CacheIt(l)
             \/ ServeLookup(l) \/ ServeGetSize(l) \/ ServeRead(l)
    <3>1. pc'[l] \notin Resolving
      BY <2>1 DEF Begin, GetSize, Read, CacheIt, ServeLookup, ServeGetSize,
                  ServeRead, Enter, Return, call, Resolving
    <3> QED BY <3>1 DEF FinalName, Resolving
  <2>2. CASE Cached(l)
    BY <2>2 DEF Cached, FinalName
  <2>3. CASE DoRewrite(l)
    <3>1. l \in Loaders \ behind /\ FinalName(l)
      BY <1>4, <2>3 DEF DoRewrite, ghosts, NamesInv
    <3>2. CASE pc'[l] = "key"
      <4>1. name'[l] = Rewritten(ctx, name[l])
        BY <2>3, <3>1, <3>2, RewriteResult
      <4>2. name[l] \in Keys /\ ctx \in Contexts
        BY <2>3 DEF DoRewrite, Resolving
      <4>3. Rewritten(ctx, name'[l]) = name'[l]
        BY <4>1, <4>2, RewrittenOnce
      <4> QED BY <1>2, <3>2, <4>3 DEF FinalName
    <3>3. CASE pc'[l] # "key"
      <4>1. /\ pc[l] = "rewrite" /\ pc'[l] = "rewrite" /\ i'[l] = i[l] + 1 /\ name' = name
            /\ Rewrite(i[l], ctx, name[l]) = NoName
        BY <2>3, <3>3 DEF DoRewrite
      <4>2. i[l] \in Nat /\ \A m \in 1..(i'[l] - 1) : m \in 1..(i[l] - 1) \/ m = i[l]
        BY <4>1, LiveCpkAssumption
      <4> QED BY <1>2, <3>1, <4>1, <4>2 DEF FinalName
    <3> QED BY <3>2, <3>3
  <2>4. CASE ModuleMakeKey(l) \/ ModuleGetFilepath(l) \/ HaveLiveFile(l)
    <3>1. l \in Loaders \ behind /\ FinalName(l)
      BY <1>4, <2>4 DEF ModuleMakeKey, ModuleGetFilepath, HaveLiveFile, ghosts, NamesInv
    <3>2. /\ pc[l] \in {"key", "path", "root"} /\ pc'[l] \in {"key", "path", "root", "store"}
          /\ name' = name
      BY <2>4 DEF ModuleMakeKey, ModuleGetFilepath, HaveLiveFile
    <3> QED BY <1>2, <3>1, <3>2 DEF FinalName
  <2> QED BY <2>1, <2>2, <2>3, <2>4 DEF LoaderStep
<1> QED BY <1>1, <1>2, <1>3, <1>4 DEF NamesInv

(* ... and of the world.                                                   *)
LEMMA NamesStep == FreshInv /\ NamesInv /\ [Next]_vars => NamesInv'
<1> SUFFICES ASSUME FreshInv, NamesInv, [Next]_vars PROVE NamesInv'
  OBVIOUS
<1>1. CASE UNCHANGED vars
  BY <1>1 DEF NamesInv, CachedNames, FinalName, Current, Slots, vars, call, world, ghosts
<1>2. CASE ChangeContext \/ ChangeDisk
  <2>1. Disturb
    BY <1>2 DEF ChangeContext, ChangeDisk
  <2>2. CachedNames'
    <3>1. \A s \in Slots : data[s].expires \in Nat /\ data[s].expires <= now + Ttl
      BY DEF FreshInv, Types, TypeOK, CacheTypeOK, Entry, CacheInv
    <3>2. now \in Nat
      BY DEF FreshInv, Types, TypeOK, CacheTypeOK
    <3> QED BY <2>1, <3>1, <3>2, CacheAssumption DEF Disturb, CachedNames, Current, Slots
  <2>3. \A l \in Loaders \ behind' : FinalName(l)'
    BY <2>1 DEF Disturb, FinalName, Resolving
  <2> QED BY <2>2, <2>3 DEF NamesInv
<1>3. CASE Advance
  BY <1>3 DEF Advance, Tick, cache, call, world, ghosts, NamesInv, CachedNames, FinalName,
              Current, Slots
<1> QED BY <1>1, <1>2, <1>3, NamesLoaderStep DEF Next, LoaderStep

-----------------------------------------------------------------------------
(* A file that a name stands for is there.                                 *)
LEMMA ContentIsThere ==
  ASSUME NEW c \in Contexts, NEW n, Content(c, disk, n) # NoPath
  PROVE  Content(c, disk, n) \in disk
<1>1. CASE Providers(c, disk, n) # {}
  <2>1. Providers(c, disk, n) \in SUBSET Nat
    BY LiveCpkAssumption DEF Providers
  <2>2. FirstOf(Providers(c, disk, n)) \in Providers(c, disk, n)
    BY <1>1, <2>1, FirstOfIsThere
  <2> QED BY <1>1, <2>2 DEF Content, Providers
<1>2. CASE Providers(c, disk, n) = {} /\ Holders(disk, n) # {}
  <2>1. Holders(disk, n) \in SUBSET Nat
    BY LiveCpkAssumption DEF Holders
  <2>2. FirstOf(Holders(disk, n)) \in Holders(disk, n)
    BY <1>2, <2>1, FirstOfIsThere
  <2> QED BY <1>2, <2>2 DEF Content, Holders
<1> QED BY <1>1, <1>2 DEF Content

(* While nothing is out of date, a lookup answers with the name's file.    *)
LEMMA LookupIsRight ==
  ASSUME FreshInv, NamesInv, Quiet, NEW n, Found(n)
  PROVE  Lookup(n) = Content(ctx, disk, n) /\ Rewritten(ctx, n) = n
<1>1. PICK s \in Slots : data[s].key = n /\ Live(data[s]) /\ Lookup(n) = data[s].value
  BY LookupFinds DEF FreshInv, Types, TypeOK
<1>2. data[s].expires \in Nat /\ now \in Nat /\ settledAt \in Nat
  BY DEF FreshInv, Types, TypeOK, CacheTypeOK, Entry
<1>3. Current(data[s])
  BY <1>1, <1>2, CacheAssumption DEF Quiet, Live, Current
<1> QED BY <1>1, <1>3 DEF FreshInv, CacheInv, NamesInv, CachedNames

(* No step of a loader ends a quiet time.                                  *)
LEMMA QuietStays ==
  ASSUME Quiet, NEW l \in Loaders, LoaderStep(l)
  PROVE  Quiet'
BY DEF Quiet, LoaderStep, Begin, GetSize, Read, Cached, DoRewrite, ModuleMakeKey, ModuleGetFilepath,
       HaveLiveFile, CacheIt, Remembered, Put, ServeLookup, ServeGetSize, ServeRead, Return,
       ghosts

(* The request of the loader that takes the step.                          *)
LEMMA RequestGoesOn ==
  ASSUME IInv, NEW l \in Loaders, asked'[l] # NoName, LoaderStep(l)
  PROVE  Quiet' /\ Undisturbed(l)'
<1> USE DEF IInv, FreshInv, Types, TypeOK
<1>1. CASE \E n \in Files : Begin(l, n)
  <2>1. PICK n \in Files : Begin(l, n)
    BY <1>1
  <2>2. asked'[l] = n /\ Quiet /\ name'[l] = n /\ pc'[l] = "cached" /\ op'[l] = "lookup"
        /\ sized'[l] = NoPath /\ UNCHANGED <<ctx, disk>>
    BY <2>1 DEF Begin, Enter, Quiet, world
  <2>3. Quiet'
    BY <2>1, <2>2, QuietStays
  <2> QED BY <2>2, <2>3 DEF Undisturbed
<1> SUFFICES ASSUME \/ GetSize(l) \/ Read(l)
                    \/ Cached(l) \/ DoRewrite(l) \/ ModuleMakeKey(l) \/ ModuleGetFilepath(l)
                    \/ HaveLiveFile(l) \/ CacheIt(l)
                    \/ ServeLookup(l) \/ ServeGetSize(l) \/ ServeRead(l)
             PROVE  Quiet' /\ Undisturbed(l)'
  BY <1>1 DEF LoaderStep
<1> DEFINE real == Rewritten(ctx, asked[l])
           file == Content(ctx, disk, real)
<1>2. asked'[l] = asked[l] /\ UNCHANGED <<ctx, disk>>
  BY DEF GetSize, Read, Cached, DoRewrite, ModuleMakeKey, ModuleGetFilepath,
         HaveLiveFile, CacheIt, ServeLookup, ServeGetSize, ServeRead, Return, world, request
<1>3. Quiet /\ Undisturbed(l)
  BY <1>2 DEF RequestInv
<1>4. Quiet'
  BY <1>3, QuietStays
<1>5. real \in Keys /\ Rewritten(ctx, real) = real /\ real # NoName
  BY <1>2, RewrittenIsName, RewrittenOnce, CacheAssumption DEF NoName
<1>6. l \notin behind /\ Resolved(l) /\ FinalName(l)
  BY <1>3 DEF Quiet, ResolveInv, NamesInv
<1>7. CASE GetSize(l)
  <2>1. CASE tail[l] # NoName
    <3>1. /\ pc'[l] = "cached" /\ op'[l] = "get_size" /\ name'[l] = real
          /\ sized'[l] = NoPath /\ file # NoPath
      BY <1>3, <1>7, <2>1 DEF GetSize, Enter, request, Undisturbed
    <3> QED BY <1>2, <1>4, <1>5, <3>1 DEF Undisturbed
  <2>2. CASE tail[l] = NoName
    <3>1. /\ pc'[l] = "sized" /\ op'[l] = "none" /\ shown'[l] = real
          /\ sized'[l] = NoPath /\ file = NoPath
      BY <1>3, <1>5, <1>7, <2>2 DEF GetSize, call, buffer, request, Undisturbed, Holding, Resolving
    <3> QED BY <1>2, <1>4, <3>1 DEF Undisturbed
  <2> QED BY <2>1, <2>2
<1>8. CASE Read(l)
  <2>1. pc'[l] = "cached" /\ op'[l] = "read" /\ name'[l] = real /\ sized'[l] = file
    BY <1>3, <1>8 DEF Read, Enter, request, Undisturbed
  <2> QED BY <1>2, <1>4, <1>5, <2>1 DEF Undisturbed
<1>9. CASE Cached(l)
  <2>1. /\ pc[l] = "cached" /\ Rewritten(ctx, name[l]) = real
        /\ UNCHANGED <<op, name, sized>> /\ op[l] # "none"
    BY <1>3, <1>9 DEF Cached, request, Undisturbed, Holding
  <2>2. CASE Found(name[l])
    <3>1. Lookup(name[l]) = Content(ctx, disk, name[l]) /\ Rewritten(ctx, name[l]) = name[l]
      BY <1>3, <2>2, LookupIsRight
    <3>2. pc'[l] = "serve" /\ name'[l] = real /\ fn'[l] = file
      BY <1>9, <2>1, <2>2, <3>1 DEF Cached
    <3> QED BY <1>2, <1>3, <1>4, <2>1, <3>2 DEF Undisturbed
  <2>3. CASE ~Found(name[l])
    <3>1. pc'[l] = "rewrite"
      BY <1>9, <2>3 DEF Cached
    <3> QED BY <1>2, <1>3, <1>4, <2>1, <3>1 DEF Undisturbed
  <2> QED BY <2>2, <2>3
<1>10. CASE DoRewrite(l)
  <2>1. pc[l] = "rewrite" /\ Rewritten(ctx, name[l]) = real /\ UNCHANGED <<op, sized>>
    BY <1>3, <1>10 DEF DoRewrite, request, Undisturbed
  <2>2. CASE pc'[l] = "key"
    <3>1. name'[l] = real
      BY <1>6, <1>10, <2>1, <2>2, RewriteResult
    <3> QED BY <1>2, <1>3, <1>4, <2>1, <2>2, <3>1 DEF Undisturbed
  <2>3. CASE pc'[l] # "key"
    <3>1. pc'[l] = "rewrite" /\ name' = name
      BY <1>10, <2>1, <2>3 DEF DoRewrite
    <3> QED BY <1>2, <1>3, <1>4, <2>1, <3>1 DEF Undisturbed
  <2> QED BY <2>2, <2>3
<1>11. CASE ModuleMakeKey(l) \/ ModuleGetFilepath(l) \/ HaveLiveFile(l)
  <2>1. /\ pc[l] \in {"key", "path", "root"} /\ pc'[l] \in {"key", "path", "root", "store"}
        /\ UNCHANGED <<op, name, sized>>
    BY <1>11 DEF ModuleMakeKey, ModuleGetFilepath, HaveLiveFile, request
  <2> QED BY <1>2, <1>3, <1>4, <2>1 DEF Undisturbed
<1>12. CASE CacheIt(l)
  <2>1. /\ pc[l] = "store" /\ pc'[l] = "serve" /\ UNCHANGED <<op, name, fn, sized>>
    BY <1>12 DEF CacheIt, call, request
  <2>2. name[l] = real /\ fn[l] = file
    BY <1>3, <1>6, <2>1 DEF Undisturbed, Resolved
  <2> QED BY <1>2, <1>3, <1>4, <2>1, <2>2 DEF Undisturbed
<1>13. CASE ServeLookup(l)
  <2>1. name[l] = real /\ fn[l] = file /\ sized[l] = NoPath
    BY <1>3, <1>13 DEF ServeLookup, Undisturbed
  <2>2. /\ pc'[l] = "looked_up" /\ op'[l] = "none" /\ sized' = sized
        /\ file # NoPath => tail'[l] = real
        /\ file = NoPath => tail'[l] = NoName /\ shown'[l] = real
    BY <1>13, <2>1 DEF ServeLookup, Return, request
  <2> QED BY <1>2, <1>4, <2>1, <2>2 DEF Undisturbed
<1>14. CASE ServeGetSize(l)
  <2>1. name[l] = real /\ fn[l] = file /\ file # NoPath
    BY <1>3, <1>14 DEF ServeGetSize, Undisturbed
  <2>2. file \in disk
    BY <2>1, ContentIsThere
  <2>3. pc'[l] = "sized" /\ op'[l] = "none" /\ sized'[l] = file /\ shown'[l] = real
    BY <1>2, <1>14, <2>1, <2>2 DEF ServeGetSize, Return, Restored
  <2> QED BY <1>2, <1>4, <2>3 DEF Undisturbed
<1>15. CASE ServeRead(l)
  <2>1. name[l] = real /\ fn[l] = file /\ sized[l] = file
    BY <1>3, <1>15 DEF ServeRead, Undisturbed
  <2>2. file # NoPath => file \in disk
    BY ContentIsThere
  <2>3. /\ pc'[l] = "read" /\ op'[l] = "none" /\ sized' = sized /\ shown'[l] = real
        /\ opened'[l] = file
    BY <1>2, <1>15, <2>1, <2>2 DEF ServeRead, Return
  <2> QED BY <1>2, <1>4, <2>1, <2>3 DEF Undisturbed
<1> QED BY <1>7, <1>8, <1>9, <1>10, <1>11, <1>12, <1>13, <1>14, <1>15

(* The other loaders' requests.                                            *)
LEMMA OthersGoOn ==
  ASSUME IInv, NEW l \in Loaders, NEW o \in Loaders \ {l}, asked'[o] # NoName, LoaderStep(l)
  PROVE  Quiet' /\ Undisturbed(o)'
<1> USE DEF IInv, FreshInv, Types, TypeOK
<1>1. /\ UNCHANGED <<ctx, disk>>
      /\ pc'[o] = pc[o] /\ op'[o] = op[o] /\ name'[o] = name[o] /\ fn'[o] = fn[o]
      /\ shown'[o] = shown[o] /\ tail'[o] = tail[o]
      /\ asked'[o] = asked[o] /\ sized'[o] = sized[o] /\ opened'[o] = opened[o]
  BY DEF LoaderStep, Begin, GetSize, Read, Cached, DoRewrite, ModuleMakeKey, ModuleGetFilepath,
         HaveLiveFile, CacheIt, ServeLookup, ServeGetSize, ServeRead, Enter, Return,
         call, buffer, world, request
<1>2. Quiet /\ Undisturbed(o)
  BY <1>1 DEF RequestInv
<1>3. Quiet'
  BY <1>2, QuietStays
<1> QED BY <1>1, <1>2, <1>3 DEF Undisturbed

LEMMA RequestStep == IInv /\ [Next]_vars => RequestInv'
<1> SUFFICES ASSUME IInv, [Next]_vars PROVE RequestInv'
  OBVIOUS
<1>1. CASE UNCHANGED vars
  BY <1>1 DEF IInv, RequestInv, Quiet, Undisturbed, vars, call, buffer, world, request, ghosts
<1>2. CASE ChangeContext \/ ChangeDisk
  BY <1>2 DEF ChangeContext, ChangeDisk, Disturb, RequestInv
<1>3. CASE Advance
  <2>1. now \in Nat /\ settledAt \in Nat
    BY DEF IInv, FreshInv, Types, TypeOK, CacheTypeOK
  <2> QED BY <1>3, <2>1, CacheAssumption
          DEF Advance, Tick, IInv, RequestInv, Quiet, Undisturbed, call, buffer, world,
              request, ghosts
<1>4. ASSUME NEW l \in Loaders, LoaderStep(l) PROVE RequestInv'
  BY <1>4, RequestGoesOn, OthersGoOn DEF RequestInv
<1> QED BY <1>1, <1>2, <1>3, <1>4 DEF Next, LoaderStep

(* One request, one file, for any loaders that evict each other's answers  *)
(* from a cache of any size: if nothing has changed lately, a request is   *)
(* told the size of the file that each of its parts is read from.          *)
THEOREM OneFileServed == Spec => []OneFilePerRequest
<1>1. IInv /\ [Next]_vars => IInv'
  BY FreshStep, NamesStep, RequestStep DEF IInv
<1>2. IInv => OneFilePerRequest
  BY DEF IInv, RequestInv, Undisturbed, OneFilePerRequest
<1> QED BY InitIInv, <1>1, <1>2, PTL DEF Spec
=============================================================================
