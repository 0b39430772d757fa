------------------------------- MODULE LiveCpk -------------------------------
(***************************************************************************)
(* LiveCPK (sider.cpp): the game's loader threads ask for files by name,   *)
(* in three calls - lookup, get_size and one or more reads (or memory      *)
(* copies) - and each call decides anew, with the help of the Lua modules, *)
(* the livecpk roots and the cache, which file on disk the name stands     *)
(* for.  Meanwhile the match context changes, files come and go and time   *)
(* passes.  A step is one callback into Lua, one look at the disk or one   *)
(* operation of the cache: what a lock of the code makes atomic.  The      *)
(* cache is on (key-cache.ttl-sec is not 0, its default).                  *)
(***************************************************************************)
EXTENDS Cache2

CONSTANTS
  Loaders,            \* the game's threads that load files
  Files,              \* names the game asks for; Keys also has the decoy
  Decoy,              \* _file_to_lookup, a name the game's archives do have
  Contexts,           \* values of the ctx table that modules tell apart
  NumModules,         \* _modules.size(), in configuration order
  Rewrite(_, _, _),   \* what module m in context c rewrites name n to, or NoKey
  MakeKey(_, _, _),   \* the key module m in context c gives name n
  FilePath(_, _, _, _), \* the path module m in context c has for n with that key
  NumRoots,           \* _config->_cpk_roots.size()
  RootPath(_, _),     \* where root r would hold name n
  MaxTime,            \* bound on the clock
  MaxChanges,         \* bound on changes of the context and the disk
  ContextChanges, DiskChanges  \* whether each of them changes at all

NoPath == NoValue
Paths == Values \ {NoPath}
NoName == NoKey

ASSUME LiveCpkAssumption ==
  /\ Files \subseteq Keys /\ Decoy \in Keys
  /\ NumModules \in Nat /\ NumRoots \in Nat
  /\ MaxTime \in Nat /\ MaxChanges \in Nat
  /\ {ContextChanges, DiskChanges} \subseteq BOOLEAN
  /\ \A m \in 1..NumModules, c \in Contexts, n \in Keys :
       /\ Rewrite(m, c, n) \in Keys \cup {NoName}
       /\ FilePath(m, c, n, MakeKey(m, c, n)) \in Values

VARIABLES
  ctx,     \* the context table as the modules see it
  disk,    \* the paths at which there is a file
  pc, op,  \* where each loader is, and in which call
  name,    \* the name its call is about, rewritten in place
  shown, tail, \* its file name buffer: the name, and the one after the mark
  i, key, fn,  \* the call's locals: a module or a root, its key, the path
  asked,     \* ghost: the name of a request that nothing stale can reach
  sized, opened, \* ghosts: the files that its size and its data come from
  behind,    \* ghost: loaders that began to resolve before the last change
  settledAt, \* ghost: when the last out of date answer can have been cached
  changes

call == <<op, name, i, key, fn>>
buffer == <<shown, tail>>
world == <<ctx, disk, changes>>
request == <<asked, sized, opened>>
ghosts == <<behind, settledAt>>
vars == <<data, next, now, pc, call, buffer, world, request, ghosts>>

Resolving == {"rewrite", "key", "path", "root", "store"}

\* What the key of a module that is being asked can be.
GivenKeys ==
  {MakeKey(m, c, n) : m \in 1..NumModules, c \in Contexts, n \in Keys} \cup {NoName}

Init ==
  /\ CacheInit
  /\ ctx \in Contexts /\ disk \in SUBSET Paths /\ changes = 0
  /\ pc = [l \in Loaders |-> "idle"] /\ op = [l \in Loaders |-> "none"]
  /\ name = [l \in Loaders |-> NoName] /\ asked = name
  /\ shown = name /\ tail = name
  /\ i = [l \in Loaders |-> 1] /\ key = name
  /\ fn = [l \in Loaders |-> NoPath] /\ sized = fn /\ opened = fn
  /\ behind = {} /\ settledAt = 0
-----------------------------------------------------------------------------
(* What a name stands for when nothing changes.                            *)

FirstOf(S) == CHOOSE m \in S : \A e \in S : m <= e

Rewriters(c, n) == {m \in 1..NumModules : Rewrite(m, c, n) # NoName}
Rewritten(c, n) ==
  IF Rewriters(c, n) = {} THEN n ELSE Rewrite(FirstOf(Rewriters(c, n)), c, n)

ModulePath(m, c, n) == FilePath(m, c, n, MakeKey(m, c, n))
Providers(c, d, n) == {m \in 1..NumModules : ModulePath(m, c, n) \in d}
Holders(d, n) == {r \in 1..NumRoots : RootPath(r, n) \in d}

(* A name a module has come up with is not rewritten again.                *)
ASSUME RewrittenOnce ==
  \A c \in Contexts, n \in Keys : Rewritten(c, Rewritten(c, n)) = Rewritten(c, n)

\* In context c, with the files d on disk: have_content(n), and failing that
\* have_live_file(n), with no step between.
Content(c, d, n) ==
  IF Providers(c, d, n) # {} THEN ModulePath(FirstOf(Providers(c, d, n)), c, n)
  ELSE IF Holders(d, n) # {} THEN RootPath(FirstOf(Holders(d, n)), n)
  ELSE NoPath
-----------------------------------------------------------------------------
(* The game's calls.                                                       *)

\* A call o about name n enters the code all calls share.
Enter(l, o, n) ==
  /\ op' = [op EXCEPT ![l] = o] /\ name' = [name EXCEPT ![l] = n]
  /\ pc' = [pc EXCEPT ![l] = "cached"]
  /\ UNCHANGED <<i, key, fn>>

\* A request starts in a fresh buffer, which has no mark yet; the game may
\* leave the one before it unfinished.
Begin(l, n) ==
  /\ pc[l] \in {"idle", "looked_up", "sized", "read"}
  /\ Enter(l, "lookup", n)
  /\ shown' = [shown EXCEPT ![l] = NoName] /\ tail' = [tail EXCEPT ![l] = NoName]
  /\ asked' = [asked EXCEPT ![l] =
                 IF behind = {} /\ now >= settledAt + Ttl THEN n ELSE NoName]
  /\ sized' = [sized EXCEPT ![l] = NoPath] /\ opened' = [opened EXCEPT ![l] = NoPath]
  /\ UNCHANGED <<data, next, now, world, ghosts>>

\* The mark is there, so a second lookup of the buffer changes nothing.
GetSize(l) ==
  /\ pc[l] = "looked_up"
  /\ IF tail[l] # NoName
     THEN Enter(l, "get_size", tail[l])
     ELSE /\ pc' = [pc EXCEPT ![l] = "sized"]
          /\ UNCHANGED call
  /\ UNCHANGED <<data, next, now, buffer, world, request, ghosts>>

\* A file may be read in several parts: each read resolves the name again.
Read(l) ==
  /\ pc[l] \in {"sized", "read"}
  /\ Enter(l, "read", shown[l])
  /\ UNCHANGED <<data, next, now, buffer, world, request, ghosts>>
-----------------------------------------------------------------------------
(* The code the calls share: have_cached, do_rewrite, have_content,        *)
(* have_live_file, cache_it.                                               *)

Cached(l) ==
  /\ pc[l] = "cached"
  /\ IF Found(name[l])
     THEN /\ fn' = [fn EXCEPT ![l] = Lookup(name[l])]
          /\ pc' = [pc EXCEPT ![l] = "serve"]
          /\ UNCHANGED i
     ELSE /\ pc' = [pc EXCEPT ![l] = "rewrite"] /\ i' = [i EXCEPT ![l] = 1]
          /\ UNCHANGED fn
  /\ UNCHANGED <<data, next, now, op, name, key, buffer, world, request, ghosts>>

\* Mutant of MoreModules: the loop runs past the last module.
MoreModulesThanThereAre(l) == i[l] <= NumModules + 1

MoreModules(l) == i[l] <= NumModules

\* The first module that rewrites the name ends the loop.
DoRewrite(l) ==
  /\ pc[l] = "rewrite"
  /\ LET new == Rewrite(i[l], ctx, name[l]) IN
     \/ /\ MoreModules(l) /\ new = NoName
        /\ i' = [i EXCEPT ![l] = @ + 1]
        /\ UNCHANGED <<pc, name>>
     \/ /\ MoreModules(l) /\ new # NoName
        /\ name' = [name EXCEPT ![l] = new]
        /\ pc' = [pc EXCEPT ![l] = "key"] /\ i' = [i EXCEPT ![l] = 1]
     \/ /\ ~MoreModules(l)
        /\ pc' = [pc EXCEPT ![l] = "key"] /\ i' = [i EXCEPT ![l] = 1]
        /\ UNCHANGED name
  /\ UNCHANGED <<data, next, now, op, key, fn, buffer, world, request, ghosts>>

ModuleMakeKey(l) ==
  /\ pc[l] = "key"
  /\ IF MoreModules(l)
     THEN /\ key' = [key EXCEPT ![l] = MakeKey(i[l], ctx, name[l])]
          /\ pc' = [pc EXCEPT ![l] = "path"]
          /\ UNCHANGED i
     ELSE /\ pc' = [pc EXCEPT ![l] = "root"] /\ i' = [i EXCEPT ![l] = 1]
          /\ UNCHANGED key
  /\ UNCHANGED <<data, next, now, op, name, fn, buffer, world, request, ghosts>>

\* module_get_filepath(): only a file that exists counts.
ProvidedBy(m, n, k) ==
  IF FilePath(m, ctx, n, k) \in disk THEN FilePath(m, ctx, n, k) ELSE NoPath

ModuleGetFilepath(l) ==
  /\ pc[l] = "path"
  /\ LET path == ProvidedBy(i[l], name[l], key[l]) IN
     IF path # NoPath
     THEN /\ fn' = [fn EXCEPT ![l] = path] /\ pc' = [pc EXCEPT ![l] = "store"]
          /\ UNCHANGED i
     ELSE /\ pc' = [pc EXCEPT ![l] = "key"] /\ i' = [i EXCEPT ![l] = @ + 1]
          /\ UNCHANGED fn
  /\ key' = [key EXCEPT ![l] = NoName]
  /\ UNCHANGED <<data, next, now, op, name, buffer, world, request, ghosts>>

HaveLiveFile(l) ==
  /\ pc[l] = "root"
  /\ \/ /\ i[l] <= NumRoots /\ RootPath(i[l], name[l]) \in disk
        /\ fn' = [fn EXCEPT ![l] = RootPath(i[l], name[l])]
        /\ pc' = [pc EXCEPT ![l] = "store"]
        /\ UNCHANGED i
     \/ /\ i[l] <= NumRoots /\ RootPath(i[l], name[l]) \notin disk
        /\ i' = [i EXCEPT ![l] = @ + 1]
        /\ UNCHANGED <<pc, fn>>
     \/ /\ i[l] > NumRoots
        /\ fn' = [fn EXCEPT ![l] = NoPath] /\ pc' = [pc EXCEPT ![l] = "store"]
        /\ UNCHANGED i
  /\ UNCHANGED <<data, next, now, op, name, key, buffer, world, request, ghosts>>

\* Mutant of Remembered: the name that the game asked for is the key.
RememberedAsAsked(l) == Put(asked[l], fn[l])

\* The name is the rewritten one, and "no such file" is remembered too.
Remembered(l) == Put(name[l], fn[l])

CacheIt(l) ==
  /\ pc[l] = "store"
  /\ Remembered(l)
  /\ pc' = [pc EXCEPT ![l] = "serve"]
  /\ behind' = behind \ {l}
  /\ settledAt' = IF l \in behind THEN now ELSE settledAt
  /\ UNCHANGED <<call, buffer, world, request>>
-----------------------------------------------------------------------------
(* What each call does with the path.                                      *)

\* The call returns and its locals are gone.
Return(l, to) ==
  /\ pc' = [pc EXCEPT ![l] = to]
  /\ op' = [op EXCEPT ![l] = "none"] /\ name' = [name EXCEPT ![l] = NoName]
  /\ i' = [i EXCEPT ![l] = 1] /\ fn' = [fn EXCEPT ![l] = NoPath]
  /\ UNCHANGED <<key, data, next, now, world, ghosts>>

\* The game is sent after the decoy, with the real name behind the mark.
ServeLookup(l) ==
  /\ pc[l] = "serve" /\ op[l] = "lookup"
  /\ shown' = [shown EXCEPT ![l] = IF fn[l] # NoPath THEN Decoy ELSE name[l]]
  /\ tail' = [tail EXCEPT ![l] = IF fn[l] # NoPath THEN name[l] ELSE NoName]
  /\ Return(l, "looked_up")
  /\ UNCHANGED request

\* Mutant of Restored: the real name is not put back.
NotRestored(l) == shown[l]

\* strcpy(filename, fname)
Restored(l) == name[l]

\* The size is that of the file, if it is still there.
ServeGetSize(l) ==
  /\ pc[l] = "serve" /\ op[l] = "get_size"
  /\ IF fn[l] \in disk
     THEN /\ sized' = [sized EXCEPT ![l] = IF asked[l] # NoName THEN fn[l] ELSE @]
          /\ shown' = [shown EXCEPT ![l] = Restored(l)]
     ELSE UNCHANGED <<sized, shown>>
  /\ tail' = [tail EXCEPT ![l] = NoName]
  /\ Return(l, "sized")
  /\ UNCHANGED <<asked, opened>>

\* A file that cannot be opened leaves the game's own data in place; the name
\* stays rewritten for the parts still to be read.
ServeRead(l) ==
  /\ pc[l] = "serve" /\ op[l] = "read"
  /\ shown' = [shown EXCEPT ![l] = name[l]]
  /\ opened' = [opened EXCEPT ![l] =
                  IF asked[l] # NoName /\ fn[l] \in disk THEN fn[l] ELSE NoPath]
  /\ Return(l, "read")
  /\ UNCHANGED <<tail, asked, sized>>
-----------------------------------------------------------------------------
(* The world around the loaders.                                           *)

Disturb ==
  /\ changes < MaxChanges /\ changes' = changes + 1
  /\ behind' = {l \in Loaders : pc[l] \in Resolving}
  /\ settledAt' = now
  /\ asked' = [l \in Loaders |-> NoName]
  /\ sized' = [l \in Loaders |-> NoPath] /\ opened' = sized'
  /\ UNCHANGED <<data, next, now, pc, call, buffer>>

ChangeContext ==
  /\ ContextChanges
  /\ \E c \in Contexts \ {ctx} : ctx' = c
  /\ UNCHANGED disk
  /\ Disturb

ChangeDisk ==
  /\ DiskChanges
  /\ \E p \in Paths : disk' = IF p \in disk THEN disk \ {p} ELSE disk \cup {p}
  /\ UNCHANGED ctx
  /\ Disturb

Advance ==
  /\ now < MaxTime
  /\ Tick
  /\ UNCHANGED <<pc, call, buffer, world, request, ghosts>>

Next ==
  \/ \E l \in Loaders :
       \/ \E n \in Files : Begin(l, n)
       \/ GetSize(l) \/ Read(l)
       \/ Cached(l) \/ DoRewrite(l) \/ ModuleMakeKey(l) \/ ModuleGetFilepath(l)
       \/ HaveLiveFile(l) \/ CacheIt(l)
       \/ ServeLookup(l) \/ ServeGetSize(l) \/ ServeRead(l)
  \/ ChangeContext \/ ChangeDisk
  \/ Advance

Spec == Init /\ [][Next]_vars
-----------------------------------------------------------------------------
(* Every variable has its type: the loops stay inside the modules and the  *)
(* roots, and no call carries a name that is not one.                      *)
TypeOK ==
  /\ CacheTypeOK
  /\ ctx \in Contexts /\ disk \subseteq Paths /\ changes \in 0..MaxChanges
  /\ pc \in [Loaders -> Resolving \cup
                {"idle", "cached", "serve", "looked_up", "sized", "read"}]
  /\ op \in [Loaders -> {"none", "lookup", "get_size", "read"}]
  /\ {name, shown, tail, asked} \subseteq [Loaders -> Keys \cup {NoName}]
  /\ key \in [Loaders -> GivenKeys]
  /\ {fn, sized, opened} \subseteq [Loaders -> Values]
  /\ i \in [Loaders -> 1..(NumModules + NumRoots + 1)]
  /\ \A l \in Loaders :
       /\ pc[l] \in Resolving \cup {"cached"} => name[l] \in Keys
       /\ pc[l] \in {"rewrite", "key", "path"} => i[l] <= NumModules + 1
  /\ behind \subseteq {l \in Loaders : pc[l] \in Resolving}
  /\ settledAt \in 0..now

(* What the cache remembers is out of date for no longer than the time to  *)
(* live: Ttl after the last change, and after the last answer so far that  *)
(* a loader worked out across it, every entry that a lookup would still    *)
(* accept is what its name stands for now.                                 *)
StaleNoLongerThanTtl ==
  now >= settledAt + Ttl =>
    \A s \in Slots : Live(data[s]) => data[s].value = Content(ctx, disk, data[s].key)

(* One request, one file: when nothing has changed lately, the size that a *)
(* request is told and every part it reads come from the same file, the    *)
(* one that the name it asked for stands for, whichever of its calls the   *)
(* cache answered and whatever the other loaders evicted meanwhile.        *)
OneFilePerRequest ==
  \A l \in Loaders :
    asked[l] # NoName /\ pc[l] = "read" =>
      /\ opened[l] = Content(ctx, disk, Rewritten(ctx, asked[l]))
      /\ sized[l] = opened[l]
=============================================================================
