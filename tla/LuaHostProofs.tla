---------------------------- MODULE LuaHostProofs ----------------------------
(***************************************************************************)
(* The Lua host, for any number of modules, threads, edits and events:     *)
(* what the stack anchors, until a wrapper pops what is not its own, and   *)
(* what the overlay's pointer names.                                       *)
(***************************************************************************)
EXTENDS LuaHost, WellFoundedInduction, TLAPS

(* A set of modules has an earliest one.                                   *)
LEMMA MinIsThere ==
  ASSUME NEW S \in SUBSET Modules, S # {}
  PROVE  Min(S) \in S
<1>1. S \subseteq Nat
  BY LuaHostAssumption DEF Modules
<1>2. \E x \in S : \A y \in S : ~(<<y, x>> \in OpToRel(<, Nat))
  BY <1>1, NatLessThanWellFounded, WFMin, Zenon
<1>3. \E x \in S : \A y \in S : ~(y < x)
  BY <1>1, <1>2 DEF OpToRel
<1>4. \A x, y \in S : ~(y < x) => x <= y
  BY <1>1
<1>5. \E x \in S : \A y \in S : x <= y
  BY <1>3, <1>4, Zenon
<1> QED BY <1>5, Zenon DEF Min

(* Where the pointer starts: end() only if there is no module to name.     *)
LEMMA EarliestIsThere ==
  ASSUME NEW S \in SUBSET Modules
  PROVE  /\ Earliest(S) \in 1..End
         /\ Earliest(S) = End => S = {}
<1>1. CASE S = {}
  BY <1>1, LuaHostAssumption DEF Earliest, End
<1>2. CASE S # {}
  <2>1. Earliest(S) \in Modules
    BY <1>2, MinIsThere DEF Earliest
  <2> QED BY <2>1, LuaHostAssumption DEF Modules, End
<1> QED BY <1>1, <1>2

(* A reload moves the pointer inside the vector, and leaves it at end()    *)
(* only if there is no module to name.                                     *)
LEMMA AdvancedIsThere ==
  ASSUME overlay \in 1..End, NEW m \in Modules, NEW S \in SUBSET Modules
  PROVE  /\ Advanced(m, S) \in 1..End
         /\ Advanced(m, S) = End => S = {}
<1> DEFINE L == {k \in S : k > m}
<1>1. m # End /\ Modules \subseteq 1..End
  BY LuaHostAssumption DEF Modules, End
<1>2. CASE m = overlay /\ m \notin S /\ \E k \in S : k > m
  <2>1. L \in SUBSET Modules /\ L # {}
    BY <1>2
  <2>2. Min(L) \in Modules
    BY <2>1, MinIsThere
  <2>3. ~\A k \in S : k < m
    BY <1>2, LuaHostAssumption DEF Modules
  <2>4. Advanced(m, S) = Min(L)
    BY <1>2, <2>3, Zenon DEF Advanced
  <2> QED BY <2>2, <2>4, LuaHostAssumption DEF Modules, End
<1>3. CASE m = overlay /\ m \notin S /\ S # {} /\ \A k \in S : k < m
  <2>1. ~\E k \in S : k > m
    BY <1>3, LuaHostAssumption DEF Modules
  <2>2. Advanced(m, S) = Min(S)
    BY <1>3, <2>1 DEF Advanced
  <2>3. Min(S) \in Modules
    BY <1>3, MinIsThere
  <2> QED BY <2>2, <2>3, LuaHostAssumption DEF Modules, End
<1>4. CASE m # overlay /\ overlay = End
  <2>1. Advanced(m, S) = Earliest(S)
    BY <1>4 DEF Advanced
  <2> QED BY <2>1, EarliestIsThere
<1>5. CASE /\ ~(m = overlay /\ m \notin S /\ \E k \in S : k > m)
           /\ ~(m = overlay /\ m \notin S /\ S # {} /\ \A k \in S : k < m)
           /\ ~(m # overlay /\ overlay = End)
  <2>1. Advanced(m, S) = overlay
    BY <1>5 DEF Advanced
  <2> QED BY <1>1, <1>5, <2>1
<1> QED BY <1>2, <1>3, <1>4, <1>5

(* What modules show is a set of modules.                                  *)
LEMMA ShowingIsModules == \A v, h : Showing(v, h) \in SUBSET Modules
BY DEF Showing

-----------------------------------------------------------------------------
(* The invariant: the modules still to be loaded are not active, and what  *)
(* is put back, of a module that is, is not loaded.                        *)
Pending ==
  /\ phase = "loading" => \A m \in Modules : m >= i => ~Active(m)
  /\ \A m \in Modules : stamp[m] = 0 => Active(m)

IInv == TypeOK /\ Anchored /\ EndOnlyIfNone /\ Pending

(* The host starts with nothing but its libraries on the stack.            *)
LEMMA InitIInv == Init => IInv
<1> SUFFICES ASSUME Init PROVE IInv
  OBVIOUS
<1> USE LuaHostAssumption DEF Init
<1>1. Base \in Seq(Item) /\ Base # <<>> /\ Base[1] = Context /\ Len(Base) = 6
  BY DEF Base, Item
<1>2. TypeOK
  <2>1. 1 \in 0..(MaxEdits + 1) /\ 0 \in 0..(MaxEdits + 1) /\ 1 \in 1..End /\ End \in 1..End
    BY DEF End
  <2>2. <<0, OverlayOn>> \in (0..NumModules) \X Events
    OBVIOUS
  <2>3. position \in [Modules -> Nat] /\ \A m \in Modules : position[m] <= Len(stack)
    BY <1>1
  <2>4. popped \in 0..MaxPops
    OBVIOUS
  <2> QED BY <1>1, <2>1, <2>2, <2>3, <2>4 DEF TypeOK
<1>3. Anchored /\ EndOnlyIfNone /\ Pending
  BY <1>1 DEF Anchored, EndOnlyIfNone, Pending, Active
<1> QED BY <1>2, <1>3 DEF IInv

(* Pushing an item leaves everything below it in place.                    *)
LEMMA PushKeeps ==
  ASSUME IInv, NEW x \in Item, stack' = Append(stack, x),
         UNCHANGED <<memory, popped>>
  PROVE  /\ stack' \in Seq(Item) /\ Anchored'
         /\ popped' = 0 => \A m \in Modules : position'[m] <= Len(stack')
<1> USE DEF IInv, TypeOK, memory
<1>1. /\ stack' \in Seq(Item) /\ Len(stack') = Len(stack) + 1
      /\ \A k \in DOMAIN stack : k \in DOMAIN stack' /\ stack'[k] = stack[k]
  OBVIOUS
<1>2. popped = 0 => 1 \in DOMAIN stack
  BY DEF Anchored
<1>3. Anchored'
  BY <1>1, <1>2 DEF Anchored, Active
<1> QED BY <1>1, <1>3

(* Loading a module: its table, if it is activated, is on top.             *)
LEMMA LoadIInv == IInv /\ Load => IInv'
<1> SUFFICES ASSUME IInv, Load PROVE IInv'
  OBVIOUS
<1> USE LuaHostAssumption DEF IInv, TypeOK
<1>1. i \in Modules /\ i' = i + 1 /\ i' \in 1..End
  BY DEF Load, Modules, End
<1>2. Table(i, stamp[i]) \in Item /\ ~Active(i) /\ stamp[i] # 0
  <2>1. ~Active(i) /\ stamp[i] # 0
    BY <1>1 DEF Load, Pending, Modules
  <2>2. stamp[i] \in 1..(MaxEdits + 1)
    BY <1>1, <2>1
  <2> QED BY <1>1, <2>1, <2>2 DEF Item
<1>3. file[i].outcome # "no_init" \/ file[i].outcome # "ok"
  OBVIOUS
<1>4. UNCHANGED <<file, stamp, overlay, wanted, phase, pc, target, popped>> /\ phase = "loading"
  BY DEF Load, disk, threads
<1>5. CASE file[i].outcome # "ok"
  <2>1. UNCHANGED memory
    BY <1>5 DEF Load
  <2>2. stack' = stack \/ stack' = Append(stack, Table(i, stamp[i]))
    BY DEF Load
  <2>3. /\ stack' \in Seq(Item) /\ Anchored'
        /\ popped' = 0 => \A m \in Modules : position'[m] <= Len(stack')
    BY <1>2, <1>4, <2>1, <2>2, PushKeeps DEF Anchored, Active, memory
  <2>4. TypeOK'
    BY <1>1, <1>4, <2>1, <2>3 DEF memory
  <2>5. Pending'
    BY <1>1, <1>4, <2>1 DEF Pending, Active, memory, Modules
  <2> QED BY <1>4, <2>3, <2>4, <2>5 DEF EndOnlyIfNone
<1>6. CASE file[i].outcome = "ok"
  <2>1. /\ stack' = Append(stack, Table(i, stamp[i]))
        /\ version' = [version EXCEPT ![i] = stamp[i]]
        /\ handlers' = [handlers EXCEPT ![i] = file[i].events]
        /\ position' = [position EXCEPT ![i] = Len(stack')]
    BY <1>6 DEF Load, Top
  <2>2. /\ stack' \in Seq(Item) /\ Len(stack') = Len(stack) + 1
        /\ stack'[Len(stack')] = Table(i, stamp[i])
        /\ \A k \in DOMAIN stack : k \in DOMAIN stack' /\ stack'[k] = stack[k]
    BY <1>2, <2>1
  <2>3. file[i].events \in SUBSET Events
    BY <1>1 DEF Scripts
  <2>4. TypeOK'
    <3>1. version' \in [Modules -> 0..(MaxEdits + 1)]
      BY <1>1, <2>1
    <3>2. handlers' \in [Modules -> SUBSET Events]
      BY <1>1, <2>1, <2>3
    <3>3. /\ position' \in [Modules -> Nat]
          /\ popped' = 0 => \A m \in Modules : position'[m] <= Len(stack')
      BY <1>1, <1>4, <2>1, <2>2
    <3>4. <<file, stamp, overlay, wanted, phase, pc, target, popped>>'
            = <<file, stamp, overlay, wanted, phase, pc, target, popped>>
      BY <1>4
    <3> HIDE LuaHostAssumption
    <3> QED BY <1>1, <2>2, <3>1, <3>2, <3>3, <3>4
  <2>5. popped = 0 => 1 \in DOMAIN stack /\ stack[1] = Context
    BY DEF Anchored
  <2>6. Anchored'
    BY <1>1, <1>4, <2>1, <2>2, <2>5 DEF Anchored, Active
  <2>7. Pending'
    <3>1. \A m \in Modules : m >= i' => m >= i /\ m # i
      BY <1>1 DEF Modules
    <3>2. \A m \in Modules : m >= i' => ~Active(m) /\ version'[m] = version[m]
      BY <1>4, <2>1, <3>1 DEF Pending
    <3>3. \A m \in Modules : Active(m) => Active(m)'
      BY <1>2, <2>1 DEF Active
    <3> QED BY <1>4, <3>2, <3>3 DEF Pending, Active
  <2> QED BY <1>4, <2>4, <2>6, <2>7 DEF EndOnlyIfNone
<1> QED BY <1>5, <1>6

(* Reloading a module: the new table takes the place of the old one, and   *)
(* no other module's table has that place.                                 *)
LEMMA TakeNewIInv == IInv /\ TakeNew => IInv'
<1> SUFFICES ASSUME IInv, TakeNew PROVE IInv'
  OBVIOUS
<1> USE LuaHostAssumption DEF IInv, TypeOK
<1> DEFINE p == position[i]
           new == Table(i, stamp[i])
<1>1. i \in Modules /\ i' = i + 1 /\ i' \in 1..End /\ Active(i)
  BY DEF TakeNew, Modified, Modules, End
<1>2. new \in Item /\ stamp[i] # 0
  <2>1. stamp[i] > version[i] /\ version[i] \in Nat /\ stamp[i] \in 0..(MaxEdits + 1)
    BY <1>1 DEF TakeNew, Modified
  <2>2. stamp[i] \in 1..(MaxEdits + 1)
    BY <2>1
  <2> QED BY <1>1, <2>2 DEF Item
<1>3. popped = 0 => p \in DOMAIN stack /\ stack[p] = Table(i, version[i])
  BY <1>1 DEF Anchored
<1>4. /\ stack' \in Seq(Item) /\ DOMAIN stack' = DOMAIN stack /\ Len(stack') = Len(stack)
      /\ p \in DOMAIN stack => stack'[p] = new
      /\ \A k \in DOMAIN stack : k # p => stack'[k] = stack[k]
  <2>1. CASE p \in DOMAIN stack
    BY <1>2, <2>1 DEF TakeNew, InPlace, Replaced
  <2>2. CASE p \notin DOMAIN stack
    BY <2>2 DEF TakeNew, InPlace, Replaced
  <2> QED BY <2>1, <2>2
<1>6. /\ version' = [version EXCEPT ![i] = stamp[i]]
      /\ handlers' = [handlers EXCEPT ![i] = file[i].events]
      /\ UNCHANGED <<file, stamp, position, wanted, phase, pc, target, popped>>
      /\ phase = "reloading"
  BY DEF TakeNew, disk, threads
<1>7. file[i].events \in SUBSET Events
  BY <1>1 DEF Scripts
<1>8. overlay' \in 1..End /\ (overlay' = End => Showing(version', handlers') = {})
  BY <1>1, AdvancedIsThere, ShowingIsModules DEF TakeNew
<1>9. TypeOK'
  <2>1. version' \in [Modules -> 0..(MaxEdits + 1)]
    BY <1>1, <1>6
  <2>2. handlers' \in [Modules -> SUBSET Events]
    BY <1>1, <1>6, <1>7
  <2>3. /\ position' \in [Modules -> Nat]
        /\ popped' = 0 => \A m \in Modules : position'[m] <= Len(stack')
    BY <1>4, <1>6
  <2> HIDE LuaHostAssumption
  <2> QED BY <1>1, <1>4, <1>6, <1>8, <2>1, <2>2, <2>3
<1>10. ASSUME popped = 0 PROVE 1 \in DOMAIN stack /\ stack[1] = Context /\ p # 1
  <2>1. Table(i, version[i]) # Context
    BY <1>1 DEF Table
  <2> QED BY <1>3, <1>10, <2>1 DEF Anchored
<1>11. ASSUME popped = 0, NEW m \in Modules, Active(m)'
       PROVE  position'[m] \in DOMAIN stack' /\ stack'[position'[m]] = Table(m, version'[m])
  <2>1. CASE m = i
    BY <1>3, <1>4, <1>6, <1>11, <2>1
  <2>2. CASE m # i
    <3>1. /\ Active(m) /\ version'[m] = version[m]
          /\ position[m] \in DOMAIN stack /\ stack[position[m]] = Table(m, version[m])
      BY <1>6, <1>11, <2>2 DEF Active, Anchored
    <3>2. position[m] # p
      BY <1>3, <1>11, <2>2, <3>1 DEF Table
    <3> QED BY <1>4, <1>6, <3>1, <3>2
  <2> QED BY <2>1, <2>2
<1>12. Anchored'
  <2> SUFFICES ASSUME popped' = 0
      PROVE  /\ stack' # <<>> /\ stack'[1] = Context
             /\ \A m \in Modules : Active(m)' =>
                  /\ position'[m] \in DOMAIN stack'
                  /\ stack'[position'[m]] = Table(m, version'[m])
    BY DEF Anchored, Active, Table
  <2>1. popped = 0
    BY <1>6
  <2>2. 1 \in DOMAIN stack' /\ stack'[1] = Context
    BY <1>4, <1>10, <2>1
  <2>3. stack' # <<>>
    BY <2>2
  <2> QED BY <1>11, <2>1, <2>2, <2>3
<1>13. \A m \in Modules : Active(m) => Active(m)'
  BY <1>1, <1>2, <1>6 DEF Active
<1> QED BY <1>6, <1>8, <1>9, <1>12, <1>13 DEF EndOnlyIfNone, Pending

(* A reload that is cancelled leaves at most a table more on the stack.    *)
LEMMA KeepOldIInv == IInv /\ KeepOld => IInv'
<1> SUFFICES ASSUME IInv, KeepOld PROVE IInv'
  OBVIOUS
<1> USE LuaHostAssumption DEF IInv, TypeOK
<1>1. i \in Modules /\ i' = i + 1 /\ i' \in 1..End
  BY DEF KeepOld, AfterFailure, Modules, End
<1>2. /\ UNCHANGED <<file, stamp, overlay, wanted, phase, pc, target, popped>>
      /\ phase = "reloading"
      /\ UNCHANGED <<version, handlers, position>>
  BY DEF KeepOld, disk, threads, memory
<1>3. \/ stack' = stack
      \/ stack' = Append(stack, Table(i, stamp[i])) /\ Modified(i)
  BY DEF KeepOld
<1>4. /\ stack' \in Seq(Item) /\ Anchored'
      /\ popped' = 0 => \A m \in Modules : position'[m] <= Len(stack')
  <2>1. CASE stack' = stack
    BY <1>2, <2>1 DEF Anchored, Active
  <2>2. CASE stack' = Append(stack, Table(i, stamp[i])) /\ Modified(i)
    <3>1. stamp[i] > version[i] /\ version[i] \in Nat /\ stamp[i] \in 0..(MaxEdits + 1)
      BY <1>1, <2>2 DEF Modified
    <3>2. stamp[i] \in 1..(MaxEdits + 1)
      BY <3>1
    <3>3. Table(i, stamp[i]) \in Item
      BY <1>1, <3>2 DEF Item
    <3> QED BY <1>2, <2>2, <3>3, PushKeeps DEF memory
  <2> QED BY <1>3, <2>1, <2>2
<1>5. TypeOK'
  <2> HIDE LuaHostAssumption
  <2> QED BY <1>1, <1>2, <1>4
<1> QED BY <1>2, <1>4, <1>5 DEF EndOnlyIfNone, Pending, Showing, Active

(* A call leaves at most an error more on the stack, or it pops an entry,  *)
(* and that is remembered.                                                 *)
LEMMA CallIInv ==
  ASSUME IInv, NEW t \in GameThreads, Call(t)
  PROVE  IInv'
<1> USE LuaHostAssumption DEF IInv, TypeOK
<1>1. /\ Return(t)
      /\ \/ (stack' = stack \/ stack' = Append(stack, Error)) /\ UNCHANGED popped
         \/ CallPopsTwice(t)
  BY DEF Call, CallHandler, CallFails, CallPopsTwice
<1>2. /\ UNCHANGED <<file, stamp, overlay, wanted, phase, i>>
      /\ UNCHANGED memory
      /\ pc' = [pc EXCEPT ![t] = "idle"]
      /\ target' = [target EXCEPT ![t] = <<0, OverlayOn>>]
  BY <1>1 DEF Return, disk, present
<1>3. /\ stack' \in Seq(Item) /\ Anchored' /\ popped' \in 0..MaxPops
      /\ popped' = 0 => \A m \in Modules : position'[m] <= Len(stack')
  <2>1. CASE stack' = stack /\ UNCHANGED popped
    BY <1>2, <2>1 DEF Anchored, Active, memory
  <2>2. CASE stack' = Append(stack, Error) /\ UNCHANGED popped
    <3>1. Error \in Item
      BY DEF Item
    <3> QED BY <1>2, <2>2, <3>1, PushKeeps
  <2>3. CASE CallPopsTwice(t)
    <3>1. popped' \in 0..MaxPops /\ popped' # 0
      BY <2>3 DEF CallPopsTwice
    <3>2. Len(stack) - 1 \in 0..Len(stack) /\ stack' = SubSeq(stack, 1, Len(stack) - 1)
      BY <2>3 DEF CallPopsTwice
    <3>3. stack' \in Seq(Item)
      BY <3>2
    <3> QED BY <3>1, <3>3 DEF Anchored
  <2> QED BY <1>1, <2>1, <2>2, <2>3
<1>4. TypeOK'
  BY <1>2, <1>3 DEF memory
<1> QED BY <1>2, <1>3, <1>4 DEF EndOnlyIfNone, Pending, memory, Active, Showing

(* Every step keeps the invariant.                                         *)
LEMMA StepIInv == IInv /\ [Next]_vars => IInv'
<1> SUFFICES ASSUME IInv, [Next]_vars PROVE IInv'
  OBVIOUS
<1> USE LuaHostAssumption
<1> USE DEF disk, memory, present, threads
<1>1. CASE UNCHANGED vars
  BY <1>1 DEF vars, IInv, TypeOK, Anchored, EndOnlyIfNone, Pending, Active, Showing
<1>2. CASE Load
  BY <1>2, LoadIInv
<1>3. CASE Loaded
  <2>1. overlay' \in 1..End /\ (overlay' = End => Showing(version, handlers) = {})
    BY <1>3, EarliestIsThere, ShowingIsModules DEF Loaded
  <2> QED BY <1>3, <2>1 DEF Loaded, IInv, TypeOK, Anchored, EndOnlyIfNone, Pending, Active, Showing
<1>4. CASE RequestReload
  BY <1>4 DEF RequestReload, IInv, TypeOK, Anchored, EndOnlyIfNone, Pending, Active, Showing
<1>5. CASE Reload
  <2>1. CASE BeginReload
    BY <2>1 DEF BeginReload, IInv, TypeOK, Anchored, EndOnlyIfNone, Pending, Active, Showing, End
  <2>2. CASE EndReload
    BY <2>2 DEF EndReload, IInv, TypeOK, Anchored, EndOnlyIfNone, Pending, Active, Showing
  <2> QED BY <1>5, <2>1, <2>2, KeepOldIInv, TakeNewIInv DEF Reload
<1>6. ASSUME NEW t \in GameThreads, NEW m \in Modules, NEW e \in Events \ {OverlayOn},
             FindHandler(t, m, e)
      PROVE  IInv'
  <2>1. <<m, e>> \in (0..NumModules) \X Events
    BY DEF Modules
  <2> QED BY <1>6, <2>1
          DEF FindHandler, IInv, TypeOK, Anchored, EndOnlyIfNone, Pending, Active, Showing
<1>7. ASSUME NEW t \in GameThreads, Call(t) PROVE IInv'
  BY <1>7, CallIInv
<1>8. ASSUME NEW m \in Modules, Edit(m) PROVE IInv'
  <2>1. file' \in [Modules -> Scripts]
    BY <1>8 DEF Edit, IInv, TypeOK
  <2>2. stamp' \in [Modules -> 0..(MaxEdits + 1)] /\ \A x \in Modules :
          stamp'[x] = 0 => stamp[x] = 0
    <3>1. stamp[m] + 1 \in 1..(MaxEdits + 1)
      BY <1>8 DEF Edit, IInv, TypeOK
    <3> QED BY <1>8, <3>1 DEF Edit, IInv, TypeOK
  <2> QED BY <1>8, <2>1, <2>2
          DEF Edit, IInv, TypeOK, Anchored, EndOnlyIfNone, Pending, Active, Showing
<1>9. ASSUME NEW m \in Modules, PutBack(m) PROVE IInv'
  <2>1. stamp' \in [Modules -> 0..(MaxEdits + 1)]
    BY <1>9 DEF PutBack, IInv, TypeOK
  <2>2. \A x \in Modules : stamp'[x] = 0 => Active(x)
    BY <1>9 DEF PutBack, IInv, TypeOK, Pending
  <2> QED BY <1>9, <2>1, <2>2
          DEF PutBack, IInv, TypeOK, Anchored, EndOnlyIfNone, Pending, Active, Showing
<1> QED BY <1>1, <1>2, <1>3, <1>4, <1>5, <1>6, <1>7, <1>8, <1>9 DEF Next

-----------------------------------------------------------------------------
(* The state of the host has its type.                                     *)
THEOREM HostTypeCorrect == Spec => []TypeOK
<1>1. IInv => TypeOK
  BY DEF IInv
<1>2. IInv /\ [Next]_vars => IInv'
  BY StepIInv
<1> QED BY InitIInv, <1>1, <1>2, PTL DEF Spec

(* Every active module's table stays where its handlers need it, and the   *)
(* context where every call looks for it, until a wrapper pops twice.      *)
THEOREM Anchoring == Spec => []Anchored
<1>1. IInv => Anchored
  BY DEF IInv
<1>2. IInv /\ [Next]_vars => IInv'
  BY StepIInv
<1> QED BY InitIInv, <1>1, <1>2, PTL DEF Spec

(* An overlay that some module has can be reached.                         *)
THEOREM OverlayReachable == Spec => []EndOnlyIfNone
<1>1. IInv => EndOnlyIfNone
  BY DEF IInv
<1>2. IInv /\ [Next]_vars => IInv'
  BY StepIInv
<1> QED BY InitIInv, <1>1, <1>2, PTL DEF Spec
=============================================================================
