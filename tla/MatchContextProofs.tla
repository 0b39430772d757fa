--------------------------- MODULE MatchContextProofs ---------------------------
(* Proofs about MatchContext: for any matches and any threads, what is known  *)
(* is of one match, no handler meets a null pointer it has tested, and the    *)
(* handlers of a match's events see all of it that has been told.             *)
EXTENDS MatchContext, TLAPS

Items == Fields \cup Events

LEMMA ScriptsAreItems ==
  /\ TeamsScript \in Seq(Items)
  /\ SettingsScript \in Seq(Items)
  /\ ChoiceScript \in Seq(Items)
BY DEF TeamsScript, SettingsScript, ChoiceScript, Items, Fields, TeamFields,
       SettingsFields, Events

(* While a hook has something to do, and while the clock runs, there is a     *)
(* match.                                                                     *)
Busy == pending # <<>> \/ playing => match # NoMatch

IInv == TypeOK /\ Busy /\ NeverNull /\ OneMatch /\ StatsAreCurrent

LEMMA Initially == Init => IInv
<1> SUFFICES ASSUME Init PROVE IInv
  OBVIOUS
<1>1. pending \in Seq(Fields \cup Events)
  BY DEF Init
<1>2. lua \in [Threads -> {"out", "in", "stats", "kits"}]
  BY DEF Init
<1>3. \A t, u \in Threads : lua[t] # "out" /\ lua[u] # "out" => t = u
  BY DEF Init
<1>4. ctx \in [Fields -> Matches \cup {NoMatch, Edited}]
  BY DEF Init
<1>5. TypeOK
  BY <1>1, <1>2, <1>3, <1>4 DEF Init, TypeOK
<1>6. NeverNull /\ OneMatch
  BY DEF Init, NeverNull, OneMatch
<1> QED
  BY <1>5, <1>6 DEF Init, IInv, Busy, StatsAreCurrent

LEMMA ClearedIsClear ==
  ASSUME TypeOK
  PROVE  Cleared = [f \in Fields |-> NoMatch]
BY DEF Cleared, ContextFields

(* A hook that begins: a script, of a match.                                  *)
LEMMA BeginningKeeps ==
  ASSUME IInv, NEW script \in Seq(Fields \cup Events), match # NoMatch,
         pending' = script, tournament' \in Matches \cup {NoMatch},
         UNCHANGED <<ctx, pointers, edit, match, playing, lua>>
  PROVE  IInv'
<1>1. TypeOK'
  BY DEF IInv, TypeOK, pointers
<1> QED
  BY <1>1 DEF IInv, Busy, NeverNull, OneMatch, StatsAreCurrent, pointers

(* What a handler does is to move within the lock, or to take or leave it.    *)
LEMMA HandlerKeeps ==
  ASSUME IInv, NEW t \in Threads, NEW s \in {"out", "in", "stats", "kits"},
         lua[t] # "out" \/ ~Locked,
         s = "stats" => sci # NoMatch, s = "kits" => mi # NoMatch,
         lua' = [lua EXCEPT ![t] = s],
         UNCHANGED <<ctx, tournament, pointers, edit, pending, match, playing>>
  PROVE  IInv'
<1>1. \A u \in Threads : u # t => lua[u] = "out"
  BY DEF IInv, TypeOK, Locked
<1>2. \A u \in Threads : lua'[u] = IF u = t THEN s ELSE lua[u]
  BY DEF IInv, TypeOK
<1>3. \A u, w \in Threads : lua'[u] # "out" /\ lua'[w] # "out" => u = w
  BY <1>1, <1>2
<1>4. lua' \in [Threads -> {"out", "in", "stats", "kits"}]
  BY DEF IInv, TypeOK
<1>5. TypeOK'
  BY <1>3, <1>4 DEF IInv, TypeOK, pointers
<1>6. NeverNull'
  BY <1>2 DEF IInv, NeverNull, pointers
<1> QED
  BY <1>5, <1>6 DEF IInv, Busy, OneMatch, StatsAreCurrent, pointers

LEMMA Keeps == IInv /\ [Next]_vars => IInv'
<1> SUFFICES ASSUME IInv, [Next]_vars PROVE IInv'
  OBVIOUS
<1> USE MatchAssumption
<1>1. ASSUME NEW m \in Matches, SelectHome(m) PROVE IInv'
  <2>1. ctx' = [f \in Fields |-> NoMatch]
    BY <1>1, ClearedIsClear DEF IInv, SelectHome
  <2>2. \A t \in Threads : lua'[t] = "out"
    BY <1>1 DEF SelectHome, Locked, IInv, TypeOK
  <2>3. TypeOK'
    BY <1>1, <2>1 DEF SelectHome, IInv, TypeOK
  <2>4. NeverNull'
    BY <2>2 DEF NeverNull
  <2>5. OneMatch'
    BY <2>1 DEF OneMatch
  <2> QED
    BY <1>1, <2>3, <2>4, <2>5 DEF SelectHome, AtMenu, IInv, Busy, StatsAreCurrent
<1>2. CASE SelectAway
  BY <1>2, BeginningKeeps, ScriptsAreItems
  DEF SelectAway, AtMenu, IInv, TypeOK, Items
<1>3. CASE SetStadiumChoice
  BY <1>3, BeginningKeeps, ScriptsAreItems
  DEF SetStadiumChoice, Selected, IInv, TypeOK, Items
<1>4. CASE SetSettings
  BY <1>4, BeginningKeeps, ScriptsAreItems
  DEF SetSettings, Selected, IInv, TypeOK, Items
<1>5. CASE ContextReset
  <2>1. ctx' = [f \in Fields |-> NoMatch]
    BY <1>5, ClearedIsClear DEF IInv, ContextReset
  <2>2. \A t \in Threads : lua[t] = "out"
    BY <1>5 DEF ContextReset, Locked, IInv, TypeOK
  <2>3. lua' \in [Threads -> {"out", "in", "stats", "kits"}]
    BY <1>5 DEF ContextReset, IInv, TypeOK
  <2>4. \A t \in Threads : lua'[t] = IF t = Game THEN "in" ELSE "out"
    BY <1>5, <2>2 DEF ContextReset, IInv, TypeOK
  <2>5. \A t, u \in Threads : lua'[t] # "out" /\ lua'[u] # "out" => t = u
    BY <2>4
  <2>6. TypeOK'
    BY <1>5, <2>1, <2>3, <2>5 DEF ContextReset, IInv, TypeOK
  <2>7. NeverNull'
    BY <2>4 DEF NeverNull
  <2>8. OneMatch'
    BY <2>1 DEF OneMatch
  <2> QED
    BY <1>5, <2>6, <2>7, <2>8
    DEF ContextReset, AtMenu, IInv, Busy, StatsAreCurrent
<1>6. ASSUME NEW team \in {Edited, NoMatch}, SetEditTeam(team) PROVE IInv'
  <2>1. TypeOK'
    BY <1>6 DEF SetEditTeam, IInv, TypeOK, pointers
  <2>2. \A f \in Fields : ctx'[f] = IF f = "home_team" THEN team ELSE ctx[f]
    BY <1>6 DEF SetEditTeam, IInv, TypeOK
  <2>3. OneMatch'
    BY <1>6, <2>2 DEF SetEditTeam, IInv, OneMatch
  <2> QED
    BY <1>6, <2>1, <2>3
    DEF SetEditTeam, IInv, Busy, NeverNull, StatsAreCurrent, pointers
<1>7. CASE KeepMatchInfo
  <2>1. match # NoMatch
    BY <1>7 DEF KeepMatchInfo, IInv, Busy
  <2>2. TypeOK'
    BY <1>7 DEF KeepMatchInfo, IInv, TypeOK
  <2> QED
    BY <1>7, <2>1, <2>2
    DEF KeepMatchInfo, IInv, Busy, NeverNull, OneMatch, StatsAreCurrent
<1>8. CASE SetField
  <2> DEFINE f == Head(pending)
  <2>1. f \in Fields /\ pending \in Seq(Fields \cup Events) /\ pending # <<>>
    BY <1>8 DEF SetField, IInv, TypeOK
  <2>2. Tail(pending) \in Seq(Fields \cup Events)
    BY <2>1
  <2>3. Written(f) \in {NoMatch, match, ctx[f]}
    BY DEF Written
  <2>4. ctx[f] \in Matches \cup {NoMatch, Edited} /\ match \in Matches \cup {NoMatch}
    BY <2>1 DEF IInv, TypeOK
  <2>5. ctx' = [ctx EXCEPT ![f] = Written(f)]
    BY <1>8 DEF SetField
  <2>6. ctx' \in [Fields -> Matches \cup {NoMatch, Edited}]
    BY <2>3, <2>4, <2>5 DEF IInv, TypeOK
  <2>7. \A g \in Fields : ctx'[g] = IF g = f THEN Written(f) ELSE ctx[g]
    BY <2>5 DEF IInv, TypeOK
  <2>8. TypeOK'
    BY <1>8, <2>2, <2>6 DEF SetField, IInv, TypeOK, pointers
  <2>9. match' = match /\ OneMatch
    BY <1>8 DEF SetField, IInv
  <2>10. OneMatch'
    BY <2>1, <2>3, <2>7, <2>9 DEF OneMatch
  <2> QED
    BY <1>8, <2>8, <2>10
    DEF SetField, IInv, Busy, NeverNull, StatsAreCurrent, pointers
<1>9. CASE Fired
  <2>1. Tail(pending) \in Seq(Fields \cup Events)
    BY <1>9 DEF Fired, IInv, TypeOK
  <2>2. TypeOK'
    BY <1>9, <2>1 DEF Fired, IInv, TypeOK, pointers
  <2> QED
    BY <1>9, <2>2
    DEF Fired, IInv, Busy, NeverNull, OneMatch, StatsAreCurrent, pointers
<1>10. ASSUME NEW t \in Threads,
              Begin(t) \/ AskStats(t) \/ AskKits(t) \/ Answer(t) \/ End(t)
       PROVE IInv'
  <2>1. CASE Begin(t)
    BY <2>1, HandlerKeeps DEF Begin
  <2>2. CASE AskStats(t)
    BY <2>2, HandlerKeeps DEF AskStats
  <2>3. CASE AskKits(t)
    BY <2>3, HandlerKeeps DEF AskKits
  <2>4. CASE Answer(t)
    BY <2>4, HandlerKeeps DEF Answer
  <2>5. CASE End(t)
    BY <2>5, HandlerKeeps DEF End
  <2> QED
    BY <1>10, <2>1, <2>2, <2>3, <2>4, <2>5
<1>11. CASE Play
  <2>1. match # NoMatch
    BY <1>11 DEF Play, Selected, IInv, Busy
  <2>2. TypeOK'
    BY <1>11 DEF Play, IInv, TypeOK, pointers
  <2> QED
    BY <1>11, <2>1, <2>2
    DEF Play, IInv, Busy, NeverNull, OneMatch, StatsAreCurrent, pointers
<1>12. CASE Tick
  <2>1. match # NoMatch
    BY <1>12 DEF Tick, IInv, Busy
  <2>2. TypeOK'
    BY <1>12 DEF Tick, IInv, TypeOK
  <2> QED
    BY <1>12, <2>1, <2>2
    DEF Tick, IInv, Busy, NeverNull, OneMatch, StatsAreCurrent
<1>13. CASE ClearScoreboard
  <2>1. \A t \in Threads : lua'[t] = "out"
    BY <1>13 DEF ClearScoreboard, Locked
  <2>2. TypeOK'
    BY <1>13 DEF ClearScoreboard, IInv, TypeOK
  <2>3. NeverNull'
    BY <2>1 DEF NeverNull
  <2> QED
    BY <1>13, <2>2, <2>3
    DEF ClearScoreboard, IInv, Busy, OneMatch, StatsAreCurrent
<1>14. CASE UNCHANGED vars
  BY <1>14 DEF vars, pointers, IInv, TypeOK, Busy, NeverNull, OneMatch, StatsAreCurrent
<1> QED
  BY <1>1, <1>2, <1>3, <1>4, <1>5, <1>6, <1>7, <1>8, <1>9, <1>10, <1>11, <1>12,
     <1>13, <1>14 DEF Next

LEMMA Always == Spec => []IInv
BY Initially, Keeps, PTL DEF Spec

(* The state keeps its shape, and one thread at a time runs Lua.              *)
THEOREM MatchTypeCorrect == Spec => []TypeOK
<1>1. IInv => TypeOK
  BY DEF IInv
<1> QED
  BY <1>1, Always, PTL

(* No handler meets a null pointer it has tested, with any number of threads. *)
THEOREM HandlersAreSafe == Spec => []NeverNull
<1>1. IInv => NeverNull
  BY DEF IInv
<1> QED
  BY <1>1, Always, PTL

(* The context never mixes two matches, at any point of any hook, except in   *)
(* the fields that are documented to outlast their match.                     *)
THEOREM ContextIsOfOneMatch == Spec => []OneMatch
<1>1. IInv => OneMatch
  BY DEF IInv
<1> QED
  BY <1>1, Always, PTL

(* The scoreboard is never an earlier match's.                                *)
THEOREM ScoreIsOfTheMatch == Spec => []StatsAreCurrent
<1>1. IInv => StatsAreCurrent
  BY DEF IInv
<1> QED
  BY <1>1, Always, PTL
-----------------------------------------------------------------------------
(* What a handler of the match's events sees.                                 *)

(* The fields every match has a value of.                                     *)
Certain == Fields \ {"match_leg", "match_info"}

AllTold ==
  /\ mi = match /\ tournament = match
  /\ \A f \in TeamFields \cap Certain : ctx[f] = match

(* The game is in a hook, the first k items of which are done.                *)
Within(script, k) ==
  /\ Len(pending) = Len(script) - k
  /\ \A i \in 1..Len(pending) : pending[i] = script[k + i]
  /\ \A i \in 1..k : script[i] \in Certain => ctx[script[i]] = match

InTeams ==
  /\ tournament = match
  /\ \E k \in 0..Len(TeamsScript) :
       Within(TeamsScript, k) /\ (k > 2 => mi = match)

InLater ==
  /\ AllTold
  /\ \E script \in {SettingsScript, ChoiceScript} :
       \E k \in 0..Len(script) : Within(script, k)

(* A hook works through its script; between two hooks, an away team that is   *)
(* set says that the script of the teams is done.                             *)
InHook == pending # <<>> => InTeams \/ InLater

BetweenHooks ==
  pending = <<>> /\ match # NoMatch /\ ctx["away_team"] = match => AllTold

(* Of the game's own handlers, only those of the event it fires run.          *)
AtEvent == lua[Game] # "out" /\ pending # <<>> => Head(pending) \in Events

ToldInv == InHook /\ BetweenHooks /\ AtEvent

(* What the scripts are, as far as the proof has to know.                     *)
LEMMA TeamsAreTold ==
  /\ TeamsScript \in Seq(Items) /\ Len(TeamsScript) = 9
  /\ TeamsScript[3] = "mis"
  /\ \A f \in TeamFields : \E i \in 1..8 : TeamsScript[i] = f
  /\ \A i \in 1..8 : TeamsScript[i] \in TeamFields
  /\ TeamsScript[9] = "set_teams"
<1>1. 1..8 = {1, 2, 3, 4, 5, 6, 7, 8}
  OBVIOUS
<1> QED
  BY <1>1, ScriptsAreItems DEF TeamsScript, TeamFields

LEMMA SettingsAreTold ==
  /\ SettingsScript \in Seq(Items) /\ Len(SettingsScript) = 17
  /\ \A f \in SettingsFields : \E i \in 1..16 : SettingsScript[i] = f
  /\ \A i \in 1..16 : SettingsScript[i] # "after_set_conditions"
<1>1. 1..16 = {1, 2, 3, 4, 5, 6, 7, 8, 9, 10, 11, 12, 13, 14, 15, 16}
  OBVIOUS
<1> QED
  BY <1>1, ScriptsAreItems DEF SettingsScript, SettingsFields

LEMMA ChoiceIsTold ==
  /\ ChoiceScript \in Seq(Items) /\ Len(ChoiceScript) = 2
  /\ \A i \in 1..2 : ChoiceScript[i] # "after_set_conditions"
BY ScriptsAreItems DEF ChoiceScript

(* A field is no event.                                                       *)
LEMMA FieldsAreNoEvents == Fields \cap Events = {}
BY DEF Fields, SettingsFields, TeamFields, Events

LEMMA ScriptBegins ==
  ASSUME NEW script \in Seq(Items), pending' = script
  PROVE  Within(script, 0)'
BY DEF Within

LEMMA WithinStays ==
  ASSUME NEW script, NEW k, Within(script, k), UNCHANGED <<ctx, pending, match>>
  PROVE  Within(script, k)'
BY DEF Within

(* The item at the head is done: of a field, it is set to the match's value.  *)
LEMMA ScriptAdvances ==
  ASSUME TypeOK, NEW script \in Seq(Items), NEW k \in 0..Len(script),
         Within(script, k), pending # <<>>, SetField \/ Fired
  PROVE  /\ k + 1 \in 0..Len(script)
         /\ Head(pending) = script[k + 1]
         /\ Within(script, k + 1)'
<1>1. pending \in Seq(Items) /\ Len(pending) = Len(script) - k /\ Len(pending) > 0
  BY DEF TypeOK, Items, Within
<1>2. Head(pending) = script[k + 1] /\ k + 1 \in 0..Len(script)
  BY <1>1 DEF Within
<1>3. pending' = Tail(pending) /\ match' = match
  BY DEF SetField, Fired
<1>4. /\ Len(pending') = Len(script) - (k + 1)
      /\ \A i \in 1..Len(pending') : pending'[i] = script[(k + 1) + i]
  <2>1. Len(pending') = Len(pending) - 1
    BY <1>1, <1>3
  <2>2. ASSUME NEW i \in 1..Len(pending') PROVE pending'[i] = script[(k + 1) + i]
    <3>1. i + 1 \in 1..Len(pending) /\ pending'[i] = pending[i + 1]
      BY <1>1, <1>3, <2>1
    <3>2. k + (i + 1) = (k + 1) + i
      BY <1>1, <2>1
    <3> QED
      BY <3>1, <3>2 DEF Within
  <2>3. Len(script) \in Nat /\ Len(pending) \in Nat
    BY <1>1
  <2>4. Len(pending') = Len(script) - (k + 1)
    BY <1>1, <2>1, <2>3
  <2> QED
    BY <2>2, <2>4
<1>5. ASSUME NEW i \in 1..(k + 1), script[i] \in Certain
      PROVE  ctx'[script[i]] = match'
  <2>1. CASE SetField
    <3>1. ctx' = [ctx EXCEPT ![Head(pending)] = Written(Head(pending))]
      BY <2>1 DEF SetField
    <3>2. script[i] \in Fields /\ Written(script[i]) = match
      BY <1>5 DEF Certain, Written
    <3>3. ctx'[script[i]] = IF script[i] = script[k + 1] THEN match ELSE ctx[script[i]]
      BY <1>2, <3>1, <3>2 DEF TypeOK
    <3>4. i \in 1..k \/ i = k + 1
      OBVIOUS
    <3> QED
      BY <1>3, <1>5, <3>3, <3>4 DEF Within
  <2>2. CASE Fired
    <3>1. Head(pending) \in Events /\ ctx' = ctx
      BY <2>2 DEF Fired
    <3>2. i \in 1..k
      BY <1>2, <1>5, <3>1, FieldsAreNoEvents DEF Certain
    <3> QED
      BY <1>3, <1>5, <3>1, <3>2 DEF Within
  <2> QED
    BY <2>1, <2>2
<1> QED
  BY <1>2, <1>4, <1>5 DEF Within

(* Once the away team is set, all the teams' fields are.                      *)
LEMMA TeamsTellAll ==
  ASSUME NEW c, NEW m,
         \A i \in 1..8 : TeamsScript[i] \in Certain => c[TeamsScript[i]] = m
  PROVE  \A f \in TeamFields \cap Certain : c[f] = m
<1> SUFFICES ASSUME NEW f \in TeamFields \cap Certain PROVE c[f] = m
  OBVIOUS
<1>1. PICK i \in 1..8 : TeamsScript[i] = f
  BY TeamsAreTold
<1> QED
  BY <1>1

LEMMA AllToldStays ==
  ASSUME TypeOK, AllTold, SetField \/ Fired
  PROVE  AllTold'
<1>1. UNCHANGED <<mi, match, tournament>>
  BY DEF SetField, Fired, pointers
<1>2. ASSUME NEW f \in TeamFields \cap Certain PROVE ctx'[f] = ctx[f] \/ ctx'[f] = match
  <2>1. CASE SetField
    <3>1. ctx' = [ctx EXCEPT ![Head(pending)] = Written(Head(pending))]
      BY <2>1 DEF SetField
    <3>2. Written(f) = match /\ f \in Fields
      BY DEF Certain, Written
    <3> QED
      BY <3>1, <3>2 DEF TypeOK
  <2>2. CASE Fired
    BY <2>2 DEF Fired
  <2> QED
    BY <2>1, <2>2
<1> QED
  BY <1>1, <1>2 DEF AllTold

LEMMA ToldInitially == Init => ToldInv
BY DEF Init, ToldInv, InHook, BetweenHooks, AtEvent, Threads

(* What disturbs none of it: another pointer, the clock, another's handler.   *)
LEMMA ToldStays ==
  ASSUME ToldInv, UNCHANGED <<ctx, tournament, mi, pending, match>>,
         lua'[Game] # "out" => lua[Game] # "out"
  PROVE  ToldInv'
<1>1. AllTold => AllTold'
  BY DEF AllTold
<1>2. InTeams => InTeams'
  BY WithinStays DEF InTeams
<1>3. InLater => InLater'
  BY <1>1, WithinStays DEF InLater
<1> QED
  BY <1>1, <1>2, <1>3 DEF ToldInv, InHook, BetweenHooks, AtEvent

(* A hook begins: the game's thread is in no handler.                         *)
LEMMA ToldFromTheStart ==
  ASSUME ToldInv, AtMenu, pending' # <<>>, UNCHANGED lua,
         InTeams' \/ InLater'
  PROVE  ToldInv'
BY DEF ToldInv, InHook, BetweenHooks, AtEvent, AtMenu

(* No match is selected, or its away team is not set.                         *)
LEMMA ToldWithoutAMatch ==
  ASSUME pending' = <<>>, match' = NoMatch \/ ctx'["away_team"] # match'
  PROVE  ToldInv'
BY DEF ToldInv, InHook, BetweenHooks, AtEvent

(* The hook goes on by an item.                                               *)
LEMMA ToldAdvances ==
  ASSUME IInv, ToldInv, SetField \/ Fired
  PROVE  ToldInv'
<1>1. /\ TypeOK /\ pending # <<>> /\ pending' = Tail(pending)
      /\ UNCHANGED <<tournament, mi, match, lua>>
  BY DEF IInv, SetField, Fired, pointers
<1>2. lua'[Game] = "out"
  BY <1>1 DEF SetField, Fired, Locked, Threads
<1>3. CASE InTeams
  <2>1. PICK k \in 0..Len(TeamsScript) :
          Within(TeamsScript, k) /\ (k > 2 => mi = match)
    BY <1>3 DEF InTeams
  <2>2. /\ k + 1 \in 0..Len(TeamsScript)
        /\ Head(pending) = TeamsScript[k + 1]
        /\ Within(TeamsScript, k + 1)'
    BY <1>1, <2>1, TeamsAreTold, ScriptAdvances
  <2>3. k + 1 > 2 => mi' = match'
    <3>1. CASE k = 2
      <4>1. Head(pending) = "mis"
        BY <2>2, <3>1, TeamsAreTold
      <4>2. SetField
        BY <4>1 DEF Fired, Events
      <4> QED
        BY <1>1, <4>1, <4>2 DEF SetField
    <3> QED
      BY <1>1, <2>1, <3>1
  <2>4. InTeams'
    BY <1>1, <1>3, <2>2, <2>3 DEF InTeams
  <2>5. pending' = <<>> => k + 1 = 9
    <3>1. Len(pending') = 9 - (k + 1)
      BY <2>2, TeamsAreTold DEF Within
    <3> QED
      BY <3>1, <2>1, TeamsAreTold
  <2>6. pending' = <<>> => AllTold'
    <3> SUFFICES ASSUME pending' = <<>> PROVE AllTold'
      OBVIOUS
    <3>1. \A i \in 1..8 :
            TeamsScript[i] \in Certain => ctx'[TeamsScript[i]] = match'
      BY <2>2, <2>5 DEF Within
    <3>2. \A f \in TeamFields \cap Certain : ctx'[f] = match'
      BY <3>1, TeamsTellAll
    <3>3. mi' = match' /\ tournament' = match'
      BY <2>3, <2>4, <2>5 DEF InTeams
    <3> QED
      BY <3>2, <3>3 DEF AllTold
  <2> QED
    BY <1>2, <2>4, <2>6 DEF ToldInv, InHook, BetweenHooks, AtEvent
<1>4. CASE InLater
  <2>1. PICK script \in {SettingsScript, ChoiceScript} :
          \E k \in 0..Len(script) : Within(script, k)
    BY <1>4 DEF InLater
  <2>2. PICK k \in 0..Len(script) : Within(script, k)
    BY <2>1
  <2>3. script \in Seq(Items)
    BY SettingsAreTold, ChoiceIsTold
  <2>4. k + 1 \in 0..Len(script) /\ Within(script, k + 1)'
    BY <1>1, <2>2, <2>3, ScriptAdvances
  <2>5. AllTold'
    BY <1>1, <1>4, AllToldStays DEF InLater
  <2>6. InLater'
    BY <2>4, <2>5 DEF InLater
  <2> QED
    BY <1>2, <2>5, <2>6 DEF ToldInv, InHook, BetweenHooks, AtEvent
<1> QED
  BY <1>1, <1>3, <1>4 DEF ToldInv, InHook

LEMMA ToldKeeps == IInv /\ ToldInv /\ [Next]_vars => ToldInv'
<1> SUFFICES ASSUME IInv, ToldInv, [Next]_vars PROVE ToldInv'
  OBVIOUS
<1> USE MatchAssumption
<1> TypeOK
  BY DEF IInv
<1>1. ASSUME NEW m \in Matches, SelectHome(m) PROVE ToldInv'
  BY <1>1, ClearedIsClear, ToldWithoutAMatch
  DEF SelectHome, AtMenu, Fields, TeamFields
<1>2. CASE SelectAway
  <2>1. pending' = TeamsScript /\ tournament' = match'
    BY <1>2 DEF SelectAway
  <2>2. Within(TeamsScript, 0)' /\ 0 \in 0..Len(TeamsScript) /\ pending' # <<>>
    BY <2>1, ScriptBegins, TeamsAreTold
  <2>3. InTeams'
    BY <2>1, <2>2 DEF InTeams
  <2> QED
    BY <1>2, <2>2, <2>3, ToldFromTheStart DEF SelectAway
<1>3. ASSUME NEW script \in {SettingsScript, ChoiceScript},
             Selected, pending' = script,
             UNCHANGED <<ctx, tournament, pointers, match, lua>>
      PROVE  ToldInv'
  <2>1. AtMenu /\ AllTold
    BY <1>3 DEF Selected, AtMenu, ToldInv, BetweenHooks
  <2>2. AllTold'
    BY <1>3, <2>1 DEF AllTold, pointers
  <2>3. script \in Seq(Items) /\ 0 \in 0..Len(script) /\ script # <<>>
    <3>1. CASE script = SettingsScript
      BY <3>1, SettingsAreTold
    <3>2. CASE script = ChoiceScript
      BY <3>2, ChoiceIsTold
    <3> QED
      BY <3>1, <3>2
  <2>4. Within(script, 0)'
    BY <1>3, <2>3, ScriptBegins
  <2>5. InLater'
    BY <2>2, <2>3, <2>4 DEF InLater
  <2> QED
    BY <1>3, <2>1, <2>3, <2>5, ToldFromTheStart
<1>4. CASE ContextReset
  BY <1>4, ToldWithoutAMatch DEF ContextReset, AtMenu
<1>5. ASSUME NEW team \in {Edited, NoMatch}, SetEditTeam(team) PROVE ToldInv'
  BY <1>5, ToldWithoutAMatch DEF SetEditTeam, AtMenu
<1>6. CASE KeepMatchInfo
  <2>1. UNCHANGED <<ctx, tournament, pending, match, lua>> /\ mi' = match
    BY <1>6 DEF KeepMatchInfo
  <2>2. AllTold => AllTold'
    BY <2>1 DEF AllTold
  <2>3. InTeams => InTeams'
    BY <2>1, WithinStays DEF InTeams
  <2>4. InLater => InLater'
    BY <2>1, <2>2, WithinStays DEF InLater
  <2> QED
    BY <2>1, <2>2, <2>3, <2>4 DEF ToldInv, InHook, BetweenHooks, AtEvent
<1>7. CASE SetField \/ Fired
  BY <1>7, ToldAdvances
<1>8. ASSUME NEW t \in Threads,
             Begin(t) \/ AskStats(t) \/ AskKits(t) \/ Answer(t) \/ End(t)
      PROVE  ToldInv'
  <2>1. CASE Begin(Game) /\ t = Game
    <3>1. /\ UNCHANGED <<ctx, tournament, mi, pending, match>>
          /\ Head(pending) \in Events
      BY <2>1 DEF Begin, pointers
    <3>2. AllTold => AllTold'
      BY <3>1 DEF AllTold
    <3>3. InTeams => InTeams'
      BY <3>1, WithinStays DEF InTeams
    <3>4. InLater => InLater'
      BY <3>1, <3>2, WithinStays DEF InLater
    <3> QED
      BY <3>1, <3>2, <3>3, <3>4 DEF ToldInv, InHook, BetweenHooks, AtEvent
  <2>2. CASE ~(Begin(Game) /\ t = Game)
    <3>1. UNCHANGED <<ctx, tournament, mi, pending, match>>
      BY <1>8 DEF Begin, AskStats, AskKits, Answer, End, pointers
    <3>2. lua'[Game] # "out" => lua[Game] # "out"
      BY <1>8, <2>2 DEF Begin, AskStats, AskKits, Answer, End, TypeOK, Threads
    <3> QED
      BY <3>1, <3>2, ToldStays
  <2> QED
    BY <2>1, <2>2
<1>9. CASE Play \/ Tick \/ ClearScoreboard \/ UNCHANGED vars
  <2>1. UNCHANGED <<ctx, tournament, mi, pending, match, lua>>
    BY <1>9 DEF Play, Tick, ClearScoreboard, vars, pointers
  <2> QED
    BY <2>1, ToldStays
<1> QED
  BY <1>1, <1>2, <1>3, <1>4, <1>5, <1>6, <1>7, <1>8, <1>9
  DEF Next, SetStadiumChoice, SetSettings

LEMMA ToldSees ==
  ASSUME TypeOK, ToldInv
  PROVE  SeesTheMatch
<1> SUFFICES ASSUME lua[Game] # "out", pending # <<>>
             PROVE  /\ AllTold
                    /\ Head(pending) = "after_set_conditions" =>
                         \A f \in SettingsFields : ctx[f] = match
  <2>1. "stadium_choice" \in TeamFields \ {"match_leg", "match_info"}
    BY DEF TeamFields
  <2>2. TeamFields \ {"match_leg", "match_info"} \subseteq Certain
    BY DEF Certain, Fields
  <2>3. AllTold =>
          /\ mi = match /\ tournament = match
          /\ \A f \in TeamFields \ {"match_leg", "match_info"} : ctx[f] = match
    BY <2>2 DEF AllTold
  <2> QED
    BY <2>1, <2>3 DEF SeesTheMatch
<1>1. Head(pending) \in Events /\ (InTeams \/ InLater)
  BY DEF ToldInv, AtEvent, InHook
<1>2. pending \in Seq(Items)
  BY DEF TypeOK, Items
<1>3. CASE InTeams
  <2>1. PICK k \in 0..Len(TeamsScript) :
          Within(TeamsScript, k) /\ (k > 2 => mi = match)
    BY <1>3 DEF InTeams
  <2>2. k + 1 \in 1..9 /\ Head(pending) = TeamsScript[k + 1]
    BY <1>2, <2>1, TeamsAreTold DEF Within
  <2>3. k + 1 \notin 1..8
    BY <1>1, <2>2, TeamsAreTold, FieldsAreNoEvents DEF Fields
  <2>4. k = 8
    BY <2>2, <2>3
  <2>5. Head(pending) = "set_teams"
    BY <2>2, <2>4, TeamsAreTold
  <2>6. AllTold
    <3>1. \A i \in 1..8 :
            TeamsScript[i] \in Certain => ctx[TeamsScript[i]] = match
      BY <2>1, <2>4 DEF Within
    <3>2. \A f \in TeamFields \cap Certain : ctx[f] = match
      BY <3>1, TeamsTellAll
    <3> QED
      BY <1>3, <2>1, <2>4, <3>2 DEF InTeams, AllTold
  <2> QED
    BY <2>5, <2>6
<1>4. CASE InLater
  <2>1. PICK script \in {SettingsScript, ChoiceScript} :
          \E k \in 0..Len(script) : Within(script, k)
    BY <1>4 DEF InLater
  <2>2. PICK k \in 0..Len(script) : Within(script, k)
    BY <2>1
  <2>3. k + 1 \in 1..Len(script) /\ Head(pending) = script[k + 1]
    <3>1. script \in Seq(Items) /\ Len(pending) = Len(script) - k
      BY <2>2, SettingsAreTold, ChoiceIsTold DEF Within
    <3>2. Len(pending) > 0 /\ Len(script) \in Nat
      BY <1>2, <3>1
    <3> QED
      BY <1>2, <2>2, <3>1, <3>2 DEF Within
  <2>4. ASSUME Head(pending) = "after_set_conditions", NEW f \in SettingsFields
        PROVE  ctx[f] = match
    <3>1. script = SettingsScript
      BY <2>3, <2>4, ChoiceIsTold
    <3>2. k = 16
      BY <2>3, <2>4, <3>1, SettingsAreTold
    <3>3. PICK i \in 1..16 : SettingsScript[i] = f
      BY SettingsAreTold
    <3>4. f \in Certain
      BY DEF Certain, Fields, SettingsFields
    <3> QED
      BY <2>2, <3>1, <3>2, <3>3, <3>4 DEF Within
  <2> QED
    BY <1>4, <2>4 DEF InLater
<1> QED
  BY <1>1, <1>3, <1>4

(* Whatever a handler of the match's events asks, it is answered of the match *)
(* being set up, and of all of it that the hooks have been told by then; the  *)
(* stadium's choice, until the stadium is set.                                *)
THEOREM HandlersSeeTheMatch == Spec => []SeesTheMatch
<1>1. Init => IInv /\ ToldInv
  BY Initially, ToldInitially
<1>2. (IInv /\ ToldInv) /\ [Next]_vars => (IInv /\ ToldInv)'
  BY Keeps, ToldKeeps
<1>3. IInv /\ ToldInv => SeesTheMatch
  BY ToldSees DEF IInv
<1> QED
  BY <1>1, <1>2, <1>3, PTL DEF Spec

=============================================================================
