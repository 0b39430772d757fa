------------------------------ MODULE MatchContext ------------------------------
(***************************************************************************)
(* What the modules know of a match: the fields of the context table that  *)
(* sider sets (_context_fields), and the two pointers into the game, _mi   *)
(* to the match's settings and _sci to its scoreboard, which handlers read *)
(* under _cs.  The game calls sider's hooks from one thread in the order   *)
(* of a match: home team, away team, stadium, settings.  A clock of the    *)
(* game's stores _sci without the lock.  A value is the match it is of.    *)
(***************************************************************************)
EXTENDS Integers, Sequences

CONSTANTS
  Matches,
  WithInfo,    \* the matches whose match_info is in range
  WithLeg,     \* the matches of two legs
  Game,        \* the game's thread that calls the hooks of a match
  Others,      \* its threads whose events run handlers too (files, keys)
  Edited,      \* the team of the edit mode
  NoMatch      \* null, nil, 0xffff

Threads == {Game} \cup Others

ASSUME MatchAssumption ==
  /\ WithInfo \subseteq Matches /\ WithLeg \subseteq Matches
  /\ Game \notin Others /\ Edited \notin Matches
  /\ NoMatch \notin Matches \cup {Edited}

VARIABLES
  ctx,          \* the context table
  tournament,   \* _tournament_id
  mi, sci,      \* _mi and _sci
  edit,         \* _edit_team_id, and ctx.edit_mode_team, which goes with it
  pending,      \* what the hook the game is in has yet to do
  match,        \* the match the game selects, or plays: external
  playing,      \* the clock runs: external
  lua           \* where a thread is in a handler, which it runs under _cs

pointers == <<mi, sci>>
vars == <<ctx, tournament, pointers, edit, pending, match, playing, lua>>

SettingsFields ==
  {"stadium", "timeofday", "weather", "weather_effects", "season",
   "length_of_grass", "field_conditions", "difficulty", "extra_time",
   "penalties", "substitutions", "substitutions_in_extra_time"}

TeamFields ==
  {"tournament_id", "stadium_choice", "mis", "match_leg", "match_id",
   "match_info", "home_team", "away_team"}

Fields == SettingsFields \cup TeamFields

\* Mutant of ContextFields: a field the clearing forgets.
ContextFieldsButOne == Fields \ {"match_info"}

(* _context_fields; "sci", which it lists too, is set by nothing.          *)
ContextFields == Fields

Events ==
  {"set_teams", "set_stadium_choice", "set_match_time", "set_stadium",
   "set_conditions", "set_match_settings", "after_set_conditions"}

\* Mutant of TeamsScript: the modules are told before they can know.
ToldTooEarly ==
  <<"tournament_id", "stadium_choice", "mis", "match_leg", "match_id",
    "match_info", "set_teams", "home_team", "away_team">>

(* A hook as the fields it sets and the events it fires, in order.         *)
TeamsScript ==
  <<"tournament_id", "stadium_choice", "mis", "match_leg", "match_id",
    "match_info", "home_team", "away_team", "set_teams">>

SettingsScript ==
  <<"set_match_time", "set_stadium", "stadium",
    "set_conditions", "timeofday", "weather", "weather_effects", "season",
    "length_of_grass", "field_conditions",
    "set_match_settings", "difficulty", "extra_time", "penalties",
    "substitutions", "substitutions_in_extra_time",
    "after_set_conditions">>

ChoiceScript == <<"set_stadium_choice", "stadium_choice">>

Locked == \E t \in Threads : lua[t] # "out"

Cleared ==
  [f \in Fields |-> IF f \in ContextFields THEN NoMatch ELSE ctx[f]]

Init ==
  /\ ctx = [f \in Fields |-> NoMatch]
  /\ tournament = NoMatch /\ mi = NoMatch /\ sci = NoMatch
  /\ edit = NoMatch
  /\ pending = <<>> /\ match = NoMatch /\ playing = FALSE
  /\ lua = [t \in Threads |-> "out"]
-----------------------------------------------------------------------------
(* The hooks of the game's thread, which has no other one to finish.       *)

AtMenu == pending = <<>> /\ lua[Game] = "out" /\ ~playing

Selected == AtMenu /\ match # NoMatch /\ ctx["away_team"] = match

\* Mutant of SelectHome: the scoreboard of the last match stays.
SelectHomeOnly(m) ==
  /\ AtMenu /\ ~Locked
  /\ match' = m /\ ctx' = Cleared
  /\ UNCHANGED <<tournament, pointers, edit, pending, playing, lua>>

(* A match's first hook: the home team is set.                             *)
SelectHome(m) ==
  /\ AtMenu /\ ~Locked
  /\ match' = m
  /\ ctx' = Cleared /\ sci' = NoMatch
  /\ UNCHANGED <<tournament, mi, edit, pending, playing, lua>>

SelectAway ==
  /\ AtMenu /\ match # NoMatch
  /\ tournament' = match
  /\ pending' = TeamsScript
  /\ UNCHANGED <<ctx, pointers, edit, match, playing, lua>>

(* The modules are asked only when the game repeats its choice.            *)
SetStadiumChoice ==
  /\ Selected
  /\ pending' = ChoiceScript
  /\ UNCHANGED <<ctx, tournament, pointers, edit, match, playing, lua>>

SetSettings ==
  /\ Selected
  /\ pending' = SettingsScript
  /\ UNCHANGED <<ctx, tournament, pointers, edit, match, playing, lua>>

(* The reset, and the event it fires before it leaves the lock.            *)
ContextReset ==
  /\ AtMenu /\ ~Locked
  /\ ctx' = Cleared
  /\ tournament' = NoMatch /\ mi' = NoMatch /\ sci' = NoMatch
  /\ match' = NoMatch
  /\ lua' = [lua EXCEPT ![Game] = "in"]
  /\ UNCHANGED <<edit, pending, playing>>

SetEditTeam(team) ==
  /\ AtMenu /\ ~Locked /\ match = NoMatch
  /\ edit # team
  /\ edit' = team
  /\ ctx' = [ctx EXCEPT !["home_team"] = team]
  /\ UNCHANGED <<tournament, pointers, pending, match, playing, lua>>
-----------------------------------------------------------------------------
(* Within a hook: a field is one critical section.                         *)

Written(f) ==
  IF f = "match_leg" /\ match \notin WithLeg THEN NoMatch
  ELSE IF f = "match_info" /\ match \notin WithInfo THEN ctx[f]
  ELSE match

KeepMatchInfo ==
  /\ pending # <<>> /\ Head(pending) = "mis" /\ mi # match
  /\ mi' = match
  /\ UNCHANGED <<ctx, tournament, sci, edit, pending, match, playing, lua>>

SetField ==
  /\ pending # <<>> /\ Head(pending) \in Fields /\ ~Locked
  /\ Head(pending) = "mis" => mi = match
  /\ ctx' = [ctx EXCEPT ![Head(pending)] = Written(Head(pending))]
  /\ pending' = Tail(pending)
  /\ UNCHANGED <<tournament, pointers, edit, match, playing, lua>>

(* All the modules that handle the event have been called.                 *)
Fired ==
  /\ pending # <<>> /\ Head(pending) \in Events /\ lua[Game] = "out"
  /\ pending' = Tail(pending)
  /\ UNCHANGED <<ctx, tournament, pointers, edit, match, playing, lua>>
-----------------------------------------------------------------------------
(* Handlers, and what they may ask for.                                    *)

\* Mutant of Begin: a handler is called without the lock.
BeginUnlocked(t) ==
  /\ lua[t] = "out"
  /\ t = Game => pending # <<>> /\ Head(pending) \in Events
  /\ lua' = [lua EXCEPT ![t] = "in"]
  /\ UNCHANGED <<ctx, tournament, pointers, edit, pending, match, playing>>

Begin(t) ==
  /\ ~Locked
  /\ t = Game => pending # <<>> /\ Head(pending) \in Events
  /\ lua' = [lua EXCEPT ![t] = "in"]
  /\ UNCHANGED <<ctx, tournament, pointers, edit, pending, match, playing>>

(* match.stats finds the scoreboard, or answers nil.                       *)
AskStats(t) ==
  /\ lua[t] = "in" /\ sci # NoMatch
  /\ lua' = [lua EXCEPT ![t] = "stats"]
  /\ UNCHANGED <<ctx, tournament, pointers, edit, pending, match, playing>>

(* The kit functions find the match's settings, or do without.             *)
AskKits(t) ==
  /\ lua[t] = "in" /\ mi # NoMatch
  /\ lua' = [lua EXCEPT ![t] = "kits"]
  /\ UNCHANGED <<ctx, tournament, pointers, edit, pending, match, playing>>

Answer(t) ==
  /\ lua[t] \in {"stats", "kits"}
  /\ lua' = [lua EXCEPT ![t] = "in"]
  /\ UNCHANGED <<ctx, tournament, pointers, edit, pending, match, playing>>

End(t) ==
  /\ lua[t] = "in"
  /\ lua' = [lua EXCEPT ![t] = "out"]
  /\ UNCHANGED <<ctx, tournament, pointers, edit, pending, match, playing>>
-----------------------------------------------------------------------------
(* The match itself.                                                       *)

Play ==
  /\ playing \/ (Selected /\ ctx["substitutions"] = match)
  /\ playing' = ~playing
  /\ UNCHANGED <<ctx, tournament, pointers, edit, pending, match, lua>>

Tick ==
  /\ playing
  /\ sci' = match
  /\ UNCHANGED <<ctx, tournament, mi, edit, pending, match, playing, lua>>

\* Mutant of ClearScoreboard: it does not wait for the lock.
ClearAtOnce ==
  /\ sci' = NoMatch
  /\ UNCHANGED <<ctx, tournament, mi, edit, pending, match, playing, lua>>

ClearScoreboard ==
  /\ ~Locked
  /\ sci' = NoMatch
  /\ UNCHANGED <<ctx, tournament, mi, edit, pending, match, playing, lua>>

Next ==
  \/ \E m \in Matches : SelectHome(m)
  \/ SelectAway \/ SetStadiumChoice \/ SetSettings \/ ContextReset
  \/ \E team \in {Edited, NoMatch} : SetEditTeam(team)
  \/ KeepMatchInfo \/ SetField \/ Fired
  \/ \E t \in Threads :
       Begin(t) \/ AskStats(t) \/ AskKits(t) \/ Answer(t) \/ End(t)
  \/ Play \/ Tick \/ ClearScoreboard

Spec == Init /\ [][Next]_vars
-----------------------------------------------------------------------------
(* The state has the shape of the program's; at most one thread runs Lua.  *)
TypeOK ==
  /\ ctx \in [Fields -> Matches \cup {NoMatch, Edited}]
  /\ tournament \in Matches \cup {NoMatch}
  /\ mi \in Matches \cup {NoMatch} /\ sci \in Matches \cup {NoMatch}
  /\ edit \in {Edited, NoMatch}
  /\ pending \in Seq(Fields \cup Events)
  /\ match \in Matches \cup {NoMatch} /\ playing \in BOOLEAN
  /\ lua \in [Threads -> {"out", "in", "stats", "kits"}]
  /\ \A t, u \in Threads : lua[t] # "out" /\ lua[u] # "out" => t = u

(* A pointer a handler has found is there until the handler is done with   *)
(* it: the clearing hooks wait for it, and the hooks that do not wait only *)
(* ever store a pointer that is not null.                                  *)
NeverNull ==
  \A t \in Threads :
    /\ lua[t] = "stats" => sci # NoMatch
    /\ lua[t] = "kits" => mi # NoMatch

(* What the modules may see of the match before, until the next one's are  *)
(* set, by the documentation (scripting.html:217-220, 239-243).            *)
KeptFields == {"stadium", "timeofday"}

(* At no moment, not between two fields of a hook either, does the context *)
(* hold a value of another match than the one being selected or played, of *)
(* the fields that are documented to be of the current match; with no      *)
(* match, they hold at most the team of the edit mode.                     *)
OneMatch ==
  \A f \in Fields \ KeptFields :
    ctx[f] \notin {NoMatch, match} =>
      f = "home_team" /\ ctx[f] = Edited /\ match = NoMatch

(* The scoreboard the statistics are read from is never that of an earlier *)
(* match, though the clock stores it whenever it runs and the game does    *)
(* not always clear it after a match.                                      *)
StatsAreCurrent == sci \in {NoMatch, match}

(* The choice of the stadium is documented to be there for the handlers    *)
(* that come before the selection is final (scripting.html:223-229).       *)
BeforeTheStadium ==
  {"set_teams", "set_stadium_choice", "set_match_time", "set_stadium"}

(* A handler the hooks of a match call sees all of that match which the    *)
(* hooks have been told by then, through the context and the pointers.     *)
SeesTheMatch ==
  lua[Game] # "out" /\ pending # <<>> =>
    /\ mi = match /\ tournament = match
    /\ \A f \in TeamFields \ {"match_leg", "match_info", "stadium_choice"} :
         ctx[f] = match
    /\ Head(pending) \in BeforeTheStadium => ctx["stadium_choice"] = match
    /\ Head(pending) = "after_set_conditions" =>
         \A f \in SettingsFields : ctx[f] = match
-----------------------------------------------------------------------------
(* The period get_stats answers, of the game's clock, when there is a      *)
(* second scoreboard; 5 is the shoot-out.                                  *)
Period(shootOut, minutes, injury) ==
  IF shootOut THEN 5
  ELSE IF minutes < 45 THEN 1
  ELSE IF minutes < 90 THEN IF injury THEN 1 ELSE 2
  ELSE IF minutes < 105 THEN IF injury THEN 2 ELSE 3
  ELSE IF minutes < 120 THEN IF injury THEN 3 ELSE 4
  ELSE 4
=============================================================================
