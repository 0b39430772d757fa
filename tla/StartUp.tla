------------------------------- MODULE StartUp -------------------------------
(***************************************************************************)
(* Finding the places to hook (install_func, _install_func, all_found) and *)
(* the cache of where they were the last time (hook_cache_t).  The game    *)
(* may be updated and the configuration changed between two starts, and    *)
(* the process may end while the cache is being written.                   *)
(***************************************************************************)
EXTENDS Naturals, Sequences, Kmp

CONSTANTS
  NumPatterns, \* patterns are numbered from 1, as in the code
  Pattern,     \* Pattern[j]: a sequence of bytes
  Offset,      \* Offset[j]: from the pattern to the place to hook
  Points,      \* the fields of config_t for the places to hook
  PointOf,     \* PointOf[j]: the one that pattern j finds
  Variation,   \* Variation[j]: another pattern for the same place, or 0
  Games,       \* releases of the game
  Image,       \* Image[g]: its code sections, [base, code]
  MinSize,     \* sections smaller than this are skipped
  Configs,     \* configurations
  Enabled,     \* Enabled[c]: the patterns c has a use for
  Required,    \* Required[c]: sets of points, one of each must be found
  Slots,       \* the size of the cache's table
  MaxStops     \* bound: how often a process ends early

PatternIds == 1..NumPatterns

(* A pattern is in a section at an address.                                *)
Matches(s, j, a) ==
  /\ s.base <= a
  /\ a + Len(Pattern[j]) <= s.base + Len(s.code)
  /\ \A i \in 1..Len(Pattern[j]) : s.code[a - s.base + i] = Pattern[j][i]

Sections(g) == {Image[g][n] : n \in 1..Len(Image[g])}

(* The places of a pattern in the sections that are looked at.             *)
Places(g, j) ==
  UNION {{a \in s.base..(s.base + Len(s.code)) : Matches(s, j, a)} :
           s \in {t \in Sections(g) : Len(t.code) >= MinSize}}

ASSUME SizesAssumption ==
  /\ NumPatterns \in Nat /\ Slots \in Nat /\ MaxStops \in Nat /\ MinSize \in Nat
  /\ NumPatterns < Slots
  /\ Pattern \in [PatternIds -> Seq(Nat)]
  /\ \A j \in PatternIds : Len(Pattern[j]) > 0
  /\ Offset \in [PatternIds -> Nat]
  /\ PointOf \in [PatternIds -> Points]
  /\ Variation \in [PatternIds -> 0..NumPatterns]
  /\ Enabled \in [Configs -> SUBSET PatternIds]
  /\ Required \in [Configs -> SUBSET (SUBSET Points)]
  /\ \A g \in Games : Image[g] \in Seq([base : Nat \ {0}, code : Seq(Nat)])

(* The patterns are long enough to be in the game once, and a release has  *)
(* one of the variations of a pattern.                                     *)
ASSUME UniquePatterns ==
  \A g \in Games, i, j \in PatternIds : PointOf[i] = PointOf[j] =>
    \A a \in Places(g, i), b \in Places(g, j) : i = j /\ a = b

(* A variation of a pattern that has another variation of its own finds    *)
(* the same place (7292, 7306, 7411, 7443).                                *)
ASSUME VariationsAgree ==
  \A k \in PatternIds :
    Variation[k] # 0 /\ Variation[Variation[k]] \notin {0, k} =>
      PointOf[k] = PointOf[Variation[k]]

VARIABLES
  cacheFile, \* startup.cache: the addresses of the patterns 0, 1, 2, ...
  game,      \* the release of the game
  config,    \* sider.ini
  phase,     \* where install_func is
  hints,     \* _addrs
  len,       \* _len
  section,   \* the section that is looked at next
  found,     \* the places found so far
  written,   \* how much of the cache save() has written
  warm,      \* the game and configuration of the file, if all of it is there
  stops      \* how often the process has ended early

process == <<phase, hints, len, section, found, written>>
vars == <<cacheFile, game, config, process, warm, stops>>

Phases == {"off", "hints", "search", "hook", "save", "ready", "disabled"}
NoHints == [i \in 0..(Slots - 1) |-> 0]
NoneFound == [x \in Points |-> 0]

Init ==
  /\ cacheFile = <<>>
  /\ game \in Games
  /\ config \in Configs
  /\ phase = "off" /\ hints = NoHints /\ len = 0
  /\ section = 1 /\ found = NoneFound /\ written = 0
  /\ warm = <<>>
  /\ stops = 0

-----------------------------------------------------------------------------
AllFound(f, c) == \A R \in Required[c] : \E x \in R : f[x] # 0

\* Mutant of Loaded: the first entry read is taken for pattern 1.
LoadedOneOff(i) == IF i \in 1..Len(cacheFile) THEN cacheFile[i] ELSE 0

Loaded(i) == IF i < Len(cacheFile) THEN cacheFile[i + 1] ELSE 0

(* hook_cache_t: read what the file has.                                   *)
Load ==
  /\ phase = "off"
  /\ phase' = "hints"
  /\ hints' = [i \in DOMAIN hints |-> Loaded(i)]
  /\ len' = Len(cacheFile)
  /\ UNCHANGED <<cacheFile, game, config, section, found, written, warm, stops>>

MoreSections == section <= Len(Image[game])
Section == Image[game][section]
Examined == Len(Section.code) >= MinSize

\* Mutant of HintMatches: the address is believed if it is in the section.
HintInSection(j) ==
  /\ hints[j] # 0
  /\ Section.base <= hints[j]
  /\ hints[j] + Len(Pattern[j]) <= Section.base + Len(Section.code)

(* check_hint.                                                             *)
HintMatches(j) == hints[j] # 0 /\ Matches(Section, j, hints[j])

\* Mutant of SearchFinds: a pattern that has a hint is not searched for.
SearchFindsUnhinted(j) == hints[j] = 0 /\ KmpSearch(Pattern[j], Section.code) # 0

SearchFinds(j) == KmpSearch(Pattern[j], Section.code) # 0

Hinted == {j \in Enabled[config] : HintMatches(j)}
Present == {j \in Enabled[config] : SearchFinds(j)}

(* Of the patterns S that find something in this section: of those for the *)
(* same place the first, and none for a place that is known.               *)
Finders(S) ==
  {j \in S : /\ found[PointOf[j]] = 0
             /\ \A i \in S : PointOf[i] = PointOf[j] => j <= i}

(* Their addresses, with offs[j] added.                                    *)
FoundBy(J, at) ==
  [x \in Points |->
     IF \E j \in J : PointOf[j] = x
     THEN LET j == CHOOSE i \in J : PointOf[i] = x IN at[j] + Offset[j]
     ELSE found[x]]

LookAtHints ==
  /\ phase = "hints"
  /\ MoreSections
  /\ found' = IF Examined
              THEN FoundBy(Finders(Hinted), hints)
              ELSE found
  /\ section' = section + 1
  /\ phase' = IF Examined /\ AllFound(found', config) THEN "hook" ELSE phase
  /\ UNCHANGED <<cacheFile, game, config, hints, len, written, warm, stops>>

(* The hints did not do.                                                   *)
BeginSearch ==
  /\ phase = "hints"
  /\ ~MoreSections
  /\ phase' = IF AllFound(found, config) THEN "hook" ELSE "search"
  /\ section' = 1
  /\ UNCHANGED <<cacheFile, game, config, hints, len, found, written, warm, stops>>

(* The hints that a find replaces: those of patterns that are a variation  *)
(* of it, when it is not the variation of them.                            *)
Outdated(J) ==
  {k \in PatternIds : Variation[k] \in J /\ Variation[Variation[k]] \notin {0, k}}

(* _install_func.                                                          *)
SearchSection ==
  /\ phase = "search"
  /\ MoreSections
  /\ LET J == IF Examined THEN Finders(Present) ELSE {}
         at == [j \in J |-> Section.base + KmpSearch(Pattern[j], Section.code) - 1]
         touched == {len} \cup {j + 1 : j \in J \cup Outdated(J)}
     IN /\ found' = FoundBy(J, at)
        /\ hints' = [j \in DOMAIN hints |->
                       CASE j \in J -> at[j]
                         [] j \in Outdated(J) \ J -> 0
                         [] OTHER -> hints[j]]
        /\ len' \in {n \in touched : \A m \in touched : m <= n}
  /\ section' = section + 1
  /\ phase' = IF Examined /\ AllFound(found', config) THEN "hook" ELSE phase
  /\ UNCHANGED <<cacheFile, game, config, written, warm, stops>>

(* hook_if_all_found: nothing is hooked unless all is found.               *)
GiveUp ==
  /\ phase = "search"
  /\ ~MoreSections
  /\ phase' = IF AllFound(found, config) THEN "hook" ELSE "disabled"
  /\ UNCHANGED <<cacheFile, game, config, hints, len, section, found, written, warm, stops>>

(* The hooks are in, and save() opens the file, which empties it.          *)
Hook ==
  /\ phase = "hook"
  /\ phase' = "save"
  /\ cacheFile' = <<>>
  /\ warm' = <<>>
  /\ written' = 0
  /\ UNCHANGED <<game, config, hints, len, section, found, stops>>

(* The folder is write-protected.                                          *)
CannotSave ==
  /\ phase = "hook"
  /\ phase' = "ready"
  /\ UNCHANGED <<cacheFile, game, config, hints, len, section, found, written, warm, stops>>

\* Mutant of MoreToSave: the loop goes on to the length of the table.
MoreToSaveThanRead == written <= len

MoreToSave == written < len

SaveEntry ==
  /\ phase = "save"
  /\ MoreToSave
  /\ cacheFile' = Append(cacheFile, hints[written])
  /\ written' = written + 1
  /\ UNCHANGED <<game, config, phase, hints, len, section, found, warm, stops>>

(* The disk is full, which nobody notices: the rest is not in the file.     *)
CannotWrite ==
  /\ phase = "save"
  /\ MoreToSave
  /\ phase' = "ready"
  /\ UNCHANGED <<cacheFile, game, config, hints, len, section, found, written, warm, stops>>

Saved ==
  /\ phase = "save"
  /\ ~MoreToSave
  /\ phase' = "ready"
  /\ warm' = <<game, config>>
  /\ UNCHANGED <<cacheFile, game, config, hints, len, section, found, written, stops>>

(* What the process knew is gone.                                          *)
Off ==
  /\ phase' = "off" /\ hints' = NoHints /\ len' = 0
  /\ section' = 1 /\ found' = NoneFound /\ written' = 0

Exit ==
  /\ phase \in {"ready", "disabled"}
  /\ Off
  /\ UNCHANGED <<cacheFile, game, config, warm, stops>>

(* The process ends at any point; save() may be half-way.                  *)
Stop ==
  /\ phase \notin {"off", "ready", "disabled"}
  /\ stops < MaxStops
  /\ stops' = stops + 1
  /\ Off
  /\ UNCHANGED <<cacheFile, game, config, warm>>

(* Between two starts the game is updated or sider.ini edited.             *)
Change(g, c) ==
  /\ phase = "off"
  /\ game' = g
  /\ config' = c
  /\ UNCHANGED <<cacheFile, process, warm, stops>>

Next ==
  \/ Load \/ LookAtHints \/ BeginSearch \/ SearchSection \/ GiveUp
  \/ Hook \/ CannotSave \/ SaveEntry \/ CannotWrite \/ Saved
  \/ Exit \/ Stop
  \/ \E g \in Games, c \in Configs : Change(g, c)

Spec == Init /\ [][Next]_vars

-----------------------------------------------------------------------------
TypeOK ==
  /\ cacheFile \in Seq(Nat) /\ Len(cacheFile) <= Slots
  /\ game \in Games
  /\ config \in Configs
  /\ phase \in Phases
  /\ hints \in [0..(Slots - 1) -> Nat]
  /\ len \in 0..Slots
  /\ section \in Nat \ {0}
  /\ found \in [Points -> Nat]
  /\ written \in 0..len
  /\ stops \in 0..MaxStops

(* Where a start without a cache finds a place.                            *)
Plain(x) ==
  UNION {{a + Offset[j] : a \in Places(game, j)} :
           j \in {i \in Enabled[config] : PointOf[i] = x}}

(* A place to hook is one where this release of the game has the pattern,  *)
(* whichever release, configuration or half-written file the hints came    *)
(* from (7489, 157-168).                                                   *)
RealCode == \A x \in Points : found[x] # 0 => found[x] \in Plain(x)

(* The cache does not decide whether sider works: it hooks the game if a   *)
(* plain search finds what is needed, and gives up only if it does not     *)
(* (7508, 7513, 7529, 7656).                                               *)
CacheNeverDecides ==
  /\ phase \in {"hook", "save", "ready"} =>
       \A R \in Required[config] : \E x \in R : Plain(x) # {}
  /\ phase = "disabled" =>
       \E R \in Required[config] : \A x \in R : Plain(x) = {}

(* A game that was started and whose cache was saved is not searched again *)
(* while neither it nor the configuration changes (7459, 7513, 7535).      *)
SearchedOnce ==
  [][phase = "hints" /\ phase' = "search" => warm # <<game, config>>]_vars
=============================================================================
