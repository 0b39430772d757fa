----------------------------- MODULE MCMatchContext -----------------------------
(* MatchContext with two matches, one of them with a leg and the other with   *)
(* match_info, and the period of every minute.                                *)
EXTENDS MatchContext

CONSTANTS cup, league

MCWithInfo == {league}
MCWithLeg == {cup}

(* The minute at which a period ends, without its injury time.                *)
EndOf == <<45, 90, 105, 120>>

(* The period get_stats works out of the clock is the one that is played, for *)
(* each minute of it and up to fourteen minutes of injury time.               *)
ASSUME PeriodIsPlayed ==
  \A p \in 1..4 :
    /\ \A t \in (IF p = 1 THEN 0 ELSE EndOf[p - 1])..(EndOf[p] - 1) :
         Period(FALSE, t, FALSE) = p
    /\ \A t \in EndOf[p]..(EndOf[p] + 14) : Period(FALSE, t, TRUE) = p

(* Setting a field of a kit sets that field only, from an empty and from a    *)
(* full kit, for the least and the largest value of it, one too large, and a  *)
(* negative one.                                                              *)
K == INSTANCE KitInfo
ASSUME KitFieldsAreApart ==
  /\ K!Fields = {p.field : p \in K!GetPlaces}
  /\ \A byte \in {0, 255}, f \in K!Fields :
       \A value \in {0, 1, 2^K!Width(f) - 1, 2^K!Width(f), -3} :
         K!SetsOnly([a \in K!Addresses |-> byte], f, value)
=============================================================================
