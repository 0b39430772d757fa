------------------------------ MODULE MCStartUp ------------------------------
(* A game with sections to search and one too small to look at, an update    *)
(* that moves its code, one that changes it, and a release that sider does   *)
(* not know.  Pattern 3 is a variation of 1 whose own variation is 2; 4 and  *)
(* 5 are alternatives with places of their own.                              *)
EXTENDS StartUp, TLC

CONSTANTS a, b, c,                   \* places to hook
          old, moved, new, unknown,  \* releases
          files, all                 \* configurations

MCPattern == << <<1, 1, 2>>, <<1, 2, 1>>, <<2, 2, 1>>, <<1, 1, 1>>, <<2, 1, 2>> >>
MCOffset == <<1, 0, 2, 0, 1>>
MCPointOf == <<a, a, a, b, c>>
MCVariation == <<2, 1, 1, 5, 4>>

MCSection(address, bytes) == [base |-> address, code |-> bytes]

MCImage ==
  old :> <<MCSection(10, <<1, 1>>), MCSection(20, <<1, 1, 1, 2, 0>>)>> @@
  moved :> <<MCSection(20, <<0, 1, 1, 1, 2>>)>> @@
  new :> <<MCSection(20, <<0, 1, 2, 2, 1>>), MCSection(30, <<2, 1, 2, 0>>)>> @@
  unknown :> <<MCSection(20, <<1, 2, 1, 0, 0>>)>>

MCEnabled == files :> 1..3 @@ all :> 1..5
MCRequired == files :> {{a}} @@ all :> {{a}, {b, c}}

\* The search of kmp.cpp against its promise, for every short text.
Words(n) == UNION {[1..k -> {0, 1}] : k \in 0..n}
ASSUME KmpIsRight ==
  \A pattern \in Words(4) \ {<<>>}, text \in Words(7) :
    FindsEarliest(pattern, text, KmpSearch(pattern, text))
=============================================================================
