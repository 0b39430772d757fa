--------------------------------- MODULE Kmp ---------------------------------
(***************************************************************************)
(* The Knuth-Morris-Pratt search of kmp.cpp, which finds a code pattern in *)
(* the game's image.  Sequences are indexed from 1 and C's arrays from 0;  *)
(* lengths, which is what the table holds, are the same in both.           *)
(***************************************************************************)
EXTENDS Naturals, Sequences

(* The loop "while (j > 0 && c != pattern[j]) j = lsp[j - 1]".             *)
FallBack(pattern, lsp, c, j) ==
  LET fall[i \in 0..j] ==
        IF i > 0 /\ c # pattern[i + 1] THEN fall[lsp[i]] ELSE i
  IN fall[j]

(* How much of the pattern is matched once c is read after j of it are.    *)
Extended(pattern, lsp, c, j) ==
  LET k == FallBack(pattern, lsp, c, j)
  IN IF c = pattern[k + 1] THEN k + 1 ELSE k

(* For each prefix, the longest suffix of it that is a prefix too.         *)
Lsp(pattern) ==
  LET lsp[i \in 1..Len(pattern)] ==
        IF i = 1 THEN 0 ELSE Extended(pattern, lsp, pattern[i], lsp[i - 1])
  IN lsp

(* The text is walked until the pattern is matched to its end.             *)
Matched(pattern, text) ==
  LET lsp == Lsp(pattern)
      matched[t \in 0..Len(text)] ==
        CASE t = 0 -> 0
          [] t > 0 /\ matched[t - 1] = Len(pattern) -> Len(pattern)
          [] OTHER -> Extended(pattern, lsp, text[t], matched[t - 1])
  IN matched

(* The place of the earliest match, 0 if there is none.                    *)
KmpSearch(pattern, text) ==
  IF pattern = <<>> THEN 1
  ELSE LET matched == Matched(pattern, text)
           ends == {t \in 1..Len(text) : matched[t] = Len(pattern)}
       IN IF ends = {} THEN 0
          ELSE (CHOOSE t \in ends : \A u \in ends : t <= u) - Len(pattern) + 1

-----------------------------------------------------------------------------
(* What a search promises.                                                 *)
OccursAt(pattern, text, t) ==
  /\ t \in 1..Len(text)
  /\ t + Len(pattern) - 1 <= Len(text)
  /\ \A i \in 1..Len(pattern) : text[t + i - 1] = pattern[i]

FindsEarliest(pattern, text, found) ==
  IF found = 0 THEN \A t \in 1..Len(text) : ~OccursAt(pattern, text, t)
  ELSE /\ OccursAt(pattern, text, found)
       /\ \A t \in 1..(found - 1) : ~OccursAt(pattern, text, t)
=============================================================================
