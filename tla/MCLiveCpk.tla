------------------------------ MODULE MCLiveCpk ------------------------------
(* A world for LiveCPK: two contexts, and modules that rewrite a name and    *)
(* provide a file in one of them only.                                       *)
EXTENDS LiveCpk, TLC

CONSTANTS home, away,     \* the contexts
          shirt, shirt2,  \* names; away, the first is rewritten to the second
          pModule, pRoot  \* a module's own file and one in a livecpk root

\* A rewritten name is not rewritten again.
MCRewrite(m, c, n) == IF c = away /\ n = shirt THEN shirt2 ELSE NoName

MCMakeKey(m, c, n) == <<n, c>>

\* The last module provides the second name, away.
MCFilePath(m, c, n, k) ==
  IF m = NumModules /\ k = <<shirt2, away>> THEN pModule ELSE NoPath

\* The second root is where the module keeps its file, under the first name.
MCRootPath(r, n) ==
  CASE n = shirt /\ r = 1 -> pRoot
    [] n = shirt /\ r = 2 -> pModule
    [] OTHER -> NoPath

LoaderSymmetry == Permutations(Loaders)
=============================================================================
