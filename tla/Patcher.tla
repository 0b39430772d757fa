------------------------------- MODULE Patcher -------------------------------
(***************************************************************************)
(* The executable patcher (patcher.cpp).  It tries the patches of          *)
(* patcher.ini one after the other on the game's executable: a patch is a  *)
(* list of changes of a byte, and is applied in place, byte by byte, after *)
(* all its bytes have been verified.  The process can end between any two  *)
(* steps, a write can fail or be lost, and the game can be updated between *)
(* two runs.                                                               *)
(***************************************************************************)
EXTENDS Naturals, Sequences

CONSTANTS
  Offsets,    \* places in the file
  Bytes,      \* their contents
  Releases,   \* versions of the game
  Original,   \* Original[r]: the executable of release r as it is sold
  Patches,    \* the files named by patcher.ini, in its order
  PatchOf,    \* PatchOf[r]: the patch made for release r, 0 if there is none
  MaxFaults   \* bound: how often something goes wrong

Change == [offset : Offsets, old_val : Bytes, new_val : Bytes]

ASSUME PatchesAreChanges ==
  /\ Patches \in Seq(Seq(Change))
  /\ PatchOf \in [Releases -> 0..Len(Patches)]
  /\ \A r \in Releases : /\ DOMAIN Original[r] \subseteq Offsets
                         /\ Original[r] \in [DOMAIN Original[r] -> Bytes]
  /\ MaxFaults \in Nat

Changes(q) == {Patches[q][i] : i \in 1..Len(Patches[q])}

(* What "cmp -l" writes: one line for each byte that differs.              *)
ASSUME ChangesAreDifferences ==
  \A q \in 1..Len(Patches) :
    /\ \A c \in Changes(q) : c.old_val # c.new_val
    /\ \A i, j \in 1..Len(Patches[q]) :
         Patches[q][i].offset = Patches[q][j].offset => i = j

(* A patch was made from the release it is for.                            *)
ASSUME PatchesFit ==
  \A r \in Releases : PatchOf[r] # 0 =>
    \A c \in Changes(PatchOf[r]) :
      c.offset \in DOMAIN Original[r] /\ c.old_val = Original[r][c.offset]

(* The bytes that a release can have at a place, patched or not.           *)
Possible(r, o) ==
  {Original[r][o]} \cup
  {c.new_val : c \in IF PatchOf[r] = 0 THEN {}
                     ELSE {d \in Changes(PatchOf[r]) : d.offset = o}}

(* Every other patch has a byte that tells it apart.                       *)
ASSUME PatchesDiffer ==
  \A r \in Releases, q \in 1..Len(Patches) : q # PatchOf[r] =>
    \E c \in Changes(q) :
      \/ c.offset \notin DOMAIN Original[r]
      \/ Possible(r, c.offset) \cap {c.old_val, c.new_val} = {}

VARIABLES
  file,      \* the executable
  release,   \* the version of the game it is
  phase,     \* where the patcher is
  readable,  \* the patches it could read
  p,         \* the one it is trying
  k,         \* the change it is at
  already,   \* already_patched
  lost,      \* whether a write of this run was lost
  result,    \* what it told the user at the end
  faults     \* how much has gone wrong so far

vars == <<file, release, phase, readable, p, k, already, lost, result, faults>>

Phases == {"stopped", "open", "verify", "ask", "patch", "unpatch", "done"}
Results == {"none", "patched", "unpatched", "unchanged"}

Init ==
  /\ release \in Releases
  /\ file = Original[release]
  /\ phase = "stopped"
  /\ readable = {}
  /\ p = 1
  /\ k = 1
  /\ already = TRUE
  /\ lost = FALSE
  /\ result = "none"
  /\ faults = 0

-----------------------------------------------------------------------------
(* Read patches and try the first.                                         *)
Start(R) ==
  /\ phase = "stopped"
  /\ phase' = "open"
  /\ readable' = R
  /\ p' = 1
  /\ k' = 1
  /\ already' = TRUE
  /\ lost' = FALSE
  /\ result' = "none"
  /\ UNCHANGED <<file, release, faults>>

Fault == faults < MaxFaults /\ faults' = faults + 1

(* apply_patch has returned false: main goes on with the next patch.       *)
NextPatch ==
  /\ phase' = "open"
  /\ p' = p + 1
  /\ k' = 1
  /\ UNCHANGED <<file, release, readable, already, lost, result>>

\* Mutant of Exhausted: the loop over the patches ends one too late.
ExhaustedTooLate == p > Len(Patches) + 1

Exhausted == p > Len(Patches)

NoneLeft ==
  /\ phase = "open"
  /\ Exhausted
  /\ phase' = "done"
  /\ UNCHANGED <<file, release, readable, p, k, already, lost, result, faults>>

NotListed ==
  /\ phase = "open"
  /\ ~Exhausted
  /\ p \notin readable
  /\ NextPatch
  /\ UNCHANGED faults

Open ==
  /\ phase = "open"
  /\ ~Exhausted
  /\ p \in readable
  /\ phase' = "verify"
  /\ k' = 1
  /\ already' = TRUE
  /\ UNCHANGED <<file, release, readable, p, lost, result, faults>>

(* The executable is in use: the game is running.                          *)
OpenFails ==
  /\ phase = "open"
  /\ ~Exhausted
  /\ p \in readable
  /\ Fault
  /\ NextPatch

-----------------------------------------------------------------------------
(* Step one of apply_patch: verify full compatibility.                     *)

More == k <= Len(Patches[p])
Current == Patches[p][k]

\* Mutant of Compatible: only the first byte is compared.
CompatibleAtFirst(c) ==
  /\ c.offset \in DOMAIN file
  /\ k = 1 => file[c.offset] \in {c.old_val, c.new_val}

\* Mutant of Compatible: new bytes are accepted only if all bytes are new.
CompatibleIfUniform(c) ==
  /\ c.offset \in DOMAIN file
  /\ file[c.offset] \in {c.old_val} \cup (IF already THEN {c.new_val} ELSE {})

Compatible(c) ==
  c.offset \in DOMAIN file /\ file[c.offset] \in {c.old_val, c.new_val}

\* Mutant of StillPatched: the last byte decides.
PatchedByLast(c) == file[c.offset] = c.new_val

StillPatched(c) == already /\ file[c.offset] = c.new_val

Verify ==
  /\ phase = "verify"
  /\ More
  /\ Compatible(Current)
  /\ already' = StillPatched(Current)
  /\ k' = k + 1
  /\ UNCHANGED <<file, release, phase, readable, p, lost, result, faults>>

Incompatible ==
  /\ phase = "verify"
  /\ More
  /\ ~Compatible(Current)
  /\ NextPatch
  /\ UNCHANGED faults

Verified ==
  /\ phase = "verify"
  /\ ~More
  /\ phase' = IF already THEN "ask" ELSE "patch"
  /\ k' = 1
  /\ UNCHANGED <<file, release, readable, p, already, lost, result, faults>>

(* "Do you want to unpatch? (y/N)"                                         *)
Answer(yes) ==
  /\ phase = "ask"
  /\ phase' = IF yes THEN "unpatch" ELSE "done"
  /\ result' = IF yes THEN result ELSE "unchanged"
  /\ UNCHANGED <<file, release, readable, p, k, already, lost, faults>>

-----------------------------------------------------------------------------
(* Step two: write the bytes, new or old.                                  *)

Writing == phase \in {"patch", "unpatch"}
Written(c) == IF phase = "patch" THEN c.new_val ELSE c.old_val

Write ==
  /\ Writing
  /\ More
  /\ file' = [file EXCEPT ![Current.offset] = Written(Current)]
  /\ k' = k + 1
  /\ UNCHANGED <<release, phase, readable, p, already, lost, result, faults>>

(* fwrite reports an error.                                                *)
WriteFails ==
  /\ Writing
  /\ More
  /\ Fault
  /\ NextPatch

(* fwrite put the byte in the C library's buffer, and the buffer could not *)
(* be written when fseek or fclose flushed it, which nobody asks.          *)
WriteIsLost ==
  /\ Writing
  /\ More
  /\ Fault
  /\ lost' = TRUE
  /\ k' = k + 1
  /\ UNCHANGED <<file, release, phase, readable, p, already, result>>

AllWritten ==
  /\ Writing
  /\ ~More
  /\ phase' = "done"
  /\ result' = IF phase = "patch" THEN "patched" ELSE "unpatched"
  /\ UNCHANGED <<file, release, readable, p, k, already, lost, faults>>

-----------------------------------------------------------------------------
(* The user presses Enter.                                                 *)
End ==
  /\ phase = "done"
  /\ phase' = "stopped"
  /\ UNCHANGED <<file, release, readable, p, k, already, lost, result, faults>>

(* The process ends: the console is closed, the power fails.               *)
Stop ==
  /\ phase \notin {"stopped", "done"}
  /\ Fault
  /\ phase' = "stopped"
  /\ UNCHANGED <<file, release, readable, p, k, already, lost, result>>

(* The game is updated or repaired.                                        *)
Update(r) ==
  /\ phase = "stopped"
  /\ release' = r
  /\ file' = Original[r]
  /\ UNCHANGED <<phase, readable, p, k, already, lost, result, faults>>

Run ==
  \/ NoneLeft \/ NotListed \/ Open
  \/ Verify \/ Incompatible \/ Verified
  \/ \E yes \in BOOLEAN : Answer(yes)
  \/ Write \/ AllWritten

GoesWrong == OpenFails \/ WriteFails \/ WriteIsLost \/ Stop

Next ==
  \/ \E R \in SUBSET (1..Len(Patches)) : Start(R)
  \/ Run
  \/ GoesWrong
  \/ End
  \/ \E r \in Releases : Update(r)

Spec == Init /\ [][Next]_vars

(* A patcher that runs goes on; nobody need start it or press Enter.       *)
FairSpec == Spec /\ WF_vars(Run)

-----------------------------------------------------------------------------
TypeOK ==
  /\ release \in Releases
  /\ DOMAIN file \subseteq Offsets /\ file \in [DOMAIN file -> Bytes]
  /\ phase \in Phases
  /\ readable \subseteq 1..Len(Patches)
  /\ p \in 1..Len(Patches) + 1
  /\ k \in Nat \ {0}
  /\ already \in BOOLEAN
  /\ lost \in BOOLEAN
  /\ result \in Results
  /\ faults \in 0..MaxFaults
  /\ phase \in {"verify", "ask", "patch", "unpatch"} =>
       p <= Len(Patches) /\ k <= Len(Patches[p]) + 1

(* The executable is always the release it was, with some of the changes   *)
(* of the patch for that release and no others: whatever stops half-way,   *)
(* apply_patch never writes to a file it has not recognised (77-98).       *)
OneVersion ==
  /\ DOMAIN file = DOMAIN Original[release]
  /\ \A o \in DOMAIN file : file[o] \in Possible(release, o)

HasPatch == PatchOf[release] # 0
IsPatched ==
  /\ HasPatch
  /\ \A c \in Changes(PatchOf[release]) : file[c.offset] = c.new_val
IsOriginal == file = Original[release]

(* What the patcher says (102, 115, 132) is true of the whole file when no *)
(* write of its own was lost, whatever earlier runs left behind.           *)
ReportedIsTrue ==
  /\ phase = "ask" => IsPatched
  /\ phase = "done" /\ ~lost =>
       /\ result \in {"patched", "unchanged"} => IsPatched
       /\ result = "unpatched" => IsOriginal

(* A file that a stop or a lost write has left partly patched is patched   *)
(* by the next run in which nothing goes wrong, even when it was left so   *)
(* by an attempt to unpatch: verification accepts old and new bytes mixed. *)
Repairs ==
  /\ phase = "open" /\ p = 1
  /\ faults = MaxFaults
  /\ HasPatch /\ PatchOf[release] \in readable
  /\ ~IsPatched
  ~> IsPatched
=============================================================================
