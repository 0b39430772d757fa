---------------------------- MODULE PatcherProofs ----------------------------
(***************************************************************************)
(* The patcher never makes a file that is neither the game nor the patched *)
(* game, byte by byte, whatever stops it; and it does not say that a file  *)
(* is patched when it is not.                                              *)
(***************************************************************************)
EXTENDS Patcher, TLAPS

(* The shapes of the constants, without the sets of sequences.             *)
LEMMA Shapes ==
  /\ Len(Patches) \in Nat
  /\ MaxFaults \in Nat
  /\ \A q \in 1..Len(Patches) :
       /\ Len(Patches[q]) \in Nat
       /\ \A i \in 1..Len(Patches[q]) : Patches[q][i] \in Change
  /\ PatchOf \in [Releases -> 0..Len(Patches)]
  /\ \A r \in Releases : /\ DOMAIN Original[r] \subseteq Offsets
                         /\ Original[r] \in [DOMAIN Original[r] -> Bytes]
BY PatchesAreChanges

USE Shapes

Line(i) == Patches[p][i]

(* Once all bytes are verified the patch is the one for this release.      *)
Recognised == phase \in {"ask", "patch", "unpatch"} => p = PatchOf[release]

(* What the loops have established of the changes before the k-th.         *)
Progress ==
  /\ phase = "verify" =>
       /\ \A i \in 1..(k - 1) : Compatible(Line(i))
       /\ already => \A i \in 1..(k - 1) : file[Line(i).offset] = Line(i).new_val
  /\ phase = "ask" => k = 1
  /\ phase = "patch" /\ ~lost =>
       \A i \in 1..(k - 1) : file[Line(i).offset] = Line(i).new_val
  /\ phase = "unpatch" /\ ~lost =>
       \A i \in 1..(k - 1) : file[Line(i).offset] = Line(i).old_val

(* Nothing is told before the end.                                         *)
Untold == phase \notin {"stopped", "done"} => result = "none"

IInv == TypeOK /\ OneVersion /\ Untold /\ Recognised /\ Progress /\ ReportedIsTrue

Trying == phase \in {"verify", "ask", "patch", "unpatch"}

-----------------------------------------------------------------------------
(* The lines of a patch that is being tried are changes.                   *)
LEMMA LineIsChange ==
  ASSUME TypeOK, Trying, NEW i \in 1..Len(Patches[p])
  PROVE  Line(i) \in Change /\ Line(i) \in Changes(p) /\ p \in 1..Len(Patches)
<1>1. p \in 1..Len(Patches)
  BY DEF TypeOK, Trying
<1> QED BY <1>1 DEF Line, Changes

(* A file of one version that a patch verifies is the patch's own.         *)
LEMMA VerifiedIsOwn ==
  ASSUME TypeOK, OneVersion, NEW q \in 1..Len(Patches),
         \A c \in Changes(q) : Compatible(c)
  PROVE  q = PatchOf[release]
<1>1. SUFFICES ASSUME q # PatchOf[release] PROVE FALSE
  OBVIOUS
<1>2. PICK c \in Changes(q) :
        \/ c.offset \notin DOMAIN Original[release]
        \/ Possible(release, c.offset) \cap {c.old_val, c.new_val} = {}
  BY <1>1, PatchesDiffer DEF TypeOK
<1>3. c.offset \in DOMAIN file /\ file[c.offset] \in {c.old_val, c.new_val}
  BY DEF Compatible
<1> QED BY <1>2, <1>3 DEF OneVersion

(* A line of the release's own patch changes a byte of the file, and both  *)
(* its values are possible there.                                          *)
LEMMA OwnLine ==
  ASSUME TypeOK, OneVersion, PatchOf[release] # 0,
         NEW c \in Changes(PatchOf[release])
  PROVE  /\ c.offset \in DOMAIN file
         /\ c.old_val = Original[release][c.offset]
         /\ c.old_val \in Possible(release, c.offset)
         /\ c.new_val \in Possible(release, c.offset)
<1>1. c.offset \in DOMAIN Original[release] /\ c.old_val = Original[release][c.offset]
  BY PatchesFit DEF TypeOK
<1>2. c \in {d \in Changes(PatchOf[release]) : d.offset = c.offset}
  OBVIOUS
<1>3. c.new_val \in Possible(release, c.offset)
  BY <1>2 DEF Possible
<1> QED BY <1>1, <1>3 DEF OneVersion, Possible

(* A file of one version in which every change is undone is the original.  *)
LEMMA AllOldIsOriginal ==
  ASSUME TypeOK, OneVersion, PatchOf[release] # 0,
         \A c \in Changes(PatchOf[release]) : file[c.offset] = c.old_val
  PROVE  IsOriginal
<1>1. ASSUME NEW o \in DOMAIN file PROVE file[o] = Original[release][o]
  <2>1. file[o] \in Possible(release, o)
    BY DEF OneVersion
  <2>2. SUFFICES ASSUME NEW c \in Changes(PatchOf[release]), c.offset = o
                 PROVE  file[o] = Original[release][o]
    BY <2>1 DEF Possible
  <2> QED BY <2>2, OwnLine
<1>2. file \in [DOMAIN file -> Bytes] /\ Original[release] \in [DOMAIN Original[release] -> Bytes]
  BY DEF TypeOK
<1> QED BY <1>1, <1>2 DEF IsOriginal, OneVersion

-----------------------------------------------------------------------------
(* The file is the original when the patcher is first run.                 *)
LEMMA InitIInv == Init => IInv
<1> SUFFICES ASSUME Init PROVE IInv
  OBVIOUS
<1>1. TypeOK
  <2>1. DOMAIN file \subseteq Offsets /\ file \in [DOMAIN file -> Bytes]
    BY DEF Init
  <2>2. readable \subseteq 1..Len(Patches) /\ p \in 1..Len(Patches) + 1 /\ k \in Nat \ {0}
    BY DEF Init
  <2>3. already \in BOOLEAN /\ lost \in BOOLEAN
    BY DEF Init
  <2>4. result \in Results /\ faults \in 0..MaxFaults /\ release \in Releases
    BY DEF Init, Results
  <2> QED BY <2>1, <2>2, <2>3, <2>4 DEF Init, TypeOK, Phases
<1>2. OneVersion
  BY DEF Init, OneVersion, Possible
<1> QED BY <1>1, <1>2 DEF Init, IInv, Untold, Recognised, Progress, ReportedIsTrue

(* A write of the patch's own line keeps the file of one version, and      *)
(* leaves the lines before it as they were.                                *)
LEMMA WriteIInv == IInv /\ Write => IInv'
<1> SUFFICES ASSUME IInv, Write PROVE IInv'
  OBVIOUS
<1> USE DEF IInv
<1>1. Trying /\ k \in 1..Len(Patches[p]) /\ Current = Line(k) /\ p \in 1..Len(Patches)
  <2>1. Trying /\ Writing
    BY DEF Write, Writing, Trying
  <2>2. p \in 1..Len(Patches) /\ k \in Nat \ {0}
    BY <2>1 DEF TypeOK, Writing
  <2>3. k \in 1..Len(Patches[p])
    BY <2>2 DEF Write, More
  <2> QED BY <2>1, <2>2, <2>3 DEF Current, Line
<1>2. Line(k) \in Change /\ Line(k) \in Changes(PatchOf[release]) /\ PatchOf[release] # 0
  BY <1>1, LineIsChange DEF Recognised, Write, Writing
<1>3. /\ Line(k).offset \in DOMAIN file
      /\ Line(k).old_val \in Possible(release, Line(k).offset)
      /\ Line(k).new_val \in Possible(release, Line(k).offset)
  BY <1>2, OwnLine
<1>4. file' = [file EXCEPT ![Line(k).offset] = Written(Line(k))] /\ DOMAIN file' = DOMAIN file
  BY <1>1 DEF Write
<1>5. TypeOK'
  <2>1. Written(Line(k)) \in Bytes
    BY <1>2 DEF Change, Written
  <2>2. file' \in [DOMAIN file' -> Bytes]
    BY <1>3, <1>4, <2>1 DEF TypeOK
  <2> QED BY <1>1, <1>4, <2>2 DEF Write, TypeOK
<1>6. OneVersion'
  BY <1>3, <1>4 DEF Write, OneVersion, Written, Possible
<1>7. Progress'
  <2>1. ASSUME NEW i \in 1..k PROVE file'[Line(i).offset] = IF i = k THEN Written(Line(k)) ELSE file[Line(i).offset]
    <3>1. Line(i) \in Changes(PatchOf[release]) /\ i \in 1..Len(Patches[p])
      BY <1>1, LineIsChange DEF Recognised, Write, Writing
    <3>2. Line(i).offset \in DOMAIN file
      BY <3>1, <1>2, OwnLine
    <3>3. i # k => Line(i).offset # Line(k).offset
      BY <1>1, <3>1, ChangesAreDifferences DEF Line
    <3> QED BY <1>3, <1>4, <3>2, <3>3
  <2>2. phase' = phase /\ lost' = lost /\ k' = k + 1 /\ p' = p
    BY DEF Write
  <2>3. phase = "patch" /\ ~lost => \A i \in 1..k : file'[Line(i).offset] = Line(i).new_val
    BY <2>1, <1>1 DEF Progress, Written
  <2>4. phase = "unpatch" /\ ~lost => \A i \in 1..k : file'[Line(i).offset] = Line(i).old_val
    BY <2>1, <1>1 DEF Progress, Written
  <2> QED BY <2>2, <2>3, <2>4, <1>1 DEF Progress, Line, Write, Writing
<1>8. Untold' /\ Recognised' /\ ReportedIsTrue'
  BY DEF Write, Writing, Untold, Recognised, ReportedIsTrue
<1> QED BY <1>5, <1>6, <1>7, <1>8

(* Verification remembers what it has seen.                                *)
LEMMA VerifyIInv == IInv /\ Verify => IInv'
<1> SUFFICES ASSUME IInv, Verify PROVE IInv'
  OBVIOUS
<1> USE DEF IInv
<1>1. /\ p \in 1..Len(Patches) /\ k \in Nat \ {0} /\ Current = Line(k)
      /\ phase = "verify" /\ k' = k + 1 /\ UNCHANGED <<file, p, phase>>
  BY DEF Verify, TypeOK, Current, Line
<1>2. Len(Patches[p]) \in Nat
  BY <1>1
<1>3. k \in 1..Len(Patches[p])
  BY <1>1, <1>2 DEF Verify, More
<1>4. TypeOK'
  BY <1>1, <1>3 DEF Verify, TypeOK, StillPatched
<1> DEFINE New(i) == file[Line(i).offset] = Line(i).new_val
<1>5. \A i \in 1..k : Compatible(Line(i))
  <2>1. Compatible(Line(k))
    BY <1>1 DEF Verify
  <2>2. \A i \in 1..(k - 1) : Compatible(Line(i))
    BY <1>1 DEF Progress
  <2> HIDE DEF Line
  <2> QED BY <1>1, <2>1, <2>2
<1>6. already' => \A i \in 1..k : New(i)
  <2>1. already' => already /\ New(k)
    BY <1>1 DEF Verify, StillPatched
  <2>2. already => \A i \in 1..(k - 1) : New(i)
    BY <1>1 DEF Progress
  <2> HIDE DEF New
  <2> QED BY <1>1, <2>1, <2>2
<1>7. Progress'
  BY <1>1, <1>5, <1>6 DEF Progress, Line, Compatible
<1>8. OneVersion' /\ Untold' /\ Recognised' /\ ReportedIsTrue'
  BY <1>1 DEF Verify, OneVersion, Untold, Recognised, ReportedIsTrue
<1> QED BY <1>4, <1>7, <1>8

(* After the last byte, the patch is known to be the release's own, and    *)
(* the user is asked only when every byte is new.                          *)
LEMMA VerifiedIInv == IInv /\ Verified => IInv'
<1> SUFFICES ASSUME IInv, Verified PROVE IInv'
  OBVIOUS
<1> USE DEF IInv
<1>1. /\ p \in 1..Len(Patches) /\ k \in Nat \ {0}
      /\ phase = "verify" /\ phase' \in {"ask", "patch"} /\ k' = 1
      /\ UNCHANGED <<file, release, readable, p, already, lost, result, faults>>
  BY DEF Verified, TypeOK
<1>2. Len(Patches[p]) \in Nat
  BY <1>1
<1>3. 1..Len(Patches[p]) \subseteq 1..(k - 1)
  BY <1>1, <1>2 DEF Verified, More
<1>4. p = PatchOf[release]
  <2>1. \A c \in Changes(p) : Compatible(c)
    BY <1>1, <1>3 DEF Progress, Changes, Line
  <2> QED BY <2>1, <1>1, VerifiedIsOwn
<1>5. phase' = "ask" => IsPatched'
  <2>1. phase' = "ask" => \A c \in Changes(p) : file[c.offset] = c.new_val
    BY <1>1, <1>3 DEF Verified, Progress, Changes, Line
  <2> QED BY <2>1, <1>1, <1>4 DEF IsPatched, HasPatch
<1>6. TypeOK'
  BY <1>1, <1>2 DEF TypeOK, Phases
<1>7. OneVersion' /\ Untold' /\ Recognised' /\ Progress'
  BY <1>1, <1>4 DEF OneVersion, Untold, Recognised, Progress
<1> QED BY <1>1, <1>5, <1>6, <1>7 DEF ReportedIsTrue

(* A loop that has come to its end has written every change.               *)
LEMMA AllWrittenIInv == IInv /\ AllWritten => IInv'
<1> SUFFICES ASSUME IInv, AllWritten PROVE IInv'
  OBVIOUS
<1> USE DEF IInv
<1>1. /\ Writing /\ p \in 1..Len(Patches) /\ k \in Nat \ {0}
      /\ p = PatchOf[release] /\ PatchOf[release] # 0 /\ phase' = "done"
      /\ UNCHANGED <<file, release, readable, p, k, already, lost, faults>>
  BY DEF AllWritten, Writing, TypeOK, Recognised
<1>2. Len(Patches[p]) \in Nat
  BY <1>1
<1>3. 1..Len(Patches[p]) \subseteq 1..(k - 1)
  BY <1>1, <1>2 DEF AllWritten, More
<1>4. phase = "patch" /\ ~lost => IsPatched
  BY <1>1, <1>3 DEF Progress, Changes, Line, IsPatched, HasPatch
<1>5. phase = "unpatch" /\ ~lost => IsOriginal
  BY <1>1, <1>3, AllOldIsOriginal DEF Progress, Changes, Line
<1>6. result' = IF phase = "patch" THEN "patched" ELSE "unpatched"
  BY DEF AllWritten
<1>7. ReportedIsTrue'
  BY <1>1, <1>4, <1>5, <1>6 DEF ReportedIsTrue, IsPatched, IsOriginal, HasPatch, Writing
<1>8. TypeOK'
  BY <1>1, <1>6 DEF TypeOK, Phases, Results
<1>9. OneVersion' /\ Untold' /\ Recognised' /\ Progress'
  BY <1>1 DEF OneVersion, Untold, Recognised, Progress
<1> QED BY <1>7, <1>8, <1>9

(* A lost write costs the claim, not the file.                             *)
LEMMA WriteIsLostIInv == IInv /\ WriteIsLost => IInv'
<1> SUFFICES ASSUME IInv, WriteIsLost PROVE IInv'
  OBVIOUS
<1> USE DEF IInv
<1>1. Writing /\ p \in 1..Len(Patches) /\ k \in Nat \ {0}
  BY DEF WriteIsLost, Writing, TypeOK
<1>2. Len(Patches[p]) \in Nat
  BY <1>1
<1>3. TypeOK'
  BY <1>1, <1>2 DEF WriteIsLost, TypeOK, Fault, More
<1>4. OneVersion' /\ Untold' /\ Recognised' /\ Progress' /\ ReportedIsTrue'
  BY <1>1 DEF WriteIsLost, OneVersion, Untold, Recognised, Progress, ReportedIsTrue, Writing
<1> QED BY <1>3, <1>4

(* Going on with the next patch, for whatever reason.                      *)
LEMMA NextPatchIInv ==
  ASSUME IInv, NextPatch, p <= Len(Patches), faults' \in 0..MaxFaults,
         phase \notin {"stopped", "done"}
  PROVE  IInv'
<1> USE DEF IInv, NextPatch
<1>1. TypeOK'
  BY DEF TypeOK, Phases
<1> QED BY <1>1 DEF OneVersion, Untold, Recognised, Progress, ReportedIsTrue

(* The steps that neither read nor write a byte.                           *)
LEMMA OutsideLoopsIInv ==
  ASSUME IInv,
         \/ \E R \in SUBSET (1..Len(Patches)) : Start(R)
         \/ NoneLeft \/ Open \/ (\E yes \in BOOLEAN : Answer(yes))
         \/ End \/ Stop \/ (\E r \in Releases : Update(r))
  PROVE  IInv'
<1> USE DEF IInv
<1>1. ASSUME NEW R \in SUBSET (1..Len(Patches)), Start(R) PROVE IInv'
  <2>1. already' \in BOOLEAN /\ lost' \in BOOLEAN
    BY <1>1 DEF Start
  <2>2. TypeOK'
    BY <1>1, <2>1 DEF Start, TypeOK, Phases, Results
  <2> QED BY <1>1, <2>2 DEF Start, OneVersion, Untold, Recognised, Progress, ReportedIsTrue
<1>2. CASE NoneLeft
  BY <1>2 DEF NoneLeft, TypeOK, Phases, OneVersion, Untold, Recognised, Progress, ReportedIsTrue
<1>3. CASE Open
  BY <1>3 DEF Open, Exhausted, TypeOK, Phases, OneVersion, Untold, Recognised, Progress, ReportedIsTrue
<1>4. ASSUME NEW yes \in BOOLEAN, Answer(yes) PROVE IInv'
  <2>1. phase = "ask" /\ IsPatched /\ UNCHANGED <<file, release, p, k>> /\ k \in Nat
    BY <1>4 DEF Answer, ReportedIsTrue, TypeOK
  <2>2. IsPatched'
    BY <2>1 DEF IsPatched, HasPatch
  <2>3. TypeOK'
    BY <1>4 DEF Answer, TypeOK, Phases, Results
  <2>4. Progress'
    BY <1>4 DEF Answer, Progress
  <2> QED BY <1>4, <2>2, <2>3, <2>4
          DEF Answer, OneVersion, Untold, Recognised, ReportedIsTrue
<1>5. CASE End
  BY <1>5 DEF End, TypeOK, Phases, OneVersion, Untold, Recognised, Progress, ReportedIsTrue
<1>6. CASE Stop
  BY <1>6 DEF Stop, Fault, TypeOK, Phases, OneVersion, Untold, Recognised, Progress, ReportedIsTrue
<1>7. ASSUME NEW r \in Releases, Update(r) PROVE IInv'
  <2>1. OneVersion'
    BY <1>7 DEF Update, OneVersion, Possible
  <2>2. TypeOK'
    BY <1>7 DEF Update, TypeOK
  <2> QED BY <1>7, <2>1, <2>2 DEF Update, Untold, Recognised, Progress, ReportedIsTrue
<1> QED BY <1>1, <1>2, <1>3, <1>4, <1>5, <1>6, <1>7

(* The invariant is kept by every step.                                    *)
LEMMA StepIInv == IInv /\ [Next]_vars => IInv'
<1> SUFFICES ASSUME IInv, [Next]_vars PROVE IInv'
  OBVIOUS
<1>1. CASE UNCHANGED vars
  BY <1>1 DEF vars, IInv, TypeOK, OneVersion, Untold, Recognised, Progress, Line, Compatible,
              ReportedIsTrue, IsPatched, IsOriginal, HasPatch
<1>2. CASE NotListed \/ OpenFails \/ Incompatible \/ WriteFails
  <2>1. p <= Len(Patches)
    <3>1. CASE NotListed \/ OpenFails
      BY <3>1 DEF IInv, TypeOK, NotListed, OpenFails, Exhausted
    <3>2. CASE Incompatible \/ WriteFails
      BY <3>2 DEF IInv, TypeOK, Incompatible, WriteFails, Writing
    <3> QED BY <1>2, <3>1, <3>2
  <2>2. faults' \in 0..MaxFaults /\ NextPatch
    BY <1>2 DEF IInv, TypeOK, NotListed, OpenFails, Incompatible, WriteFails, Fault
  <2>3. phase \notin {"stopped", "done"}
    BY <1>2 DEF NotListed, OpenFails, Incompatible, WriteFails, Writing
  <2> QED BY <2>1, <2>2, <2>3, NextPatchIInv
<1> QED BY <1>1, <1>2, WriteIInv, VerifyIInv, VerifiedIInv, AllWrittenIInv,
           WriteIsLostIInv, OutsideLoopsIInv DEF Next, Run, GoesWrong

LEMMA Invariance == Spec => []IInv
<1> QED BY InitIInv, StepIInv, PTL DEF Spec

-----------------------------------------------------------------------------
(* The patcher's variables keep their types: it never goes past the last   *)
(* patch or the last change.                                               *)
THEOREM PatcherTypeCorrect == Spec => []TypeOK
<1>1. IInv => TypeOK
  BY DEF IInv
<1> QED BY <1>1, Invariance, PTL

(* Whatever stops the patcher, and however often it is run and the game    *)
(* updated, the executable is one release with changes of its own patch.   *)
THEOREM NeverMixed == Spec => []OneVersion
<1>1. IInv => OneVersion
  BY DEF IInv
<1> QED BY <1>1, Invariance, PTL

(* A patcher whose writes arrive says of the file only what is so.         *)
THEOREM Truthful == Spec => []ReportedIsTrue
<1>1. IInv => ReportedIsTrue
  BY DEF IInv
<1> QED BY <1>1, Invariance, PTL
=============================================================================
