---------------------------- MODULE ErasureProofs ----------------------------
(***************************************************************************)
(* Proofs about Erasure, for any number of erasers, writers, files and     *)
(* edits.  The two locks exclude: what an eraser establishes about journal,*)
(* audit entries and files lasts while it works, and what a writer with a  *)
(* lock has read is still there when it writes.  A writer without a lock   *)
(* spoils the file it writes (Foreign), so some theorems assume that the   *)
(* preview mutates at least one file that no such writer writes.           *)
(***************************************************************************)
EXTENDS Erasure, TLAPS

OneGuarded == \E f \in Files : \A w \in Writers : DocOf[w] = f => LockOf[w] # "none"

Pending == {"check", "prepare", "load", "next", "draft", "replace", "unlink", "record", "save", "complete", "remove"}
Mutating == {"next", "draft", "replace", "unlink", "record", "save"}

Labels == Working \cup {"idle", "lock", "unlock", "unlockSession", "start", "read", "guard", "write", "rename",
                        "track", "digest", "release", "done", "failed"}

(* The types that the other parts rest on.                                   *)
Typed ==
    /\ file \in [Files -> Contents] /\ entry \in [Tracked -> Contents]
    /\ prepared \in Nat /\ completed \in Nat
    /\ lock \in [Locks -> Erasers \cup Writers \cup {Free, Wedged}]
    /\ pc \in [Erasers \cup Writers -> Labels]
    /\ tracked \in [Erasers -> [Tracked -> Contents]] /\ todo \in [Erasers -> SUBSET Files]
    /\ loaded \in [Writers -> Contents]
    /\ edits \in Nat

(* Who is where owns what.                                                   *)
EraserLocks ==
    \A e \in Erasers :
        /\ pc[e] \in Working \cup {"idle", "lock", "unlock", "unlockSession"}
        /\ lock["session"] = e <=> pc[e] # "idle"
        /\ lock["manifest"] = e <=> pc[e] \in Working \cup {"unlock"}

(* A writer that may yet touch a file, the manifest or what it has read.     *)
Busy(w) == pc[w] \in {"read", "guard", "write", "rename", "track"}

WriterLocks ==
    \A w \in Writers :
        /\ pc[w] \in {"idle", "start", "read", "guard", "write", "rename", "track", "digest", "release", "done", "failed"}
        /\ pc[w] = "track" => LockOf[w] = "manifest"
        /\ \A l \in Locks : /\ LockOf[w] = l /\ Busy(w) => lock[l] = w
                            /\ lock[l] = w => LockOf[w] = l /\ (Busy(w) \/ pc[w] \in {"digest", "release"})

Owners == EraserLocks /\ WriterLocks

(* What journal and audit entries say of each other.                         *)
Counted ==
    /\ prepared \in {0, 1} /\ completed \in {0, 1} /\ completed <= prepared
    /\ ~journal => prepared = completed
    /\ \A e \in Erasers :
         /\ pc[e] \in {"intend", "intended"} => ~journal /\ prepared = 0
         /\ pc[e] \in Pending => journal
         /\ pc[e] = "prepare" => prepared = 0
         /\ pc[e] \in Mutating \cup {"load", "complete", "remove"} => prepared = 1
         /\ pc[e] = "remove" => completed = 1

(* Nothing is erased before the authority is on record.                      *)
Untouched ==
    prepared = 0 => /\ \A f \in Files : file[f] \in Dirty
                    /\ \A w \in Writers : loaded[w] \in Dirty

(* What an eraser is through with is clean, and what is certified too.       *)
Progress ==
    \A e \in Erasers :
        /\ pc[e] \in Mutating => \A f \in Files \ (todo[e] \cup Foreign) : file[f] \in Clean
        /\ pc[e] \in {"record", "save"} /\ Target(e) \in Files \ Foreign => file[Target(e)] \in Clean
        /\ pc[e] = "complete" => All(Clean)

Certified == completed = 1 => All(Clean)

(* A writer with a lock writes what it has read.                             *)
Faithful ==
    \A w \in Writers : LockOf[w] # "none" /\ pc[w] \in {"guard", "write", "rename"} /\ DocOf[w] \notin Foreign =>
        (loaded[w] \in Dirty <=> file[DocOf[w]] \in Dirty)

(* What a prepared erasure finds is what it left.                            *)
Started == journal \/ \E e \in Erasers : pc[e] \in {"intend", "intended"}

Left(recorded, f) == recorded = "old" \/ (recorded = "new" /\ file[f] = "new")

Carried(e) ==
    /\ pc[e] \in Mutating => \A f \in Tracked : Left(tracked[e][f], f)
    /\ pc[e] \in {"record", "save"} /\ Target(e) \in Files => file[Target(e)] = "new"

Intact ==
    /\ \A f \in Files : file[f] \in {"old", "new"}
    /\ \A f \in Tracked : Left(entry[f], f)
    /\ \A w \in Writers : LockOf[w] # "none" => pc[w] \notin {"guard", "write", "rename", "track"}
    /\ \A e \in Erasers : Carried(e)

Kept ==
    /\ edits = 0 => chain /\ bystander
    /\ edits = 0 /\ Started /\ Foreign = {} => Intact

Facts == Counted /\ Untouched /\ Progress /\ Certified /\ Faithful /\ Kept

IInv == Typed /\ Owners /\ Facts

USE DEF Goto, Step, workspace, locals, Locks, Dirty, Clean, Contents, Working, Pending, Mutating, Labels

LEMMA TargetStays ==
    ASSUME NEW e \in Erasers, todo'[e] = todo[e] PROVE Target(e)' = Target(e)
BY DEF Target
-----------------------------------------------------------------------------
(* Types *)

LEMMA EraseTypes == ASSUME Typed, NEW e \in Erasers, Erase(e) PROVE Typed'
<1> USE ErasureAssumption DEF Typed
<1>1. CASE LockSession(e)
  BY <1>1 DEF LockSession
<1>2. CASE LockManifest(e)
  <2>1. CASE lock["manifest"] = Free
    <3>1. /\ pc' = [pc EXCEPT ![e] = "begin"] /\ lock' = [lock EXCEPT !["manifest"] = e]
          /\ UNCHANGED <<file, entry, prepared, completed, tracked, todo, loaded, edits>>
      BY <1>2, <2>1 DEF LockManifest
    <3>2. QED
      BY <3>1
  <2>2. CASE lock["manifest"] # Free
    BY <1>2, <2>2 DEF LockManifest
  <2>3. QED
    BY <2>1, <2>2
<1>3. CASE UnlockManifest(e)
  BY <1>3 DEF UnlockManifest, Forget
<1>4. CASE UnlockSession(e)
  BY <1>4 DEF UnlockSession
<1>5. CASE Throw(e)
  BY <1>5 DEF Throw
<1>6. CASE Execute(e)
  BY <1>6 DEF Execute
<1>7. CASE Resume(e)
  BY <1>7 DEF Resume
<1>8. CASE DraftIntent(e)
  BY <1>8 DEF DraftIntent
<1>9. CASE Intend(e)
  BY <1>9 DEF Intend
<1>10. CASE Check(e)
  BY <1>10 DEF Check
<1>11. CASE Prepare(e)
  BY <1>11 DEF Prepare
<1>12. CASE Load(e)
  BY <1>12 DEF Load
<1>13. CASE Compare(e)
  BY <1>13 DEF Compare
<1>14. CASE DraftFile(e)
  BY <1>14 DEF DraftFile
<1>15. CASE Replace(e)
  BY <1>15 DEF Replace
<1>16. CASE Unlink(e)
  BY <1>16 DEF Unlink
<1>17. CASE DraftManifest(e)
  BY <1>17 DEF DraftManifest
<1>18. CASE SaveManifest(e)
  BY <1>18 DEF SaveManifest
<1>19. CASE Confirm(e)
  BY <1>19 DEF Confirm
<1>20. CASE Complete(e)
  BY <1>20 DEF Complete
<1>21. CASE Remove(e)
  BY <1>21 DEF Remove
<1>22. QED
  BY <1>1, <1>2, <1>3, <1>4, <1>5, <1>6, <1>7, <1>8, <1>9, <1>10, <1>11, <1>12, <1>13, <1>14, <1>15, <1>16, <1>17, <1>18, <1>19, <1>20, <1>21 DEF Erase

Work(w) == \/ Enter(w) \/ Lock(w) \/ Read(w) \/ Guard(w) \/ Write(w) \/ Rename(w) \/ Track(w)
           \/ Digest(w) \/ Release(w) \/ ClearLitter(w)

LEMMA WorkTypes == ASSUME Typed, NEW w \in Writers, Work(w) PROVE Typed'
<1> USE ErasureAssumption DEF Typed, Changed, Ended
<1>1. CASE Lock(w)
  BY <1>1 DEF Lock
<1>2. CASE Read(w)
  BY <1>2 DEF Read, Loads
<1>3. CASE Guard(w)
  BY <1>3 DEF Guard
<1>4. CASE Write(w)
  BY <1>4 DEF Write
<1>5. CASE Rename(w)
  BY <1>5 DEF Rename
<1>6. CASE Track(w)
  BY <1>6 DEF Track
<1>7. CASE Release(w)
  <2>1. lock' \in [Locks -> Erasers \cup Writers \cup {Free, Wedged}]
    BY <1>7 DEF Release
  <2>2. /\ loaded' \in [Writers -> Contents]
        /\ tracked' \in [Erasers -> [Tracked -> Contents]] /\ todo' \in [Erasers -> SUBSET Files]
    BY <1>7 DEF Release, Forget
  <2>3. pc' \in [Erasers \cup Writers -> Labels]
    <3>1. Ended(w) \in Labels /\ pc' = [pc EXCEPT ![w] = Ended(w)]
      BY <1>7 DEF Release
    <3> HIDE DEF Ended, Labels
    <3>2. QED
      BY <3>1
  <2>4. /\ file' \in [Files -> Contents] /\ entry' \in [Tracked -> Contents]
        /\ prepared' \in Nat /\ completed' \in Nat /\ edits' \in Nat
    BY <1>7 DEF Release
  <2> HIDE ErasureAssumption DEF Ended, Changed, Labels, Contents, Dirty, Clean, Locks
  <2>5. QED
    BY <2>1, <2>2, <2>3, <2>4 DEF Typed
<1>8. CASE Enter(w)
  BY <1>8 DEF Enter
<1>9. CASE Digest(w)
  BY <1>9 DEF Digest
<1>10. CASE ClearLitter(w)
  BY <1>10 DEF ClearLitter
<1>11. QED
  BY <1>1, <1>2, <1>3, <1>4, <1>5, <1>6, <1>7, <1>8, <1>9, <1>10 DEF Work

Death(p) == \/ p \in Erasers /\ Die(p, "idle")
            \/ p \in Writers /\ Die(p, Ended(p))

LEMMA DeathTypes == ASSUME Typed, NEW p \in Erasers \cup Writers, Death(p) PROVE Typed'
<1>1. lock' \in [Locks -> Erasers \cup Writers \cup {Free, Wedged}]
  BY DEF Typed, Death, Die
<1>2. CASE Die(p, "idle")
  BY <1>1, <1>2 DEF Typed, Die, Forget
<1>3. CASE Die(p, Ended(p))
  BY <1>1, <1>3 DEF Typed, Die, Ended, Forget
<1>4. QED
  BY <1>2, <1>3 DEF Death

Around == \/ \E l \in Locks : ClearLock(l)
          \/ \E s \in Files \cup {Intent, Manifest} : ClearScratch(s)
          \/ \E f \in Files : Edit(f) \/ Undo(f)
          \/ Expire \/ EditBystander \/ Fork

LEMMA AroundTypes == ASSUME Typed, Around PROVE Typed'
<1> USE ErasureAssumption DEF Typed
<1>1. ASSUME NEW l \in Locks, ClearLock(l) PROVE Typed'
  BY <1>1 DEF ClearLock
<1>2. ASSUME NEW s \in Files \cup {Intent, Manifest}, ClearScratch(s) PROVE Typed'
  BY <1>2 DEF ClearScratch
<1>3. ASSUME NEW f \in Files, Edit(f) PROVE Typed'
  BY <1>3 DEF Edit, Behind, Changed
<1>4. ASSUME NEW f \in Files, Undo(f) PROVE Typed'
  BY <1>4 DEF Undo
<1>5. CASE Expire
  BY <1>5 DEF Expire
<1>6. CASE EditBystander
  BY <1>6 DEF EditBystander, Behind
<1>7. CASE Fork
  BY <1>7 DEF Fork, Behind
<1>8. QED
  BY <1>1, <1>2, <1>3, <1>4, <1>5, <1>6, <1>7 DEF Around
-----------------------------------------------------------------------------
(* Locks *)

LEMMA EraseOwners == ASSUME Typed, Owners, NEW e \in Erasers, Erase(e) PROVE Owners'
<1> USE ErasureAssumption DEF Typed, Owners, EraserLocks, WriterLocks, Busy
<1>1. CASE LockSession(e)
  BY <1>1 DEF LockSession
<1>2. CASE LockManifest(e)
  BY <1>2 DEF LockManifest
<1>3. CASE UnlockManifest(e)
  BY <1>3 DEF UnlockManifest, Forget
<1>4. CASE UnlockSession(e)
  BY <1>4 DEF UnlockSession
<1>5. CASE Throw(e)
  BY <1>5 DEF Throw
<1>6. CASE Execute(e)
  BY <1>6 DEF Execute
<1>7. CASE Resume(e)
  BY <1>7 DEF Resume
<1>8. CASE DraftIntent(e)
  BY <1>8 DEF DraftIntent
<1>9. CASE Intend(e)
  BY <1>9 DEF Intend
<1>10. CASE Check(e)
  BY <1>10 DEF Check
<1>11. CASE Prepare(e)
  BY <1>11 DEF Prepare
<1>12. CASE Load(e)
  BY <1>12 DEF Load
<1>13. CASE Compare(e)
  BY <1>13 DEF Compare
<1>14. CASE DraftFile(e)
  BY <1>14 DEF DraftFile
<1>15. CASE Replace(e)
  BY <1>15 DEF Replace
<1>16. CASE Unlink(e)
  BY <1>16 DEF Unlink
<1>17. CASE DraftManifest(e)
  BY <1>17 DEF DraftManifest
<1>18. CASE SaveManifest(e)
  BY <1>18 DEF SaveManifest
<1>19. CASE Confirm(e)
  BY <1>19 DEF Confirm
<1>20. CASE Complete(e)
  BY <1>20 DEF Complete
<1>21. CASE Remove(e)
  BY <1>21 DEF Remove
<1>22. QED
  BY <1>1, <1>2, <1>3, <1>4, <1>5, <1>6, <1>7, <1>8, <1>9, <1>10, <1>11, <1>12, <1>13, <1>14, <1>15, <1>16, <1>17, <1>18, <1>19, <1>20, <1>21 DEF Erase

LEMMA WorkOwners == ASSUME Typed, Owners, NEW w \in Writers, Work(w) PROVE Owners'
<1> USE ErasureAssumption DEF Typed, Owners, EraserLocks, WriterLocks, Busy, Ended
<1>1. CASE Lock(w)
  BY <1>1 DEF Lock
<1>2. CASE Read(w)
  BY <1>2 DEF Read, Loads
<1>3. CASE Guard(w)
  BY <1>3 DEF Guard
<1>4. CASE Write(w)
  BY <1>4 DEF Write
<1>5. CASE Rename(w)
  BY <1>5 DEF Rename
<1>6. CASE Track(w)
  BY <1>6 DEF Track
<1>7. CASE Release(w)
  BY <1>7 DEF Release, Forget
<1>8. CASE Enter(w) \/ Digest(w) \/ ClearLitter(w)
  BY <1>8 DEF Enter, Digest, ClearLitter
<1>9. QED
  BY <1>1, <1>2, <1>3, <1>4, <1>5, <1>6, <1>7, <1>8 DEF Work

LEMMA DeathOwners == ASSUME Typed, Owners, NEW p \in Erasers \cup Writers, Death(p) PROVE Owners'
<1> USE ErasureAssumption DEF Typed, Owners, Die
<1>1. CASE p \in Erasers /\ Die(p, "idle")
  <2>1. EraserLocks'
    BY <1>1 DEF EraserLocks
  <2>2. WriterLocks'
    BY <1>1 DEF WriterLocks, Busy
  <2>3. QED
    BY <2>1, <2>2
<1>2. CASE p \in Writers /\ Die(p, Ended(p))
  <2>1. EraserLocks'
    BY <1>2 DEF EraserLocks
  <2>2. WriterLocks'
    BY <1>2 DEF WriterLocks, Busy, Ended
  <2>3. QED
    BY <2>1, <2>2
<1>3. QED
  BY <1>1, <1>2 DEF Death

LEMMA AroundOwners == ASSUME Typed, Owners, Around PROVE Owners'
<1> USE ErasureAssumption DEF Typed, Owners, EraserLocks, WriterLocks, Busy
<1>1. CASE \E l \in Locks : ClearLock(l)
  BY <1>1 DEF ClearLock
<1>2. CASE ~(\E l \in Locks : ClearLock(l))
  BY <1>2 DEF Around, ClearScratch, Edit, Undo, Expire, EditBystander, Fork, Behind
<1>3. QED
  BY <1>1, <1>2

(* An eraser at work is alone: no other one works, and no writer holds a     *)
(* lock.                                                                     *)
LEMMA Alone ==
    ASSUME Owners, NEW e \in Erasers, pc[e] \in Working
    PROVE  /\ \A d \in Erasers : pc[d] \in Working => d = e
           /\ \A w \in Writers : Busy(w) => LockOf[w] = "none"
BY ErasureAssumption DEF Owners, EraserLocks, WriterLocks
-----------------------------------------------------------------------------
(* Frames *)

(* What a step of an eraser leaves alone.                                    *)
Others(e) == /\ UNCHANGED <<bystander, chain, loaded, edits>>
             /\ \A q \in (Erasers \cup Writers) \ {e} : pc'[q] = pc[q]
             /\ \A d \in Erasers \ {e} : todo'[d] = todo[d] /\ tracked'[d] = tracked[d]

LEMMA EraserOthers == ASSUME Typed, NEW e \in Erasers, Erase(e) PROVE Others(e)
<1> USE DEF Typed, Others
<1>1. CASE LockSession(e)
  BY <1>1 DEF LockSession
<1>2. CASE LockManifest(e)
  BY <1>2 DEF LockManifest
<1>3. CASE UnlockManifest(e)
  <2>1. \A w \in Writers : w # e
    BY ErasureAssumption
  <2>2. loaded' = loaded
    BY <1>3, <2>1 DEF UnlockManifest, Forget
  <2>3. QED
    BY <1>3, <2>2 DEF UnlockManifest, Forget
<1>4. CASE UnlockSession(e)
  BY <1>4 DEF UnlockSession
<1>5. CASE Throw(e)
  BY <1>5 DEF Throw
<1>6. CASE Execute(e)
  BY <1>6 DEF Execute
<1>7. CASE Resume(e)
  BY <1>7 DEF Resume
<1>8. CASE DraftIntent(e)
  BY <1>8 DEF DraftIntent
<1>9. CASE Intend(e)
  BY <1>9 DEF Intend
<1>10. CASE Check(e)
  BY <1>10 DEF Check
<1>11. CASE Prepare(e)
  BY <1>11 DEF Prepare
<1>12. CASE Load(e)
  BY <1>12 DEF Load
<1>13. CASE Compare(e)
  BY <1>13 DEF Compare
<1>14. CASE DraftFile(e)
  BY <1>14 DEF DraftFile
<1>15. CASE Replace(e)
  BY <1>15 DEF Replace
<1>16. CASE Unlink(e)
  BY <1>16 DEF Unlink
<1>17. CASE DraftManifest(e)
  BY <1>17 DEF DraftManifest
<1>18. CASE SaveManifest(e)
  BY <1>18 DEF SaveManifest
<1>19. CASE Confirm(e)
  BY <1>19 DEF Confirm
<1>20. CASE Complete(e)
  BY <1>20 DEF Complete
<1>21. CASE Remove(e)
  BY <1>21 DEF Remove
<1>22. QED
  BY <1>1, <1>2, <1>3, <1>4, <1>5, <1>6, <1>7, <1>8, <1>9, <1>10, <1>11, <1>12, <1>13, <1>14, <1>15, <1>16, <1>17, <1>18, <1>19, <1>20, <1>21 DEF Erase

LEMMA EraserFrame ==
    ASSUME Typed, NEW e \in Erasers, Erase(e)
    PROVE  /\ UNCHANGED <<bystander, chain, loaded, edits, Foreign>>
           /\ \A w \in Writers : pc'[w] = pc[w]
           /\ \A d \in Erasers \ {e} : pc'[d] = pc[d] /\ todo'[d] = todo[d] /\ tracked'[d] = tracked[d] /\ Target(d)' = Target(d)
<1>1. /\ UNCHANGED <<bystander, chain, loaded, edits>>
      /\ \A w \in Writers : pc'[w] = pc[w]
      /\ \A d \in Erasers \ {e} : pc'[d] = pc[d] /\ todo'[d] = todo[d] /\ tracked'[d] = tracked[d]
  BY EraserOthers, ErasureAssumption DEF Others
<1>2. Foreign' = Foreign
  BY <1>1 DEF Foreign
<1>3. QED
  BY <1>1, <1>2, TargetStays

(* Every other step.                                                         *)
Elsewhere == \/ \E w \in Writers : Work(w)
             \/ \E p \in Erasers \cup Writers : Death(p)
             \/ Around

(* A file that a writer without a lock has spoiled stays spoiled.            *)
LEMMA ElsewhereFrame ==
    ASSUME Typed, Owners, Elsewhere
    PROVE  /\ UNCHANGED <<journal, prepared, completed>>
           /\ \A e \in Erasers : \/ pc'[e] = "idle"
                                 \/ pc'[e] = pc[e] /\ todo'[e] = todo[e] /\ tracked'[e] = tracked[e]
           /\ Foreign \subseteq Foreign'
<1> DEFINE Same(e) == pc'[e] = pc[e] /\ todo'[e] = todo[e] /\ tracked'[e] = tracked[e]
           Wrote(w) == LockOf[w] = "none" /\ pc[w] \in {"rename", "release", "done"}
           Goal == /\ UNCHANGED <<journal, prepared, completed>>
                   /\ \A e \in Erasers : pc'[e] = "idle" \/ Same(e)
                   /\ \A w \in Writers : Wrote(w) => pc'[w] \in {"rename", "release", "done"}
<1>1. ASSUME NEW w \in Writers, Work(w) PROVE Goal
  <2>1. UNCHANGED <<journal, prepared, completed>>
    BY <1>1 DEF Work, Enter, Lock, Read, Loads, Guard, Write, Rename, Track, Digest, Release, ClearLitter
  <2>2. \A q \in (Erasers \cup Writers) \ {w} : pc'[q] = pc[q]
    BY <1>1 DEF Typed, Work, Enter, Lock, Read, Loads, Guard, Write, Rename, Track, Digest, Release, ClearLitter
  <2>3. \A e \in Erasers : todo'[e] = todo[e] /\ tracked'[e] = tracked[e]
    <3>1. CASE Release(w)
      BY <3>1, ErasureAssumption DEF Release, Forget
    <3>2. CASE ~Release(w)
      BY <1>1, <3>2 DEF Work, Enter, Lock, Read, Loads, Guard, Write, Rename, Track, Digest, ClearLitter
    <3>3. QED
      BY <3>1, <3>2
  <2>4. Wrote(w) => pc'[w] \in {"rename", "release", "done"}
    BY <1>1 DEF Typed, Work, Enter, Lock, Read, Loads, Guard, Write, Rename, Track, Digest, Release, ClearLitter, Ended
  <2>5. QED
    BY <2>1, <2>2, <2>3, <2>4, ErasureAssumption
<1>2. ASSUME NEW p \in Erasers \cup Writers, Death(p) PROVE Goal
  <2>1. UNCHANGED <<journal, prepared, completed>>
    BY <1>2 DEF Death, Die
  <2>2. \A q \in (Erasers \cup Writers) \ {p} : pc'[q] = pc[q]
    BY <1>2 DEF Typed, Death, Die
  <2>3. \A e \in Erasers \ {p} : todo'[e] = todo[e] /\ tracked'[e] = tracked[e]
    BY <1>2 DEF Death, Die, Forget
  <2>4. CASE p \in Erasers /\ Die(p, "idle")
    <3>1. pc'[p] = "idle"
      BY <2>4 DEF Die, Typed
    <3>2. QED
      BY <2>1, <2>2, <2>3, <2>4, <3>1, ErasureAssumption
  <2>5. CASE p \in Writers /\ Die(p, Ended(p))
    <3>1. Wrote(p) => pc'[p] = "done"
      BY <2>5 DEF Die, Typed, Ended
    <3>2. QED
      BY <2>1, <2>2, <2>3, <2>5, <3>1, ErasureAssumption
  <2>6. QED
    BY <1>2, <2>4, <2>5 DEF Death
<1>3. ASSUME Around PROVE Goal
  BY <1>3 DEF Around, ClearLock, ClearScratch, Edit, Undo, Expire, EditBystander, Fork, Behind
<1>4. Goal
  BY <1>1, <1>2, <1>3 DEF Elsewhere
<1>5. Foreign \subseteq Foreign'
  BY <1>4 DEF Foreign
<1>6. QED
  BY <1>4, <1>5

(* What the steps do to a file without its data, and to one with it.         *)
LEMMA ElsewhereFiles ==
    ASSUME Typed, Owners, Faithful, Elsewhere, NEW f \in Files, f \notin Foreign'
    PROVE  file'[f] \in Clean <=> file[f] \in Clean
<1>1. ASSUME NEW w \in Writers, Rename(w), DocOf[w] = f PROVE file'[f] \in Clean <=> file[f] \in Clean
  <2>1. /\ pc[w] = "rename" /\ file'[f] = Changed(loaded[w])
        /\ LockOf[w] = "none" => pc'[w] = "release"
    BY <1>1 DEF Rename, Typed
  <2>2. LockOf[w] # "none"
    BY <1>1, <2>1 DEF Foreign
  <2>3. f \notin Foreign
    BY ElsewhereFrame
  <2>4. file[f] \in Contents /\ loaded[w] \in Contents
    BY DEF Typed
  <2>5. loaded[w] \in Dirty <=> file[f] \in Dirty
    BY <1>1, <2>1, <2>2, <2>3 DEF Faithful
  <2>6. QED
    BY <2>1, <2>4, <2>5 DEF Changed
<1>2. ASSUME NEW w \in Writers, Work(w), ~(Rename(w) /\ DocOf[w] = f) PROVE file'[f] = file[f]
  BY <1>2, ErasureAssumption DEF Work, Enter, Lock, Read, Loads, Guard, Write, Rename, Track, Digest, Release, Forget, ClearLitter, Typed
<1>3. ASSUME NEW p \in Erasers \cup Writers, Death(p) PROVE file'[f] = file[f]
  BY <1>3 DEF Death, Die
<1>4. ASSUME Around PROVE file'[f] \in Clean <=> file[f] \in Clean
  <2>1. ASSUME NEW g \in Files, Edit(g) PROVE file'[f] \in Clean <=> file[f] \in Clean
    BY <2>1 DEF Edit, Typed, Changed
  <2>2. ASSUME NEW g \in Files, Undo(g) PROVE file'[f] \in Clean <=> file[f] \in Clean
    BY <2>2 DEF Undo, Typed
  <2>3. CASE ~(\E g \in Files : Edit(g) \/ Undo(g))
    BY <1>4, <2>3 DEF Around, ClearLock, ClearScratch, Expire, EditBystander, Fork, Behind
  <2>4. QED
    BY <2>1, <2>2, <2>3
<1>5. QED
  BY <1>1, <1>2, <1>3, <1>4 DEF Elsewhere

LEMMA EraserFiles ==
    ASSUME Typed, Owners, NEW e \in Erasers, Erase(e)
    PROVE  \/ file' = file
           \/ /\ pc[e] \in {"replace", "unlink"} /\ pc'[e] = "record" /\ todo' = todo
              /\ file' = [file EXCEPT ![Target(e)] = "new"]
              /\ UNCHANGED <<entry, tracked, journal, prepared, completed>>
<1>1. CASE LockSession(e)
  BY <1>1 DEF LockSession, Typed
<1>2. CASE LockManifest(e)
  BY <1>2 DEF LockManifest, Typed
<1>3. CASE UnlockManifest(e)
  BY <1>3 DEF UnlockManifest, Typed
<1>4. CASE UnlockSession(e)
  BY <1>4 DEF UnlockSession, Typed
<1>5. CASE Throw(e)
  BY <1>5 DEF Throw, Typed
<1>6. CASE Execute(e)
  BY <1>6 DEF Execute, Typed
<1>7. CASE Resume(e)
  BY <1>7 DEF Resume, Typed
<1>8. CASE DraftIntent(e)
  BY <1>8 DEF DraftIntent, Typed
<1>9. CASE Intend(e)
  BY <1>9 DEF Intend, Typed
<1>10. CASE Check(e)
  BY <1>10 DEF Check, Typed
<1>11. CASE Prepare(e)
  BY <1>11 DEF Prepare, Typed
<1>12. CASE Load(e)
  BY <1>12 DEF Load, Typed
<1>13. CASE Compare(e)
  BY <1>13 DEF Compare, Typed
<1>14. CASE DraftFile(e)
  BY <1>14 DEF DraftFile, Typed
<1>15. CASE Replace(e)
  BY <1>15 DEF Replace, Typed
<1>16. CASE Unlink(e)
  BY <1>16 DEF Unlink, Typed
<1>17. CASE DraftManifest(e)
  BY <1>17 DEF DraftManifest, Typed
<1>18. CASE SaveManifest(e)
  BY <1>18 DEF SaveManifest, Typed
<1>19. CASE Confirm(e)
  BY <1>19 DEF Confirm, Typed
<1>20. CASE Complete(e)
  BY <1>20 DEF Complete, Typed
<1>21. CASE Remove(e)
  BY <1>21 DEF Remove, Typed
<1>22. QED
  BY <1>1, <1>2, <1>3, <1>4, <1>5, <1>6, <1>7, <1>8, <1>9, <1>10, <1>11, <1>12, <1>13, <1>14, <1>15, <1>16, <1>17, <1>18, <1>19, <1>20, <1>21 DEF Erase
-----------------------------------------------------------------------------
(* Journal and audit entries *)

LEMMA EraseCounted ==
    ASSUME OneGuarded, Typed, Owners, Counted, Certified, NEW e \in Erasers, Erase(e)
    PROVE  Counted'
<1> DEFINE Mine(d) == /\ pc[d] \in {"intend", "intended"} => ~journal /\ prepared = 0
                      /\ pc[d] \in Pending => journal
                      /\ pc[d] = "prepare" => prepared = 0
                      /\ pc[d] \in Mutating \cup {"load", "complete", "remove"} => prepared = 1
                      /\ pc[d] = "remove" => completed = 1
<1>1. \A d \in Erasers \ {e} : Mine(d)'
  <2>1. \A d \in Erasers \ {e} : pc'[d] = pc[d]
    BY EraserFrame
  <2>2. CASE pc[e] \in Working
    BY <2>1, <2>2, Alone
  <2>3. CASE pc[e] \notin Working
    <3>1. UNCHANGED <<journal, prepared, completed>>
      BY <2>3 DEF Erase, LockSession, LockManifest, UnlockManifest, UnlockSession, Throw, Execute, Resume, Check, Compare,
         Confirm, DraftIntent, DraftFile, Intend, Remove, Prepare, Complete, Load, Replace, Unlink, DraftManifest, SaveManifest
    <3>2. QED
      BY <2>1, <3>1 DEF Counted
  <2>4. QED
    BY <2>2, <2>3
<1>2. /\ prepared' \in {0, 1} /\ completed' \in {0, 1} /\ completed' <= prepared'
      /\ ~journal' => prepared' = completed'
      /\ Mine(e)'
  <2> USE DEF Typed, Counted
  <2>1. CASE LockSession(e)
    BY <2>1 DEF LockSession
  <2>2. CASE LockManifest(e)
    BY <2>2 DEF LockManifest
  <2>3. CASE UnlockManifest(e)
    BY <2>3 DEF UnlockManifest, Forget
  <2>4. CASE UnlockSession(e)
    BY <2>4 DEF UnlockSession
  <2>5. CASE Throw(e)
    BY <2>5 DEF Throw
  <2>6. CASE Execute(e)
    <3>1. ~journal /\ \A f \in Files : file[f] = "old"
      BY <2>6 DEF Execute, ConfirmInventory
    <3>2. completed = 0
      BY <3>1 DEF OneGuarded, Certified, All, Foreign
    <3>3. QED
      BY <2>6, <3>1, <3>2 DEF Execute
  <2>7. CASE Resume(e)
    BY <2>7 DEF Resume
  <2>8. CASE DraftIntent(e)
    BY <2>8 DEF DraftIntent
  <2>9. CASE Intend(e)
    BY <2>9 DEF Intend
  <2>10. CASE Check(e)
    BY <2>10 DEF Check
  <2>11. CASE Prepare(e)
    BY <2>11 DEF Prepare
  <2>12. CASE Load(e)
    BY <2>12 DEF Load
  <2>13. CASE Compare(e)
    BY <2>13 DEF Compare
  <2>14. CASE DraftFile(e)
    BY <2>14 DEF DraftFile
  <2>15. CASE Replace(e)
    BY <2>15 DEF Replace
  <2>16. CASE Unlink(e)
    BY <2>16 DEF Unlink
  <2>17. CASE DraftManifest(e)
    BY <2>17 DEF DraftManifest
  <2>18. CASE SaveManifest(e)
    BY <2>18 DEF SaveManifest
  <2>19. CASE Confirm(e)
    BY <2>19 DEF Confirm
  <2>20. CASE Complete(e)
    BY <2>20 DEF Complete
  <2>21. CASE Remove(e)
    BY <2>21 DEF Remove
  <2>22. QED
    BY <2>1, <2>2, <2>3, <2>4, <2>5, <2>6, <2>7, <2>8, <2>9, <2>10, <2>11, <2>12, <2>13, <2>14, <2>15, <2>16, <2>17, <2>18, <2>19, <2>20, <2>21 DEF Erase
<1>3. QED
  BY <1>1, <1>2 DEF Counted

LEMMA ElsewhereCounted == ASSUME Typed, Owners, Counted, Elsewhere PROVE Counted'
BY ElsewhereFrame DEF Counted

-----------------------------------------------------------------------------
(* Files *)

LEMMA EraseUntouched ==
    ASSUME Typed, Owners, Counted, Untouched, NEW e \in Erasers, Erase(e)
    PROVE  Untouched'
<1>1. CASE file' = file
  <2>1. loaded' = loaded
    BY EraserFrame
  <2>2. prepared' = 0 => prepared = 0
    BY DEF Counted, Erase, LockSession, LockManifest, UnlockManifest, UnlockSession, Throw, Execute, Resume, Check, Compare,
         Confirm, DraftIntent, DraftFile, Intend, Remove, Prepare, Complete, Load, Replace, Unlink, DraftManifest, SaveManifest
  <2>3. QED
    BY <1>1, <2>1, <2>2 DEF Untouched
<1>2. CASE pc[e] \in {"replace", "unlink"} /\ prepared' = prepared
  BY <1>2 DEF Counted, Untouched
<1>3. QED
  BY <1>1, <1>2, EraserFiles

LEMMA ElsewhereUntouched ==
    ASSUME Typed, Owners, Counted, Untouched, Elsewhere PROVE Untouched'
<1> SUFFICES ASSUME prepared' = 0
             PROVE  /\ \A f \in Files : file'[f] \in Dirty
                    /\ \A w \in Writers : loaded'[w] \in Dirty
  BY DEF Untouched
<1>1. /\ \A f \in Files : file[f] \in Dirty
      /\ \A w \in Writers : loaded[w] \in Dirty
  BY ElsewhereFrame DEF Untouched
<1>2. ASSUME NEW w \in Writers, Work(w)
      PROVE  /\ \A f \in Files : file'[f] \in Dirty
             /\ \A v \in Writers : loaded'[v] \in Dirty
  <2>1. CASE Read(w)
    BY ZenonT(60), <1>1, <2>1, ErasureAssumption DEF Read, Loads, Typed
  <2>2. CASE Rename(w)
    BY <1>1, <2>2, ErasureAssumption DEF Rename, Changed, Typed
  <2>3. CASE ~Read(w) /\ ~Rename(w)
    BY <1>1, <1>2, <2>3 DEF Work, Enter, Lock, Guard, Write, Track, Digest, Release, Forget, ClearLitter
  <2>4. QED
    BY <2>1, <2>2, <2>3
<1>3. ASSUME NEW p \in Erasers \cup Writers, Death(p)
      PROVE  /\ \A f \in Files : file'[f] \in Dirty
             /\ \A v \in Writers : loaded'[v] \in Dirty
  BY <1>1, <1>3 DEF Death, Die, Forget
<1>4. ASSUME Around
      PROVE  /\ \A f \in Files : file'[f] \in Dirty
             /\ \A v \in Writers : loaded'[v] \in Dirty
  <2>1. ASSUME NEW g \in Files, Edit(g)
        PROVE  loaded' = loaded /\ \A f \in Files : file'[f] \in Dirty
    BY <1>1, <2>1 DEF Edit, Typed, Changed
  <2>2. ASSUME NEW g \in Files, Undo(g)
        PROVE  loaded' = loaded /\ \A f \in Files : file'[f] \in Dirty
    BY <1>1, <2>2 DEF Undo, Typed
  <2>3. CASE ~(\E g \in Files : Edit(g) \/ Undo(g))
    BY <1>1, <1>4, <2>3 DEF Around, ClearLock, ClearScratch, Expire, EditBystander, Fork, Behind
  <2>4. QED
    BY <1>1, <2>1, <2>2, <2>3
<1>5. QED
  BY <1>2, <1>3, <1>4 DEF Elsewhere

(* Cleaned files stay clean.                                                 *)
LEMMA EraserCleans ==
    ASSUME Typed, Owners, NEW e \in Erasers, Erase(e), NEW f \in Files, file[f] \in Clean
    PROVE  file'[f] \in Clean
BY EraserFiles DEF Typed

LEMMA EraseCertified ==
    ASSUME Typed, Owners, Progress, Certified, NEW e \in Erasers, Erase(e)
    PROVE  Certified'
<1>1. Foreign' = Foreign
  BY EraserFrame
<1>2. ASSUME All(Clean) PROVE All(Clean)'
  BY <1>1, <1>2, EraserCleans DEF All
<1>3. CASE Complete(e)
  BY <1>2, <1>3 DEF Complete, Progress, Certified
<1>4. CASE completed' = completed
  BY <1>2, <1>4 DEF Certified
<1>5. QED
  BY <1>3, <1>4
     DEF Erase, LockSession, LockManifest, UnlockManifest, UnlockSession, Throw, Execute, Resume, Check, Compare,
         Confirm, DraftIntent, DraftFile, Intend, Remove, Prepare, Load, Replace, Unlink, DraftManifest, SaveManifest

LEMMA ElsewhereCertified ==
    ASSUME Typed, Owners, Certified, Faithful, Elsewhere PROVE Certified'
BY ElsewhereFrame, ElsewhereFiles DEF Certified, All

(* What one eraser has been through.                                         *)
Through(e) ==
    /\ pc[e] \in Mutating => \A f \in Files \ (todo[e] \cup Foreign) : file[f] \in Clean
    /\ pc[e] \in {"record", "save"} /\ Target(e) \in Files \ Foreign => file[Target(e)] \in Clean
    /\ pc[e] = "complete" => All(Clean)

LEMMA EraseProgress ==
    ASSUME Typed, Owners, Progress, NEW e \in Erasers, Erase(e) PROVE Progress'
<1>1. Foreign' = Foreign
  BY EraserFrame
<1>2. \A f \in Files : file[f] \in Clean => file'[f] \in Clean
  BY EraserCleans
<1>3. Through(e)
  BY DEF Progress, Through
<1>4. ASSUME NEW d \in Erasers, d # e PROVE Through(d)'
  <2>1. Through(d) /\ pc'[d] = pc[d] /\ todo'[d] = todo[d] /\ Target(d)' = Target(d)
    BY <1>4, EraserFrame DEF Progress, Through
  <2>2. QED
    BY <1>1, <1>2, <2>1 DEF Through, All
<1>5. Through(e)'
  <2>1. CASE Load(e)
    BY <2>1 DEF Load, Through, Typed
  <2>2. CASE Compare(e)
    <3>1. Target(e)' = Target(e)
      BY <2>2, TargetStays DEF Compare
    <3>2. QED
      BY <1>1, <1>3, <2>2, <3>1 DEF Compare, Through, Typed
  <2>3. CASE Replace(e) \/ Unlink(e)
    <3>1. /\ pc'[e] = "record" /\ todo' = todo /\ pc[e] \in Mutating
          /\ file' = [file EXCEPT ![Target(e)] = "new"]
      BY <2>3 DEF Replace, Unlink, Typed
    <3>2. Target(e)' = Target(e)
      BY <3>1, TargetStays
    <3>3. Target(e) \in Files => file'[Target(e)] = "new"
      BY <3>1 DEF Typed
    <3>4. QED
      BY <1>1, <1>2, <1>3, <3>1, <3>2, <3>3 DEF Through
  <2>4. CASE DraftFile(e)
    BY <1>1, <1>2, <1>3, <2>4 DEF DraftFile, Through, Typed
  <2>5. CASE DraftManifest(e)
    <3>1. Target(e)' = Target(e)
      BY <2>5, TargetStays DEF DraftManifest
    <3>2. QED
      BY <1>1, <1>2, <1>3, <2>5, <3>1 DEF DraftManifest, Through, Typed
  <2>6. CASE SaveManifest(e)
    <3>1. pc[e] = "save" /\ pc'[e] = "next" /\ todo'[e] = todo[e] \ {Target(e)}
      BY <2>6 DEF SaveManifest, Typed
    <3>2. \A f \in Files \ (todo'[e] \cup Foreign') : file[f] \in Clean
      BY <1>1, <1>3, <3>1 DEF Through
    <3>3. QED
      BY <1>2, <3>1, <3>2 DEF Through
  <2>7. CASE Confirm(e)
    BY <1>1, <1>2, <1>3, <2>7 DEF Confirm, Through, All, Typed
  <2>8. CASE pc'[e] \notin Mutating \cup {"complete"}
    BY <2>8 DEF Through
  <2>9. QED
    BY ZenonT(60), <2>1, <2>2, <2>3, <2>4, <2>5, <2>6, <2>7, <2>8
       DEF Typed, Erase, LockSession, LockManifest, UnlockManifest, UnlockSession, Throw, Execute, Resume, Check,
           DraftIntent, Intend, Remove, Prepare, Complete
<1>6. QED
  BY <1>4, <1>5 DEF Progress, Through

LEMMA ElsewhereProgress ==
    ASSUME Typed, Owners, Progress, Faithful, Elsewhere PROVE Progress'
<1>1. \A f \in Files \ Foreign' : file'[f] \in Clean <=> file[f] \in Clean
  BY ElsewhereFiles
<1>2. ASSUME NEW e \in Erasers PROVE Through(e)'
  <2>1. Through(e) /\ Foreign \subseteq Foreign'
    BY ElsewhereFrame DEF Progress, Through
  <2>2. CASE pc'[e] = "idle"
    BY <2>2 DEF Through
  <2>3. CASE pc'[e] = pc[e] /\ todo'[e] = todo[e]
    <3>1. Target(e)' = Target(e)
      BY <2>3, TargetStays
    <3>2. QED
      BY <1>1, <2>1, <2>3, <3>1 DEF Through, All
  <2>4. QED
    BY <2>2, <2>3, ElsewhereFrame
<1>3. QED
  BY <1>2 DEF Progress, Through

(* A writer with a lock.                                                     *)
Fresh(w) == LockOf[w] # "none" /\ pc[w] \in {"guard", "write", "rename"} /\ DocOf[w] \notin Foreign =>
              (loaded[w] \in Dirty <=> file[DocOf[w]] \in Dirty)

LEMMA EraseFaithful ==
    ASSUME Typed, Owners, Faithful, NEW e \in Erasers, Erase(e) PROVE Faithful'
<1> SUFFICES ASSUME NEW w \in Writers PROVE Fresh(w)'
  BY DEF Faithful, Fresh
<1>1. Fresh(w) /\ pc'[w] = pc[w] /\ loaded' = loaded /\ Foreign' = Foreign
  BY EraserFrame DEF Faithful, Fresh
<1>2. CASE file' = file
  BY <1>1, <1>2 DEF Fresh
<1>3. CASE pc[e] \in {"replace", "unlink"}
  <2>1. Busy(w) => LockOf[w] = "none"
    BY <1>3, Alone
  <2>2. QED
    BY <1>1, <2>1 DEF Fresh, Busy
<1>4. QED
  BY <1>2, <1>3, EraserFiles

LEMMA ElsewhereFaithful ==
    ASSUME Typed, Owners, Faithful, Elsewhere PROVE Faithful'
<1> SUFFICES ASSUME NEW w \in Writers PROVE Fresh(w)'
  BY DEF Faithful, Fresh
<1>1. DocOf[w] \in Files /\ file[DocOf[w]] \in Contents /\ loaded[w] \in Contents
  BY ErasureAssumption DEF Typed
<1>2. file'[DocOf[w]] \in Contents
  <2>1. Typed'
    BY WorkTypes, DeathTypes, AroundTypes DEF Elsewhere
  <2>2. QED
    BY <1>1, <2>1 DEF Typed
<1>3. ASSUME DocOf[w] \notin Foreign'
      PROVE  DocOf[w] \notin Foreign /\ (file'[DocOf[w]] \in Dirty <=> file[DocOf[w]] \in Dirty)
  BY <1>1, <1>2, <1>3, ElsewhereFiles, ElsewhereFrame
<1>4. CASE pc'[w] = pc[w] /\ loaded'[w] = loaded[w]
  BY <1>3, <1>4 DEF Faithful, Fresh
<1>5. CASE pc'[w] \notin {"guard", "write", "rename"}
  BY <1>5 DEF Fresh
<1>6. CASE Read(w)
  BY <1>1, <1>6 DEF Read, Loads, Fresh, Typed
<1>7. CASE Guard(w) \/ Write(w)
  BY <1>3, <1>7 DEF Guard, Write, Faithful, Fresh, Typed
<1>8. CASE \E v \in Writers : v # w /\ Work(v)
  BY <1>4, <1>8 DEF Typed, Work, Enter, Lock, Read, Loads, Guard, Write, Rename, Track, Digest, Release, Forget, ClearLitter
<1>9. CASE Enter(w) \/ Lock(w) \/ Rename(w) \/ Track(w) \/ Digest(w) \/ Release(w) \/ ClearLitter(w)
  BY <1>5, <1>9 DEF Typed, Enter, Lock, Rename, Track, Digest, Release, ClearLitter, Ended
<1>10. ASSUME NEW p \in Erasers \cup Writers, Death(p) PROVE Fresh(w)'
  <2>1. CASE p = w
    BY <1>5, <1>10, <2>1, ErasureAssumption DEF Typed, Death, Die, Ended
  <2>2. CASE p # w
    BY <1>4, <1>10, <2>2 DEF Typed, Death, Die, Forget
  <2>3. QED
    BY <2>1, <2>2
<1>11. CASE Around
  BY <1>4, <1>11 DEF Around, ClearLock, ClearScratch, Edit, Undo, Expire, EditBystander, Fork, Behind
<1>12. QED
  BY <1>6, <1>7, <1>8, <1>9, <1>10, <1>11 DEF Elsewhere, Work
-----------------------------------------------------------------------------
(* What a prepared erasure finds *)

LEMMA ExecuteIntact ==
    ASSUME Typed, Owners, Counted, NEW e \in Erasers, Execute(e) PROVE Intact'
<1>1. /\ ~journal /\ pc[e] = "begin" /\ pc'[e] = "intend"
      /\ \A q \in (Erasers \cup Writers) \ {e} : pc'[q] = pc[q]
      /\ file' = file /\ entry' = entry
  BY DEF Execute, Typed
<1>2. /\ \A f \in Files : file[f] = "old"
      /\ \A f \in Tracked : entry[f] = "old"
  BY ErasureAssumption DEF Execute, ConfirmInventory
<1>3. \A w \in Writers : LockOf[w] # "none" => pc'[w] \notin {"guard", "write", "rename", "track"}
  BY <1>1, Alone, ErasureAssumption DEF Busy
<1>4. \A d \in Erasers : pc'[d] \notin Mutating
  BY <1>1 DEF Counted
<1>5. QED
  BY <1>1, <1>2, <1>3, <1>4 DEF Intact, Carried, Left

LEMMA EraseStarted ==
    ASSUME Typed, Owners, NEW e \in Erasers, Erase(e), ~Execute(e), Started' PROVE Started
<1>1. \A d \in Erasers \ {e} : pc'[d] = pc[d]
  BY EraserFrame
<1>2. journal' => journal \/ pc[e] = "intended"
  BY DEF Erase, LockSession, LockManifest, UnlockManifest, UnlockSession, Throw, Resume, Check, Compare,
         Confirm, DraftIntent, DraftFile, Intend, Remove, Prepare, Complete, Load, Replace, Unlink, DraftManifest, SaveManifest
<1>3. pc'[e] = "intend" => FALSE
  BY DEF Typed, Erase, LockSession, LockManifest, UnlockManifest, UnlockSession, Throw, Resume, Check, Compare,
         Confirm, DraftIntent, DraftFile, Intend, Remove, Prepare, Complete, Load, Replace, Unlink, DraftManifest, SaveManifest
<1>4. pc'[e] = "intended" => pc[e] = "intend"
  BY DEF Typed, Erase, LockSession, LockManifest, UnlockManifest, UnlockSession, Throw, Resume, Check, Compare,
         Confirm, DraftIntent, DraftFile, Intend, Remove, Prepare, Complete, Load, Replace, Unlink, DraftManifest, SaveManifest
<1>5. QED
  BY <1>1, <1>2, <1>3, <1>4 DEF Started

LEMMA EraseIntact ==
    ASSUME Typed, Owners, Intact, NEW e \in Erasers, Erase(e) PROVE Intact'
<1>1. \A w \in Writers : LockOf[w] # "none" => pc'[w] \notin {"guard", "write", "rename", "track"}
  BY EraserFrame DEF Intact
<1>2. \A f \in Files : file[f] \in {"old", "new"} /\ file'[f] \in {file[f], "new"}
  BY EraserFiles DEF Intact, Typed
<1>3. \A recorded, f : f \in Files /\ Left(recorded, f) => Left(recorded, f)'
  BY <1>2 DEF Left
<1>4. ASSUME NEW d \in Erasers, d # e PROVE Carried(d)'
  <2>1. /\ Carried(d) /\ pc'[d] = pc[d] /\ tracked'[d] = tracked[d] /\ Target(d)' = Target(d)
    BY <1>4, EraserFrame DEF Intact
  <2>2. QED
    BY <1>2, <2>1, ErasureAssumption DEF Carried, Left
<1>5. Carried(e)' /\ \A f \in Tracked : entry'[f] = "old" \/ (entry'[f] = "new" /\ file'[f] = "new")
  <2>1. Carried(e) /\ \A f \in Tracked : f \in Files /\ (entry[f] = "old" \/ (entry[f] = "new" /\ file[f] = "new"))
    BY ErasureAssumption DEF Intact, Left
  <2>2. CASE Load(e)
    BY <2>1, <2>2 DEF Load, Carried, Left, Typed
  <2>3. CASE Compare(e)
    <3>1. Target(e)' = Target(e)
      BY <2>3, TargetStays DEF Compare
    <3>2. QED
      BY <2>1, <2>3, <3>1 DEF Compare, Carried, Left, Typed
  <2>4. CASE Replace(e) \/ Unlink(e)
    <3>1. /\ pc'[e] = "record" /\ todo' = todo /\ tracked' = tracked /\ entry' = entry /\ pc[e] \in Mutating
          /\ file' = [file EXCEPT ![Target(e)] = "new"]
      BY <2>4 DEF Replace, Unlink, Typed
    <3>2. Target(e)' = Target(e)
      BY <3>1, TargetStays
    <3>3. Target(e) \in Files => file'[Target(e)] = "new"
      BY <3>1 DEF Typed
    <3>4. QED
      BY <1>2, <2>1, <3>1, <3>2, <3>3 DEF Carried, Left
  <2>5. CASE DraftFile(e)
    BY <2>1, <2>5 DEF DraftFile, Carried, Left, Typed
  <2>6. CASE DraftManifest(e)
    <3>1. Target(e)' = Target(e)
      BY <2>6, TargetStays DEF DraftManifest
    <3>2. /\ pc[e] = "record" /\ pc'[e] = "save" /\ file' = file /\ entry' = entry
          /\ \A f \in Tracked : tracked'[e][f] = IF f = Target(e) THEN "new" ELSE tracked[e][f]
      BY <2>6 DEF DraftManifest, Typed
    <3>3. QED
      BY <2>1, <3>1, <3>2 DEF Carried, Left
  <2>7. CASE SaveManifest(e)
    <3>1. /\ pc[e] = "save" /\ pc'[e] = "next" /\ file' = file /\ entry' = tracked[e] /\ tracked' = tracked
      BY <2>7 DEF SaveManifest, Typed
    <3>2. QED
      BY <2>1, <3>1 DEF Carried, Left
  <2>8. CASE pc'[e] \notin Mutating /\ file' = file /\ entry' = entry
    BY <2>1, <2>8 DEF Carried
  <2>9. QED
    BY ZenonT(60), <2>2, <2>3, <2>4, <2>5, <2>6, <2>7, <2>8
       DEF Typed, Erase, LockSession, LockManifest, UnlockManifest, UnlockSession, Throw, Execute, Resume, Check,
           DraftIntent, Intend, Remove, Prepare, Confirm, Complete
<1>6. QED
  BY <1>1, <1>2, <1>4, <1>5 DEF Intact, Left

LEMMA EraseKept ==
    ASSUME Typed, Owners, Counted, Kept, NEW e \in Erasers, Erase(e) PROVE Kept'
<1>1. UNCHANGED <<edits, chain, bystander, Foreign>>
  BY EraserFrame
<1>2. CASE Execute(e)
  BY <1>1, <1>2, ExecuteIntact DEF Kept
<1>3. CASE ~Execute(e)
  BY <1>1, <1>3, EraseStarted, EraseIntact DEF Kept
<1>4. QED
  BY <1>2, <1>3

LEMMA WorkIntact ==
    ASSUME Typed, Owners, Counted, Intact, Started, Foreign' = {}, NEW w \in Writers, Work(w)
    PROVE  Intact'
<1>1. \A e \in Erasers : pc'[e] = pc[e] /\ todo'[e] = todo[e] /\ tracked'[e] = tracked[e]
  <2>1. \A e \in Erasers : pc'[e] = pc[e]
    BY ErasureAssumption
       DEF Typed, Work, Enter, Lock, Read, Loads, Guard, Write, Rename, Track, Digest, Release, ClearLitter
  <2>2. CASE Release(w)
    BY <2>1, <2>2, ErasureAssumption DEF Release, Forget
  <2>3. CASE ~Release(w)
    BY <2>1, <2>3 DEF Work, Enter, Lock, Read, Loads, Guard, Write, Rename, Track, Digest, ClearLitter
  <2>4. QED
    BY <2>2, <2>3
<1>2. /\ \A q \in Writers \ {w} : pc'[q] = pc[q]
      /\ pc[w] \in {"guard", "write", "rename", "track"} => LockOf[w] = "none"
  BY DEF Intact, Typed, Work, Enter, Lock, Read, Loads, Guard, Write, Rename, Track, Digest, Release, ClearLitter
<1>3. file' = file
  <2>1. CASE Rename(w)
    <3>1. LockOf[w] = "none" /\ pc'[w] = "release"
      BY <1>2, <2>1 DEF Rename, Typed
    <3>2. DocOf[w] \in Foreign'
      BY <3>1, ErasureAssumption DEF Foreign
    <3>3. QED
      BY <3>2
  <2>2. CASE ~Rename(w)
    BY <2>2 DEF Work, Enter, Lock, Read, Loads, Guard, Write, Track, Digest, Release, ClearLitter
  <2>3. QED
    BY <2>1, <2>2
<1>4. entry' = entry
  BY <1>2 DEF Work, Enter, Lock, Read, Loads, Guard, Write, Rename, Track, Digest, Release, ClearLitter, Owners, WriterLocks
<1>5. LockOf[w] # "none" => pc'[w] \notin {"guard", "write", "rename", "track"}
  <2>1. CASE Read(w)
    <3>1. ~journal /\ pc[w] = "read"
      BY <2>1 DEF Read, Loads
    <3>2. PICK e \in Erasers : pc[e] \in {"intend", "intended"}
      BY <3>1 DEF Started
    <3>3. LockOf[w] = "none"
      BY <3>1, <3>2, Alone DEF Busy
    <3>4. QED
      BY <3>3
  <2>2. CASE ~Read(w)
    BY <1>2, <2>2 DEF Work, Enter, Lock, Guard, Write, Rename, Track, Digest, Release, ClearLitter, Ended, Typed
  <2>3. QED
    BY <2>1, <2>2
<1>6. ASSUME NEW e \in Erasers PROVE Carried(e)'
  <2>1. Carried(e) /\ Target(e)' = Target(e)
    BY <1>1, TargetStays DEF Intact
  <2>2. QED
    BY <1>1, <1>3, <2>1 DEF Carried, Left
<1>7. QED
  BY <1>2, <1>3, <1>4, <1>5, <1>6 DEF Intact, Left

LEMMA DeathIntact ==
    ASSUME Typed, Intact, NEW p \in Erasers \cup Writers, Death(p) PROVE Intact'
<1>1. /\ UNCHANGED <<file, entry>>
      /\ \A q \in Erasers \cup Writers : pc'[q] = pc[q] \/ pc'[q] \in {"idle", "done", "failed"}
      /\ \A e \in Erasers \ {p} : todo'[e] = todo[e] /\ tracked'[e] = tracked[e]
      /\ pc'[p] \in {"idle", "done", "failed"}
  BY DEF Death, Die, Ended, Typed, Forget
<1>2. ASSUME NEW e \in Erasers PROVE Carried(e)'
  <2>1. CASE e = p
    BY <1>1, <2>1 DEF Carried
  <2>2. CASE e # p
    <3>1. Carried(e) /\ Target(e)' = Target(e)
      BY <1>1, <2>2, TargetStays DEF Intact
    <3>2. QED
      BY <1>1, <2>2, <3>1 DEF Carried, Left
  <2>3. QED
    BY <2>1, <2>2
<1>3. QED
  BY <1>1, <1>2 DEF Intact, Left

LEMMA AroundIntact ==
    ASSUME Typed, Intact, Around, edits' = 0 PROVE UNCHANGED <<file, entry, bystander, chain, todo, tracked, pc>>
BY DEF Around, ClearLock, ClearScratch, Edit, Undo, Expire, EditBystander, Fork, Behind, Typed, Intact

LEMMA ElsewhereKept ==
    ASSUME Typed, Owners, Counted, Kept, Elsewhere PROVE Kept'
<1>1. /\ Foreign' = {} => Foreign = {}
      /\ Started' => Started
  BY ElsewhereFrame DEF Started
<1>2. edits' = 0 => edits = 0 /\ UNCHANGED <<chain, bystander>>
  BY DEF Elsewhere, Work, Enter, Lock, Read, Loads, Guard, Write, Rename, Track, Digest, Release, Forget, ClearLitter, Death, Die,
         Around, ClearLock, ClearScratch, Edit, Undo, Expire, EditBystander, Fork, Behind, Typed
<1>3. ASSUME edits' = 0, Started', Foreign' = {} PROVE Intact'
  <2>1. Intact /\ Started
    BY <1>1, <1>2, <1>3 DEF Kept
  <2>2. ASSUME Around PROVE Intact'
    <3>1. UNCHANGED <<file, entry, todo, tracked, pc>>
      BY <1>3, <2>1, <2>2, AroundIntact
    <3>2. QED
      BY <2>1, <3>1 DEF Intact, Carried, Left, Target
  <2>3. QED
    BY <1>3, <2>1, <2>2, WorkIntact, DeathIntact DEF Elsewhere
<1>4. QED
  BY <1>2, <1>3 DEF Kept
-----------------------------------------------------------------------------
(* The theorems *)

LEMMA InitInv == Init => IInv
<1> SUFFICES ASSUME Init PROVE IInv
  OBVIOUS
<1> USE ErasureAssumption DEF Init
<1>1. Typed
  BY DEF Typed
<1>2. Owners
  BY DEF Owners, EraserLocks, WriterLocks, Busy
<1>3. Counted /\ Untouched /\ Progress /\ Certified /\ Faithful
  BY DEF Counted, Untouched, Progress, Certified, Faithful, All
<1>4. Kept
  BY DEF Kept, Started
<1>5. QED
  BY <1>1, <1>2, <1>3, <1>4 DEF IInv, Facts

LEMMA StepInv == ASSUME OneGuarded, IInv, [Next]_vars PROVE IInv'
<1> USE DEF IInv, Facts
<1>1. ASSUME NEW e \in Erasers, Erase(e) PROVE IInv'
  <2>1. Typed' /\ Owners'
    BY <1>1, EraseTypes, EraseOwners
  <2>2. Counted' /\ Untouched' /\ Progress'
    BY <1>1, EraseCounted, EraseUntouched, EraseProgress
  <2>3. Certified' /\ Faithful' /\ Kept'
    BY <1>1, EraseCertified, EraseFaithful, EraseKept
  <2>4. QED
    BY <2>1, <2>2, <2>3
<1>2. ASSUME Elsewhere PROVE IInv'
  <2>1. Typed' /\ Owners'
    BY <1>2, WorkTypes, DeathTypes, AroundTypes, WorkOwners, DeathOwners, AroundOwners DEF Elsewhere
  <2>2. Counted' /\ Untouched' /\ Progress'
    BY <1>2, ElsewhereCounted, ElsewhereUntouched, ElsewhereProgress
  <2>3. Certified' /\ Faithful' /\ Kept'
    BY <1>2, ElsewhereCertified, ElsewhereFaithful, ElsewhereKept
  <2>4. QED
    BY <2>1, <2>2, <2>3
<1>3. CASE UNCHANGED vars
  BY <1>3 DEF vars, Typed, Owners, EraserLocks, WriterLocks, Busy, Counted, Untouched, Progress, Certified, Faithful,
              Kept, Started, Intact, Carried, Left, All, Foreign, Target
<1>4. Next => (\E e \in Erasers : Erase(e)) \/ Elsewhere
  BY DEF Next, Elsewhere, Work, Death, Around
<1>5. QED
  BY <1>1, <1>2, <1>3, <1>4

(* The locks exclude and the facts above hold, whatever dies where.          *)
THEOREM Invariance == ASSUME OneGuarded PROVE Spec => []IInv
<1>1. IInv /\ [Next]_vars => IInv'
  BY StepInv
<1>2. QED
  BY <1>1, InitInv, PTL DEF Spec

(* AuditTellsTruth: authority before the first erasure, one completion, and  *)
(* after it no guarded file with the subject's data.                         *)
THEOREM AuditHonest == ASSUME OneGuarded PROVE Spec => []AuditTellsTruth
<1>1. IInv => AuditTellsTruth
  BY DEF IInv, Facts, Typed, Counted, Untouched, Certified, All, AuditTellsTruth
<1>2. QED
  BY <1>1, Invariance, PTL

(* Resumable: an erasure that died after its prepared entry finds what       *)
(* finishJournal accepts.                                                    *)
THEOREM CanResume == ASSUME OneGuarded PROVE Spec => []Resumable
<1>1. IInv => Resumable
  BY DEF IInv, Facts, Kept, Started, Intact, Left, Resumable, Authorized, ConfirmInventory
<1>2. QED
  BY <1>1, Invariance, PTL

(* Before and after: what the journal and the audit entries say of the files.*)
Expected == IF journal THEN "pending" ELSE IF prepared = 0 THEN "before" ELSE "after"

Explained == Phase = Expected

LEMMA PhaseExplained == ASSUME OneGuarded, IInv PROVE Explained
<1> USE DEF IInv, Facts
<1>1. prepared = 0 => All(Dirty)
  BY DEF Untouched, All
<1>2. ~journal /\ prepared # 0 => All(Clean)
  BY DEF Counted, Certified
<1>3. ~(All(Dirty) /\ All(Clean))
  BY DEF OneGuarded, Foreign, All
<1>4. QED
  BY <1>1, <1>2, <1>3 DEF Explained, Phase, Expected

(* Readers that respect the journal see the erasure whole or not at all.     *)
THEOREM ErasureImplementsTransition == ASSUME OneGuarded PROVE Spec => ImplementsTransition
<1>1. Init => T!Init
  BY DEF Init, T!Init, Phase, All
<1>2. IInv /\ IInv' /\ Explained /\ Explained' /\ [Next]_vars => [T!Next]_Phase
  <2> SUFFICES ASSUME IInv, IInv', Explained, Explained', [Next]_vars PROVE [T!Next]_Phase
    OBVIOUS
  <2> USE DEF IInv, Facts
  <2>1. Phase = Expected /\ Phase' = Expected'
    BY DEF Explained
  <2>2. CASE UNCHANGED <<journal, prepared>>
    BY <2>1, <2>2 DEF Expected
  <2>3. ASSUME NEW e \in Erasers, Intend(e) PROVE [T!Next]_Phase
    <3>1. ~journal /\ prepared = 0 /\ journal'
      BY <2>3 DEF Intend, Counted
    <3>2. QED
      BY <2>1, <3>1 DEF Expected, T!Next, T!Intend
  <2>4. ASSUME NEW e \in Erasers, Prepare(e) PROVE [T!Next]_Phase
    <3>1. journal /\ journal'
      BY <2>4 DEF Prepare, Counted
    <3>2. QED
      BY <2>1, <3>1 DEF Expected
  <2>5. ASSUME NEW e \in Erasers, Remove(e) PROVE [T!Next]_Phase
    <3>1. journal /\ ~journal' /\ prepared' # 0
      BY <2>5 DEF Remove, Counted
    <3>2. QED
      BY <2>1, <3>1 DEF Expected, T!Next, T!Complete
  <2>6. ASSUME NEW e \in Erasers, Erase(e), ~Intend(e), ~Prepare(e), ~Remove(e) PROVE UNCHANGED <<journal, prepared>>
    BY <2>6 DEF Erase, LockSession, LockManifest, UnlockManifest, UnlockSession, Throw, Execute, Resume, Check, Compare,
         Confirm, DraftIntent, DraftFile, Complete, Load, Replace, Unlink, DraftManifest, SaveManifest
  <2>7. Elsewhere \/ UNCHANGED vars => UNCHANGED <<journal, prepared>>
    BY ElsewhereFrame DEF vars
  <2>8. Next => (\E e \in Erasers : Erase(e)) \/ Elsewhere
    BY DEF Next, Elsewhere, Work, Death, Around
  <2>9. QED
    BY <2>2, <2>3, <2>4, <2>5, <2>6, <2>7, <2>8
<1>3. IInv => Explained
  BY PhaseExplained
<1>4. QED
  BY <1>1, <1>2, <1>3, Invariance, PTL DEF Spec, ImplementsTransition, T!Spec
=============================================================================
