------------------------------- MODULE Erasure -------------------------------
(***************************************************************************)
(* kernel/reducer/erasure.ts: one signed erasure of a subject's evidence   *)
(* from the files of a workspace, one durable step at a time, beside the   *)
(* writers of those files.  Erasers execute the request or resume its      *)
(* journal, under the session and the manifest lock.  Writers hold one of  *)
(* the locks (a reducer, a session) or none (the verification CLI).  The   *)
(* founder's receipt binds one preview: every file "old", and no others.   *)
(***************************************************************************)
EXTENDS Naturals

CONSTANTS Erasers, Writers,
          LockOf,          \* of a writer: "session", "manifest" or "none"
          DocOf,           \* the file it rewrites
          Files,           \* files the preview mutates
          Deleted,         \* those it deletes
          Tracked,         \* those the manifest records
          Rank,            \* the order of the mutations
          Intent, Manifest,\* the journal and the manifest, by their scratch files
          Free, Wedged,    \* lock: absent; left by a dead owner
          MaxEdits         \* bound on what happens behind the reducer's back

Locks == {"session", "manifest"}

ASSUME ErasureAssumption ==
    /\ LockOf \in [Writers -> Locks \cup {"none"}] /\ DocOf \in [Writers -> Files]
    /\ Deleted \subseteq Files /\ Tracked \subseteq Files
    /\ \A w \in Writers : (LockOf[w] = "manifest") = (DocOf[w] \in Tracked)
    /\ \A w, v \in Writers : DocOf[w] = DocOf[v] => "none" \in {LockOf[w], LockOf[v]} \/ LockOf[w] = LockOf[v]
    /\ Rank \in [Files -> Nat] /\ \A f, g \in Files : Rank[f] = Rank[g] => f = g
    /\ Erasers \cap Writers = {} /\ {Free, Wedged} \cap (Erasers \cup Writers) = {} /\ Free # Wedged
    /\ {Intent, Manifest} \cap Files = {} /\ Intent # Manifest
    /\ MaxEdits \in Nat

VARIABLES file,        \* content: with the subject's data ("old", "edited") or without
          entry,       \* content the manifest records (no entry: "new")
          bystander,   \* whether the files the preview leaves alone are as it found them
          chain,       \* whether the audit chain verifies
          prepared, completed,  \* audit entries of this erasure
          journal,     \* control/erasure-intent.json
          scratch,     \* .erasure-next files
          litter,      \* writers of which a file unknown to the preview is there
          expired,     \* the receipt
          lock, pc,
          tracked,     \* an eraser's copy of the manifest
          todo,        \* mutations it has not been through
          loaded,      \* what a writer read
          edits

workspace == <<file, entry, bystander, chain, prepared, completed, journal, scratch>>
locals == <<tracked, todo, loaded>>
vars == <<workspace, litter, expired, lock, pc, locals, edits>>

Dirty == {"old", "edited"}
Clean == {"new", "renewed"}

\* A deleted file that is there again is "renewed".
Changed(content) == IF content \in Dirty THEN "edited" ELSE "renewed"

Init == /\ file = [f \in Files |-> "old"] /\ entry = [f \in Tracked |-> "old"]
        /\ bystander = TRUE /\ chain = TRUE /\ prepared = 0 /\ completed = 0
        /\ journal = FALSE /\ scratch = {} /\ litter = {} /\ expired = FALSE
        /\ lock = [l \in Locks |-> Free]
        /\ pc = [p \in Erasers \cup Writers |-> "idle"]
        /\ tracked = [e \in Erasers |-> entry] /\ todo = [e \in Erasers |-> {}]
        /\ loaded = [w \in Writers |-> "old"]
        /\ edits = 0

Goto(p, label) == pc' = [pc EXCEPT ![p] = label]

Step(p, from, to) == pc[p] = from /\ Goto(p, to)

\* What a process knew goes with it.
Forget(p) ==
    /\ tracked' = [e \in Erasers |-> IF e = p THEN [f \in Tracked |-> "old"] ELSE tracked[e]]
    /\ todo' = [e \in Erasers |-> IF e = p THEN {} ELSE todo[e]]
    /\ loaded' = [w \in Writers |-> IF w = p THEN "old" ELSE loaded[w]]
-----------------------------------------------------------------------------
(* withErasureLock: nobody waits, nobody breaks a stale lock *)

LockSession(e) ==
    /\ lock["session"] = Free
    /\ Step(e, "idle", "lock")
    /\ lock' = [lock EXCEPT !["session"] = e]
    /\ UNCHANGED <<workspace, litter, expired, locals, edits>>

LockManifest(e) ==
    /\ \/ /\ lock["manifest"] = Free
          /\ Step(e, "lock", "begin")
          /\ lock' = [lock EXCEPT !["manifest"] = e]
       \/ /\ lock["manifest"] # Free
          /\ Step(e, "lock", "idle")
          /\ lock' = [lock EXCEPT !["session"] = Free]
    /\ UNCHANGED <<workspace, litter, expired, locals, edits>>

UnlockManifest(e) ==
    /\ Step(e, "unlock", "unlockSession")
    /\ lock' = [lock EXCEPT !["manifest"] = Free]
    /\ Forget(e)
    /\ UNCHANGED <<workspace, litter, expired, edits>>

UnlockSession(e) ==
    /\ Step(e, "unlockSession", "idle")
    /\ lock' = [lock EXCEPT !["session"] = Free]
    /\ UNCHANGED <<workspace, litter, expired, locals, edits>>

Working == {"begin", "intend", "intended", "check", "prepare", "load", "next", "draft", "replace",
            "unlink", "record", "save", "complete", "remove"}

\* The finally clause tidies up the journal as well.
ThrowTidying(e) ==
    /\ pc[e] \in Working /\ Goto(e, "unlock") /\ journal' = FALSE
    /\ UNCHANGED <<file, entry, bystander, chain, prepared, completed, scratch, litter, expired, lock, locals, edits>>

\* A check that fails, or a call that does: the locks are given back, the rest stays.
Throw(e) == /\ pc[e] \in Working /\ Goto(e, "unlock")
            /\ UNCHANGED <<workspace, litter, expired, lock, locals, edits>>
-----------------------------------------------------------------------------
(* executeEvidenceErasure, resumeEvidenceErasure *)

\* An unknown file is one too many: a scratch file, and whatever a writer leaves.
ConfirmInventory(resuming) ==
    /\ bystander /\ scratch = {} /\ litter = {}
    /\ \A f \in Files : file[f] = "old" \/ (resuming /\ file[f] = "new")

Authorized(allowExpired) == allowExpired \/ ~expired

\* The preview is the one the receipt binds, and the manifest agrees with the disk.
Execute(e) ==
    /\ Step(e, "begin", "intend")
    /\ ~journal /\ chain /\ Authorized(FALSE) /\ ConfirmInventory(FALSE)
    /\ \A f \in Tracked : entry[f] = file[f]
    /\ UNCHANGED <<workspace, litter, expired, lock, locals, edits>>

Resume(e) ==
    /\ Step(e, "begin", "check") /\ journal
    /\ UNCHANGED <<workspace, litter, expired, lock, locals, edits>>

\* atomic: an exclusive create of the scratch file, then its rename.
Draft(s) == s \notin scratch /\ scratch' = scratch \cup {s}

DraftIntent(e) ==
    /\ Step(e, "intend", "intended") /\ Draft(Intent)
    /\ UNCHANGED <<file, entry, bystander, chain, prepared, completed, journal, litter, expired, lock, locals, edits>>

Intend(e) ==
    /\ Step(e, "intended", "check")
    /\ journal' = TRUE /\ scratch' = scratch \ {Intent}
    /\ UNCHANGED <<file, entry, bystander, chain, prepared, completed, litter, expired, lock, locals, edits>>
-----------------------------------------------------------------------------
(* finishJournal *)

\* Mutates first and lets the completion entry say so.
CheckUnprepared(e) ==
    /\ Step(e, "check", "load")
    /\ chain /\ Authorized(prepared > 0) /\ ConfirmInventory(prepared > 0)
    /\ UNCHANGED <<workspace, litter, expired, lock, locals, edits>>

\* An expired receipt is good enough for what was prepared in time.
Check(e) ==
    /\ Step(e, "check", IF prepared > 0 THEN "load" ELSE "prepare")
    /\ chain /\ Authorized(prepared > 0) /\ ConfirmInventory(prepared > 0)
    /\ UNCHANGED <<workspace, litter, expired, lock, locals, edits>>

Prepare(e) ==
    /\ Step(e, "prepare", "load")
    /\ prepared' = prepared + 1
    /\ UNCHANGED <<file, entry, bystander, chain, completed, journal, scratch, litter, expired, lock, locals, edits>>

Load(e) ==
    /\ Step(e, "load", "next")
    /\ tracked' = [tracked EXCEPT ![e] = entry]
    /\ todo' = [todo EXCEPT ![e] = Files]
    /\ UNCHANGED <<workspace, litter, expired, lock, loaded, edits>>

Target(e) == CHOOSE f \in todo[e] : \A g \in todo[e] : Rank[f] <= Rank[g]

\* The target and its manifest entry are as they were or as they shall be.
Compare(e) ==
    LET f == Target(e)
    IN  /\ todo[e] # {} /\ file[f] \in {"old", "new"}
        /\ f \in Tracked => tracked[e][f] \in {"old", "new"}
        /\ Step(e, "next", IF file[f] = "new" THEN "record" ELSE IF f \in Deleted THEN "unlink" ELSE "draft")
        /\ UNCHANGED <<workspace, litter, expired, lock, locals, edits>>

DraftFile(e) ==
    /\ Step(e, "draft", "replace") /\ Draft(Target(e))
    /\ UNCHANGED <<file, entry, bystander, chain, prepared, completed, journal, litter, expired, lock, locals, edits>>

Replace(e) ==
    /\ Step(e, "replace", "record")
    /\ file' = [file EXCEPT ![Target(e)] = "new"]
    /\ scratch' = scratch \ {Target(e)}
    /\ UNCHANGED <<entry, bystander, chain, prepared, completed, journal, litter, expired, lock, locals, edits>>

Unlink(e) ==
    /\ Step(e, "unlink", "record")
    /\ file' = [file EXCEPT ![Target(e)] = "new"]
    /\ UNCHANGED <<entry, bystander, chain, prepared, completed, journal, scratch, litter, expired, lock, locals, edits>>

DraftManifest(e) ==
    /\ Step(e, "record", "save") /\ Draft(Manifest)
    /\ tracked' = [tracked EXCEPT ![e] = [f \in Tracked |-> IF f = Target(e) THEN "new" ELSE @[f]]]
    /\ UNCHANGED <<file, entry, bystander, chain, prepared, completed, journal, litter, expired, lock, todo, loaded, edits>>

SaveManifest(e) ==
    /\ Step(e, "save", "next")
    /\ entry' = tracked[e] /\ scratch' = scratch \ {Manifest}
    /\ todo' = [todo EXCEPT ![e] = @ \ {Target(e)}]
    /\ UNCHANGED <<file, bystander, chain, prepared, completed, journal, litter, expired, lock, tracked, loaded, edits>>

Confirm(e) ==
    /\ todo[e] = {} /\ ConfirmInventory(TRUE)
    /\ Step(e, "next", "complete")
    /\ UNCHANGED <<workspace, litter, expired, lock, locals, edits>>

\* Written once, whoever resumes after it.
Complete(e) ==
    /\ Step(e, "complete", "remove")
    /\ completed' = IF completed > 0 THEN completed ELSE completed + 1
    /\ UNCHANGED <<file, entry, bystander, chain, prepared, journal, scratch, litter, expired, lock, locals, edits>>

Remove(e) ==
    /\ Step(e, "remove", "unlock")
    /\ journal' = FALSE
    /\ UNCHANGED <<file, entry, bystander, chain, prepared, completed, scratch, litter, expired, lock, locals, edits>>

Erase(e) == \/ LockSession(e) \/ LockManifest(e) \/ UnlockManifest(e) \/ UnlockSession(e) \/ Throw(e)
            \/ Execute(e) \/ Resume(e) \/ DraftIntent(e) \/ Intend(e) \/ Check(e) \/ Prepare(e) \/ Load(e)
            \/ Compare(e) \/ DraftFile(e) \/ Replace(e) \/ Unlink(e) \/ DraftManifest(e) \/ SaveManifest(e)
            \/ Confirm(e) \/ Complete(e) \/ Remove(e)
-----------------------------------------------------------------------------
(* The writers: assertNoPendingErasure where they read, and where they write *)

\* A session asks for the journal before it asks for the lock.
Enter(w) ==
    /\ LockOf[w] = "session" /\ ~journal
    /\ Step(w, "idle", "start")
    /\ UNCHANGED <<workspace, litter, expired, lock, locals, edits>>

Lock(w) ==
    /\ Step(w, IF LockOf[w] = "session" THEN "start" ELSE "idle", "read")
    /\ IF LockOf[w] = "none" THEN UNCHANGED lock
       ELSE lock[LockOf[w]] = Free /\ lock' = [lock EXCEPT ![LockOf[w]] = w]
    /\ UNCHANGED <<workspace, litter, expired, locals, edits>>

Present(f) == f \notin Deleted \/ file[f] # "new"

\* What a reader loads; the reducer compares it with the manifest, and keeps a
\* lock on the document beside the manifest's.
Loads(w) ==
    /\ Present(DocOf[w])
    /\ DocOf[w] \in Tracked => entry[DocOf[w]] = file[DocOf[w]]
    /\ Step(w, "read", IF LockOf[w] = "manifest" THEN "write" ELSE "guard")
    /\ loaded' = [loaded EXCEPT ![w] = file[DocOf[w]]]
    /\ litter' = IF LockOf[w] = "manifest" THEN litter \cup {w} ELSE litter
    /\ UNCHANGED <<workspace, expired, lock, tracked, todo, edits>>

ReadUnguarded(w) == Loads(w)                         \* mutant: whatever is pending
Read(w) == ~journal /\ Loads(w)

\* writeAtomic of the run state asks again.
Guard(w) ==
    /\ ~journal
    /\ Step(w, "guard", "write")
    /\ UNCHANGED <<workspace, litter, expired, lock, locals, edits>>

\* The temporary of an atomic write.
Write(w) ==
    /\ Step(w, "write", "rename")
    /\ litter' = litter \cup {w}
    /\ UNCHANGED <<workspace, expired, lock, locals, edits>>

Rename(w) ==
    /\ Step(w, "rename", CASE LockOf[w] = "manifest" -> "track"
                           [] LockOf[w] = "session" -> "digest" [] OTHER -> "release")
    /\ file' = [file EXCEPT ![DocOf[w]] = Changed(loaded[w])]
    /\ litter' = IF LockOf[w] = "manifest" THEN litter ELSE litter \ {w}
    /\ UNCHANGED <<entry, bystander, chain, prepared, completed, journal, scratch, expired, lock, locals, edits>>

Track(w) ==
    /\ Step(w, "track", "release")
    /\ entry' = [entry EXCEPT ![DocOf[w]] = Changed(loaded[w])]
    /\ UNCHANGED <<file, bystander, chain, prepared, completed, journal, scratch, litter, expired, lock,
                   locals, edits>>

\* A session ends with a digest, also one that was refused the lock or the run
\* state; no guard and no lock stands before that file.
Digest(w) ==
    /\ LockOf[w] = "session" /\ pc[w] \in {"start", "read", "guard", "write", "rename", "digest"}
    /\ Goto(w, "release")
    /\ litter' = litter \cup {w}
    /\ UNCHANGED <<workspace, expired, lock, locals, edits>>

\* From its draft on, a writer without a lock may have written.
Ended(w) == IF LockOf[w] # "none" \/ pc[w] \in {"rename", "release"} THEN "done" ELSE "failed"

\* At the end of its work, or where it was refused or failed.  A write that
\* fails leaves its temporary; the reducer takes its document's lock away.
Release(w) ==
    /\ pc[w] = "release" \/ (LockOf[w] # "session" /\ pc[w] \in {"read", "guard", "write", "rename", "track"})
    /\ Goto(w, Ended(w))
    /\ lock' = [l \in Locks |-> IF lock[l] = w THEN Free ELSE lock[l]]
    /\ \/ LockOf[w] = "manifest" /\ pc[w] # "rename" /\ litter' = litter \ {w}
       \/ (LockOf[w] = "manifest" => pc[w] \in {"rename", "track"}) /\ UNCHANGED litter
    /\ Forget(w)
    /\ UNCHANGED <<workspace, expired, edits>>
-----------------------------------------------------------------------------
(* The environment *)

\* The locks of a dead process stay until the operator deletes them.
Die(p, after) ==
    /\ pc[p] \notin {"idle", "done", "failed"} /\ Goto(p, after)
    /\ lock' = [l \in Locks |-> IF lock[l] = p THEN Wedged ELSE lock[l]]
    /\ Forget(p)
    /\ UNCHANGED <<workspace, litter, expired, edits>>

ClearLock(l) ==
    /\ lock[l] = Wedged /\ lock' = [lock EXCEPT ![l] = Free]
    /\ UNCHANGED <<workspace, litter, expired, pc, locals, edits>>

ClearScratch(s) ==
    /\ s \in scratch /\ lock["session"] \notin Erasers
    /\ scratch' = scratch \ {s}
    /\ UNCHANGED <<file, entry, bystander, chain, prepared, completed, journal, litter, expired, lock, pc, locals, edits>>

ClearLitter(w) ==
    /\ w \in litter /\ pc[w] \in {"done", "failed"} /\ lock["session"] \notin Erasers
    /\ litter' = litter \ {w}
    /\ UNCHANGED <<workspace, expired, lock, pc, locals, edits>>

Expire == /\ ~expired /\ expired' = TRUE
          /\ UNCHANGED <<workspace, litter, lock, pc, locals, edits>>

Behind == edits < MaxEdits /\ edits' = edits + 1

Edit(f) == /\ Behind
           /\ file' = [file EXCEPT ![f] = Changed(@)]
           /\ UNCHANGED <<entry, bystander, chain, prepared, completed, journal, scratch, litter, expired, lock, pc, locals>>

EditBystander == /\ Behind /\ bystander' = FALSE
                 /\ UNCHANGED <<file, entry, chain, prepared, completed, journal, scratch, litter, expired, lock, pc, locals>>

\* Two appends that hold no common lock (Reducer: ForksExplained).
Fork == /\ Behind /\ chain' = FALSE
        /\ UNCHANGED <<file, entry, bystander, prepared, completed, journal, scratch, litter, expired, lock, pc, locals>>

\* The operator puts back the bytes a pending erasure expects.
Undo(f) == /\ journal /\ file[f] \in {"edited", "renewed"}
           /\ file' = [file EXCEPT ![f] = IF @ = "edited" THEN "old" ELSE "new"]
           /\ UNCHANGED <<entry, bystander, chain, prepared, completed, journal, scratch, litter, expired, lock, pc, locals, edits>>

Next == \/ \E e \in Erasers : Erase(e) \/ Die(e, "idle")
        \/ \E w \in Writers : \/ Enter(w) \/ Lock(w) \/ Read(w) \/ Guard(w) \/ Write(w) \/ Rename(w) \/ Track(w)
                              \/ Digest(w) \/ Release(w) \/ Die(w, Ended(w)) \/ ClearLitter(w)
        \/ \E l \in Locks : ClearLock(l)
        \/ \E s \in Files \cup {Intent, Manifest} : ClearScratch(s)
        \/ \E f \in Files : Edit(f) \/ Undo(f)
        \/ Expire \/ EditBystander \/ Fork

Spec == Init /\ [][Next]_vars
-----------------------------------------------------------------------------
(* Properties *)

Contents == Dirty \cup Clean

TypeOK == /\ file \in [Files -> Contents] /\ entry \in [Tracked -> Contents]
          /\ bystander \in BOOLEAN /\ chain \in BOOLEAN /\ journal \in BOOLEAN /\ expired \in BOOLEAN
          /\ prepared \in Nat /\ completed \in Nat
          /\ scratch \subseteq Files \cup {Intent, Manifest} /\ litter \subseteq Writers
          /\ lock \in [Locks -> Erasers \cup Writers \cup {Free, Wedged}]
          /\ pc \in [Erasers \cup Writers ->
                      Working \cup {"idle", "lock", "unlock", "unlockSession",
                                    "start", "read", "guard", "write", "rename", "track", "digest",
                                    "release", "done", "failed"}]
          /\ tracked \in [Erasers -> [Tracked -> Contents]] /\ todo \in [Erasers -> SUBSET Files]
          /\ loaded \in [Writers -> Contents]
          /\ edits \in Nat

\* Files that a writer without a lock may have written from what it read before
\* the erasure.
Foreign == {f \in Files : \E w \in Writers : /\ LockOf[w] = "none" /\ DocOf[w] = f
                                             /\ pc[w] \in {"rename", "release", "done"}}

(* What the audit log tells of the erasure is so: nothing is erased before   *)
(* the authority is on record, it is recorded once however often the journal *)
(* is resumed, and once it says completed no file holds the subject's data   *)
(* again, unless a writer that takes no lock puts back what it had read.     *)
AuditTellsTruth ==
    /\ prepared <= 1 /\ completed <= prepared
    /\ (\E f \in Files : file[f] \in Clean) => prepared = 1
    /\ completed = 1 => \A f \in Files \ Foreign : file[f] \in Clean

(* Whatever died where, a prepared erasure can be resumed once the files are *)
(* deleted that a dead process or a session refused meanwhile has left       *)
(* (temporaries, a document's lock, a digest), provided that nobody changed  *)
(* others behind the reducer's back: what it finds then is what finishJournal*)
(* accepts, and the manifest never runs ahead of the files.                  *)
Resumable ==
    journal /\ prepared > 0 /\ scratch = {} /\ litter = {} /\ edits = 0 /\ Foreign = {} =>
        /\ chain /\ Authorized(TRUE) /\ ConfirmInventory(TRUE)
        /\ \A f \in Tracked : entry[f] = "old" \/ (entry[f] = "new" /\ file[f] = "new")

(* Readers that respect the journal see the erasure whole or not at all.     *)
All(contents) == \A f \in Files \ Foreign : file[f] \in contents

Phase == IF journal THEN "pending" ELSE IF All(Dirty) THEN "before" ELSE IF All(Clean) THEN "after" ELSE "torn"

T == INSTANCE Transition WITH CanUndo <- FALSE, phase <- Phase

ImplementsTransition == T!Spec
=============================================================================
