------------------------------ MODULE Reducer -------------------------------
(***************************************************************************)
(* kernel/reducer/cli.ts with audit.ts: the single-writer reducer.  Each   *)
(* process is one CLI invocation (commit, reconcile, adopt, preflight or   *)
(* verify-audit), one durable read or write per step.  The manifest lock   *)
(* is the abstract lock of Mutex, which AdvisoryLock implements: the CLI   *)
(* never breaks it.  A document's bytes are its version and whether anyone *)
(* but the reducer wrote them; its hash is taken to be injective.          *)
(***************************************************************************)
EXTENDS Naturals, Sequences

CONSTANTS Writers,        \* reducer invocations
          Sessions,       \* processes that append to the audit log without the manifest lock
          Docs,           \* business documents
          Missing,        \* no file on disk
          Untracked,      \* no manifest entry
          Free, Wedged,   \* manifest or document lock: absent; left by a dead owner
          MaxVersion,     \* bound on the patches of one document
          MaxEdits,       \* bound on out-of-band edits
          EditsMidCommit  \* TRUE: an edit may land while a reducer process runs

ASSUME ReducerAssumption ==
    /\ MaxVersion \in Nat /\ MaxEdits \in Nat /\ EditsMidCommit \in BOOLEAN
    /\ {Free, Wedged} \cap Writers = {} /\ Free # Wedged
    /\ Writers \cap Sessions = {} /\ Missing # Untracked /\ Untracked \notin Docs
    /\ Missing \notin [version : Nat, edited : BOOLEAN] /\ Untracked \notin [version : Nat, edited : BOOLEAN]

VARIABLES doc,           \* the documents on disk
          manifest,      \* content recorded (as its hash) for each tracked document
          audit,         \* the audit log
          lock,          \* ${manifest}.lock
          docLock,       \* ${file}.lock
          pc, alive,     \* where each process stands, and whether it still runs
          cmd,           \* its command line
          loaded,        \* the manifest it read
          next,          \* the content it is about to write, or adopts
          tail,          \* how long the audit log was when it read the last entry
          outcome,       \* its RESULT line
          edits          \* out-of-band edits so far

files == <<doc, manifest, audit>>
locals == <<cmd, loaded, next, tail>>
vars == <<files, lock, docLock, pc, alive, locals, outcome, edits>>

Content == [version : Nat, edited : BOOLEAN]

Commands == [kind : {"commit", "reconcile", "adopt", "preflight"}, doc : Docs]

\* {previous entry, content}: the chain link is the position of the entry read.
AuditEntry == [doc : Docs \cup {Untracked}, content : Content \cup {Missing}, prev : Nat]

M == INSTANCE Mutex WITH Procs <- Writers

\* applyPatch: a patch must change what it declares, from {} when there is no file.
After(content) == IF content \in {Missing, Untracked} THEN [version |-> 1, edited |-> FALSE]
                  ELSE [content EXCEPT !.version = @ + 1]

Tampered(d, recorded) == IF recorded[d] = Untracked THEN doc[d] # Missing
                         ELSE doc[d] # recorded[d]

Init == /\ doc \in [Docs -> {Missing, [version |-> 0, edited |-> FALSE]}]
        /\ manifest = [d \in Docs |-> Untracked]
        /\ audit = <<>>
        /\ M!Init
        /\ docLock = [d \in Docs |-> Free]
        /\ pc = [p \in Writers \cup Sessions |-> "idle"]
        /\ alive = [w \in Writers |-> TRUE]
        /\ cmd \in [Writers -> Commands]
        /\ loaded = [w \in Writers |-> manifest]
        /\ next = [w \in Writers |-> Missing]
        /\ tail = [p \in Writers \cup Sessions |-> 0]
        /\ outcome = [w \in Writers |-> "none"]
        /\ edits = 0

At(w, label) == pc[w] = label /\ alive[w]

Goto(w, label) == pc' = [pc EXCEPT ![w] = label]

Finish(w, label, result) == Goto(w, label) /\ outcome' = [outcome EXCEPT ![w] = result]
-----------------------------------------------------------------------------
(* main: the manifest lock around every command *)

\* Goes ahead although another transition owns the workspace.
BeginAnyway(w) ==
    /\ At(w, "idle")
    /\ lock' = w
    /\ Goto(w, cmd[w].kind)
    /\ UNCHANGED <<files, docLock, alive, locals, outcome, edits>>

Begin(w) ==
    /\ At(w, "idle")
    /\ \/ M!Acquire(w) /\ Goto(w, cmd[w].kind) /\ UNCHANGED outcome
       \/ lock # Free /\ Finish(w, "done", "did_not_run") /\ UNCHANGED lock
    /\ UNCHANGED <<files, docLock, alive, locals, edits>>

Unlock(w) ==
    /\ At(w, "unlock")
    /\ M!Release(w)
    /\ Goto(w, "done")
    /\ UNCHANGED <<files, docLock, alive, locals, outcome, edits>>
-----------------------------------------------------------------------------
(* commit and reconcile *)

\* A malformed patch or missing authority is refused before the document lock.
Refuse(w) ==
    /\ At(w, "commit") \/ At(w, "reconcile")
    /\ Finish(w, "unlock", "rejected")
    /\ UNCHANGED <<files, lock, docLock, alive, locals, edits>>

\* A document lock nobody released is broken only with the flag, once stale.
LockDocument(w) ==
    /\ At(w, "commit") \/ At(w, "reconcile")
    /\ \/ docLock' = [docLock EXCEPT ![cmd[w].doc] = w] /\ Goto(w, "check") /\ UNCHANGED outcome
       \/ docLock[cmd[w].doc] # Free /\ Finish(w, "unlock", "did_not_run") /\ UNCHANGED docLock
    /\ UNCHANGED <<files, lock, alive, locals, edits>>

\* Never hashes the file.
CheckExistenceOnly(w) ==
    /\ At(w, "check")
    /\ loaded' = [loaded EXCEPT ![w] = manifest]
    /\ IF (manifest[cmd[w].doc] = Untracked) # (doc[cmd[w].doc] = Missing)
         THEN Finish(w, "unlockDoc", "tamper_detected")
         ELSE Goto(w, "read") /\ UNCHANGED outcome
    /\ UNCHANGED <<files, lock, docLock, alive, cmd, next, tail, edits>>

\* Load the manifest, hash the file and compare.
Check(w) ==
    /\ At(w, "check")
    /\ loaded' = [loaded EXCEPT ![w] = manifest]
    /\ IF Tampered(cmd[w].doc, manifest)
         THEN Finish(w, "unlockDoc", "tamper_detected")
         ELSE Goto(w, "read") /\ UNCHANGED outcome
    /\ UNCHANGED <<files, lock, docLock, alive, cmd, next, tail, edits>>

\* Read the file again (it may have vanished) and derive the candidate, which a
\* precondition, a schema or a cross-check may reject and a receipt leave as it is.
Read(w) ==
    LET d == cmd[w].doc
        before == IF loaded[w][d] = Untracked THEN Missing ELSE doc[d]
        gone == loaded[w][d] # Untracked /\ doc[d] = Missing
    IN  /\ At(w, "read")
        /\ \/ Finish(w, "unlockDoc", "rejected") /\ UNCHANGED next
           \/ cmd[w].kind = "reconcile" /\ ~gone /\ Finish(w, "unlockDoc", "noop") /\ UNCHANGED next
           \/ /\ ~gone /\ (before # Missing => before.version < MaxVersion)
              /\ next' = [next EXCEPT ![w] = After(before)]
              /\ Goto(w, "write") /\ UNCHANGED outcome
        /\ UNCHANGED <<files, lock, docLock, alive, cmd, loaded, tail, edits>>

WriteDoc(w) ==
    /\ At(w, "write")
    /\ doc' = [doc EXCEPT ![cmd[w].doc] = next[w]]
    /\ Goto(w, "save")
    /\ UNCHANGED <<manifest, audit, lock, docLock, alive, locals, outcome, edits>>

\* Records a hash for a document it did not track before, and no later one.
SaveManifestFirstOnly(w) ==
    /\ At(w, "save")
    /\ manifest' = [loaded[w] EXCEPT ![cmd[w].doc] = IF @ = Untracked THEN next[w] ELSE @]
    /\ Goto(w, IF cmd[w].kind = "adopt" THEN "unlock" ELSE "tail")
    /\ outcome' = IF cmd[w].kind = "adopt" THEN [outcome EXCEPT ![w] = "adopted"] ELSE outcome
    /\ UNCHANGED <<doc, audit, lock, docLock, alive, locals, edits>>

\* The whole manifest is rewritten from the copy loaded before.
SaveManifest(w) ==
    /\ At(w, "save")
    /\ manifest' = [loaded[w] EXCEPT ![cmd[w].doc] = next[w]]
    /\ Goto(w, IF cmd[w].kind = "adopt" THEN "unlock" ELSE "tail")
    /\ outcome' = IF cmd[w].kind = "adopt" THEN [outcome EXCEPT ![w] = "adopted"] ELSE outcome
    /\ UNCHANGED <<doc, audit, lock, docLock, alive, locals, edits>>

\* releaseLock in the finally clause throws when somebody else broke the lock.
UnlockDocument(w) ==
    /\ At(w, "unlockDoc")
    /\ IF docLock[cmd[w].doc] = w
         THEN docLock' = [docLock EXCEPT ![cmd[w].doc] = Free] /\ Goto(w, "unlock") /\ UNCHANGED outcome
         ELSE Finish(w, "unlock", "rejected") /\ UNCHANGED docLock
    /\ UNCHANGED <<files, lock, alive, locals, edits>>
-----------------------------------------------------------------------------
(* adopt: the audit entry first, then the manifest *)

Adopt(w) ==
    /\ At(w, "adopt")
    /\ \/ Finish(w, "unlock", "rejected") /\ UNCHANGED <<loaded, next>>
       \/ /\ doc[cmd[w].doc] # Missing /\ manifest[cmd[w].doc] = Untracked
          /\ loaded' = [loaded EXCEPT ![w] = manifest]
          /\ next' = [next EXCEPT ![w] = doc[cmd[w].doc]]
          /\ Goto(w, "tail") /\ UNCHANGED outcome
    /\ UNCHANGED <<files, lock, docLock, alive, cmd, tail, edits>>
-----------------------------------------------------------------------------
(* appendAuditEntry: read the last entry, then append one that links to it *)

ReadTail(p) ==
    /\ pc[p] = "tail"
    /\ p \in Writers => alive[p]
    /\ tail' = [tail EXCEPT ![p] = Len(audit)]
    /\ Goto(p, "append")
    /\ UNCHANGED <<files, lock, docLock, alive, cmd, loaded, next, outcome, edits>>

\* Records the hash the document had before the commit.
AppendPrevious(w) ==
    /\ At(w, "append")
    /\ audit' = Append(audit, [doc |-> cmd[w].doc, prev |-> tail[w],
                 content |-> IF loaded[w][cmd[w].doc] = Untracked THEN next[w] ELSE loaded[w][cmd[w].doc]])
    /\ Goto(w, IF cmd[w].kind = "adopt" THEN "save" ELSE "unlockDoc")
    /\ UNCHANGED <<doc, manifest, lock, docLock, alive, locals, outcome, edits>>

AppendEntry(w) ==
    /\ At(w, "append")
    /\ audit' = Append(audit, [doc |-> cmd[w].doc, content |-> next[w], prev |-> tail[w]])
    /\ Goto(w, IF cmd[w].kind = "adopt" THEN "save" ELSE "unlockDoc")
    /\ outcome' = IF cmd[w].kind = "adopt" THEN outcome ELSE [outcome EXCEPT ![w] = "committed"]
    /\ UNCHANGED <<doc, manifest, lock, docLock, alive, locals, edits>>

\* A session, the approval CLI or the verification CLI records a decision on the
\* run: same function, none of the reducer's locks.
SessionBegin(s) ==
    /\ pc[s] = "idle"
    /\ Goto(s, "tail")
    /\ UNCHANGED <<files, lock, docLock, alive, locals, outcome, edits>>

SessionAppend(s) ==
    /\ pc[s] = "append"
    /\ audit' = Append(audit, [doc |-> Untracked, content |-> Missing, prev |-> tail[s]])
    /\ Goto(s, "done")
    /\ UNCHANGED <<doc, manifest, lock, docLock, alive, locals, outcome, edits>>
-----------------------------------------------------------------------------
(* preflight *)

Preflight(w) ==
    /\ At(w, "preflight")
    /\ Finish(w, "unlock", IF \E d \in Docs : manifest[d] # Untracked /\ Tampered(d, manifest)
                           THEN "tamper_detected" ELSE "preflight_ok")
    /\ UNCHANGED <<files, lock, docLock, alive, locals, edits>>
-----------------------------------------------------------------------------
(* The environment *)

\* A process dies between two durable steps; its lock files stay.
Crash(w) ==
    /\ alive[w] /\ pc[w] \notin {"idle", "done"}
    /\ M!Abandon(w)
    /\ alive' = [alive EXCEPT ![w] = FALSE]
    /\ UNCHANGED <<files, docLock, pc, locals, outcome, edits>>

\* The operator deletes the manifest lock of a dead process by hand.
ClearLock ==
    /\ lock = Wedged
    /\ lock' = Free
    /\ UNCHANGED <<files, docLock, pc, alive, locals, outcome, edits>>

Quiet == EditsMidCommit \/ lock \notin Writers

\* Somebody edits or deletes a tracked file behind the reducer's back.
Edit(d) ==
    /\ Quiet /\ edits < MaxEdits
    /\ manifest[d] # Untracked /\ doc[d] # Missing
    /\ edits' = edits + 1
    /\ \E content \in {Missing, [doc[d] EXCEPT !.edited = TRUE]} : doc' = [doc EXCEPT ![d] = content]
    /\ UNCHANGED <<manifest, audit, lock, docLock, pc, alive, locals, outcome>>

\* With nothing running, the operator puts back the content the manifest records.
Restore(d) ==
    /\ lock \notin Writers
    /\ manifest[d] # Untracked /\ doc[d] # manifest[d]
    /\ doc' = [doc EXCEPT ![d] = manifest[d]]
    /\ UNCHANGED <<manifest, audit, lock, docLock, pc, alive, locals, outcome, edits>>

Step(w) == \/ Begin(w) \/ Unlock(w) \/ Refuse(w) \/ LockDocument(w) \/ Check(w) \/ Read(w)
           \/ WriteDoc(w) \/ SaveManifest(w) \/ UnlockDocument(w) \/ Adopt(w) \/ AppendEntry(w)
           \/ Preflight(w)

Next == \/ \E w \in Writers : Step(w) \/ ReadTail(w) \/ Crash(w)
        \/ \E s \in Sessions : SessionBegin(s) \/ ReadTail(s) \/ SessionAppend(s)
        \/ \E d \in Docs : Edit(d) \/ Restore(d)
        \/ ClearLock

Spec == Init /\ [][Next]_vars
-----------------------------------------------------------------------------
(* Properties *)

Labels == {"idle", "commit", "reconcile", "adopt", "preflight", "check", "read", "write", "save",
           "tail", "append", "unlockDoc", "unlock", "done"}

Outcomes == {"none", "did_not_run", "rejected", "tamper_detected", "noop", "committed", "adopted",
             "preflight_ok"}

TypeOK == /\ doc \in [Docs -> Content \cup {Missing}]
          /\ manifest \in [Docs -> Content \cup {Untracked}]
          /\ audit \in Seq(AuditEntry)
          /\ lock \in Writers \cup {Free, Wedged}
          /\ docLock \in [Docs -> Writers \cup {Free}]
          /\ pc \in [Writers \cup Sessions -> Labels]
          /\ alive \in [Writers -> BOOLEAN]
          /\ cmd \in [Writers -> Commands]
          /\ loaded \in [Writers -> [Docs -> Content \cup {Untracked}]]
          /\ next \in [Writers -> Content \cup {Missing}]
          /\ tail \in [Writers \cup Sessions -> Nat]
          /\ outcome \in [Writers -> Outcomes]
          /\ edits \in Nat

(* A tracked document differs from its manifest entry only if somebody       *)
(* edited it, or a commit is (or died) between its two writes: the reducer   *)
(* alone never makes preflight cry tamper.                                   *)
TearExplained ==
    \A d \in Docs : manifest[d] # Untracked /\ doc[d] # manifest[d] =>
        \/ doc[d] = Missing \/ doc[d].edited
        \/ \E w \in Writers : pc[w] = "save" /\ cmd[w].doc = d /\ next[w] = doc[d]

EntriesOf(d) == {i \in DOMAIN audit : audit[i].doc = d}

Audited(d) == \E i \in EntriesOf(d) : /\ audit[i].content = manifest[d]
                                      /\ \A j \in EntriesOf(d) : j <= i

(* The last audit entry of a tracked document is the content the manifest    *)
(* records, unless an adoption is (or died) before its manifest write or a   *)
(* commit after it.                                                          *)
AuditGapExplained ==
    \A d \in Docs : manifest[d] # Untracked /\ ~Audited(d) =>
        \E w \in Writers : /\ cmd[w].doc = d
                           /\ pc[w] \in {"tail", "append"} /\ cmd[w].kind # "adopt" /\ next[w] = manifest[d]

(* verifyAuditChain accepts the log: each entry links to the one before it.  *)
ChainValid == \A i \in DOMAIN audit : audit[i].prev = i - 1

(* An entry links past another only if a session wrote one of the two: the   *)
(* entries of commits and adoptions never fork from each other, however many *)
(* invocations run or die and whatever sessions append in between.           *)
ForksExplained ==
    \A i \in DOMAIN audit :
        /\ audit[i].prev < i
        /\ \A j \in (audit[i].prev + 1) .. (i - 1) : Untracked \in {audit[i].doc, audit[j].doc}

(* The manifest implements TrackedStore: no lost update, no patch applied to *)
(* a torn or edited document, whatever crashes come between the writes.      *)
Store == INSTANCE TrackedStore
         WITH tracked <- manifest, Adoptable <- Content

ImplementsStore == Store!Spec
=============================================================================
