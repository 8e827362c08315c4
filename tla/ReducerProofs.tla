--------------------------- MODULE ReducerProofs ----------------------------
(***************************************************************************)
(* Proofs about Reducer, for any number of invocations, sessions, documents*)
(* and crashes: type correctness; that the log of the reducer's own        *)
(* appends is one chain; that tears and audit gaps are explained; and that *)
(* the manifest implements TrackedStore as long as nobody edits a document *)
(* while a reducer process runs.                                           *)
(***************************************************************************)
EXTENDS Reducer, TLAPS

USE DEF Labels, Outcomes, At, Goto, Finish, Quiet, files, locals,
        Begin, Unlock, Refuse, LockDocument, Check, Read, WriteDoc, SaveManifest, UnlockDocument, Adopt,
        ReadTail, AppendEntry, SessionBegin, SessionAppend, Preflight, Crash, ClearLock, Edit, Restore,
        M!Init, M!Acquire, M!Release, M!Abandon

(* Content is neither the absence of a file nor of an entry, a patch of any  *)
(* content or of nothing yields content, and so does an edit.                *)
LEMMA ContentFacts ==
    /\ Missing \notin Content /\ Untracked \notin Content /\ Missing # Untracked
    /\ [version |-> 0, edited |-> FALSE] \in Content
    /\ \A content \in Content \cup {Missing, Untracked} : After(content) \in Content
    /\ \A content \in Content : [content EXCEPT !.edited = TRUE] \in Content
<1>1. Missing \notin Content /\ Untracked \notin Content /\ Missing # Untracked
  BY ReducerAssumption DEF Content
<1>2. [version |-> 0, edited |-> FALSE] \in Content /\ [version |-> 1, edited |-> FALSE] \in Content
  BY DEF Content
<1>3. ASSUME NEW content \in Content
      PROVE [content EXCEPT !.version = @ + 1] \in Content /\ [content EXCEPT !.edited = TRUE] \in Content
  <2>1. content.version \in Nat /\ content.edited \in BOOLEAN /\ content.version + 1 \in Nat
    BY DEF Content
  <2>2. [content EXCEPT !.edited = TRUE] \in Content
    BY DEF Content
  <2>3. [content EXCEPT !.version = content.version + 1] \in Content
    BY <2>1 DEF Content
  <2>4. QED
    BY <2>2, <2>3
<1>4. ASSUME NEW content \in Content \cup {Missing, Untracked} PROVE After(content) \in Content
  <2>1. CASE content \in {Missing, Untracked}
    BY <1>2, <2>1 DEF After
  <2>2. CASE content \notin {Missing, Untracked}
    <3>1. After(content) = [content EXCEPT !.version = @ + 1]
      BY <2>2 DEF After
    <3>2. QED
      BY <1>3, <2>2, <3>1, ZenonT(60)
  <2>3. QED
    BY <2>1, <2>2
<1>5. QED
  BY <1>1, <1>2, <1>3, <1>4

LEMMA LockFacts ==
    /\ Free \notin Writers /\ Wedged \notin Writers /\ Free # Wedged
    /\ Writers \cap Sessions = {}
BY ReducerAssumption

(* A process on the way to recording something holds content to record.      *)
NextTyped == \A w \in Writers : pc[w] \in {"write", "save", "append", "tail"} => next[w] \in Content

Typed == TypeOK /\ NextTyped

LEMMA CommandFacts == ASSUME TypeOK, NEW w \in Writers
                      PROVE cmd[w].doc \in Docs /\ cmd[w].kind \in {"commit", "reconcile", "adopt", "preflight"}
BY DEF TypeOK, Commands

LEMMA EntryTyped == ASSUME NEW d \in Docs \cup {Untracked}, NEW c \in Content \cup {Missing}, NEW n \in Nat
                    PROVE [doc |-> d, content |-> c, prev |-> n] \in AuditEntry
BY DEF AuditEntry

(* Every variable keeps its type: in particular only content, never a        *)
(* missing file, is ever recorded in the manifest or in the audit log.       *)
LEMMA TypedInductive == Typed /\ [Next]_vars => Typed'
<1> SUFFICES ASSUME TypeOK, NextTyped, [Next]_vars PROVE Typed'
    BY DEF Typed
<1> USE ContentFacts, LockFacts, CommandFacts DEF TypeOK, NextTyped, Typed
  <1>1. ASSUME NEW w \in Writers, Begin(w) PROVE Typed'
    <3>1. cmd[w].kind \in {"commit", "reconcile", "adopt", "preflight"}
      OBVIOUS
    <3>2. pc' = [pc EXCEPT ![w] = pc'[w]] /\ pc'[w] \in {"commit", "reconcile", "adopt", "preflight", "done"}
      BY <1>1, <3>1
    <3>3. lock' \in Writers \cup {Free, Wedged}
      BY <1>1
    <3>4. outcome' = [outcome EXCEPT ![w] = outcome'[w]] /\ outcome'[w] \in {outcome[w], "did_not_run"}
      BY <1>1
    <3>5. UNCHANGED <<doc, manifest, audit, docLock, alive, cmd, loaded, next, tail, edits>>
      BY <1>1
    <3>6. pc' \in [Writers \cup Sessions -> Labels] /\ outcome' \in [Writers -> Outcomes]
      <4>1. pc' \in [Writers \cup Sessions -> Labels]
        BY ONLY <3>2, TypeOK, w \in Writers DEF Labels, Outcomes, TypeOK
      <4>2. outcome' \in [Writers -> Outcomes]
        BY ONLY <3>4, TypeOK, w \in Writers DEF Labels, Outcomes, TypeOK
      <4>3. QED
        BY <4>1, <4>2
    <3>7. TypeOK'
      BY ONLY <3>2, <3>3, <3>5, <3>6, TypeOK DEF TypeOK
    <3>8. NextTyped'
      BY ONLY <3>2, <3>3, <3>5, TypeOK, NextTyped, w \in Writers DEF TypeOK, NextTyped
    <3>9. QED
      BY <3>7, <3>8
  <1>2. ASSUME NEW w \in Writers, Unlock(w) PROVE Typed'
    BY <1>2
  <1>3. ASSUME NEW w \in Writers, Refuse(w) PROVE Typed'
    BY <1>3
  <1>4. ASSUME NEW w \in Writers, LockDocument(w) PROVE Typed'
    <3>1. cmd[w].doc \in Docs /\ Len(audit) \in Nat
      OBVIOUS
    <3>2. docLock' \in [Docs -> Writers \cup {Free}]
      BY <1>4, <3>1
    <3>3. pc' = [pc EXCEPT ![w] = pc'[w]] /\ pc'[w] \in {"check", "unlock"}
      BY <1>4
    <3>4. outcome' = [outcome EXCEPT ![w] = outcome'[w]] /\ outcome'[w] \in {outcome[w], "did_not_run"}
      BY <1>4
    <3>5. UNCHANGED <<doc, manifest, audit, lock, alive, cmd, loaded, next, tail, edits>>
      BY <1>4
    <3>6. pc' \in [Writers \cup Sessions -> Labels] /\ outcome' \in [Writers -> Outcomes]
      <4>1. pc' \in [Writers \cup Sessions -> Labels]
        BY ONLY <3>3, TypeOK, w \in Writers DEF Labels, Outcomes, TypeOK
      <4>2. outcome' \in [Writers -> Outcomes]
        BY ONLY <3>4, TypeOK, w \in Writers DEF Labels, Outcomes, TypeOK
      <4>3. QED
        BY <4>1, <4>2
    <3>7. TypeOK'
      BY ONLY <3>2, <3>3, <3>5, <3>6, TypeOK DEF TypeOK
    <3>8. NextTyped'
      BY ONLY <3>2, <3>3, <3>5, TypeOK, NextTyped, w \in Writers DEF TypeOK, NextTyped
    <3>9. QED
      BY <3>7, <3>8
  <1>5. ASSUME NEW w \in Writers, Check(w) PROVE Typed'
    BY <1>5, ZenonT(60)
  <1>6. ASSUME NEW w \in Writers, Read(w) PROVE Typed'
    <3>1. next' = [next EXCEPT ![w] = next'[w]] /\ next'[w] \in Content \cup {next[w]}
      <4>1. (IF loaded[w][cmd[w].doc] = Untracked THEN Missing ELSE doc[cmd[w].doc]) \in Content \cup {Missing}
        OBVIOUS
      <4>2. QED
        BY <1>6, <4>1
    <3>2. /\ pc' = [pc EXCEPT ![w] = pc'[w]]
          /\ pc'[w] \in {"unlockDoc", "write"}
          /\ pc'[w] = "write" => next'[w] \in Content
      <4>1. (IF loaded[w][cmd[w].doc] = Untracked THEN Missing ELSE doc[cmd[w].doc]) \in Content \cup {Missing}
        OBVIOUS
      <4>2. QED
        BY <1>6, <4>1
    <3>3. outcome' = [outcome EXCEPT ![w] = outcome'[w]] /\ outcome'[w] \in {outcome[w], "rejected", "noop"}
      BY <1>6
    <3>4. UNCHANGED <<doc, manifest, audit, lock, docLock, alive, cmd, loaded, tail, edits>>
      BY <1>6
    <3>5. TypeOK'
      <4>1. pc' \in [Writers \cup Sessions -> Labels]
        BY ONLY <3>2, TypeOK, w \in Writers DEF Labels, Outcomes, TypeOK
      <4>2. next' \in [Writers -> Content \cup {Missing}]
        BY ONLY <3>1, TypeOK, w \in Writers DEF Labels, Outcomes, TypeOK
      <4>3. loaded' \in [Writers -> [Docs -> Content \cup {Untracked}]]
        BY ONLY <3>4, TypeOK, w \in Writers DEF Labels, Outcomes, TypeOK
      <4>4. outcome' \in [Writers -> Outcomes]
        BY ONLY <3>3, TypeOK, w \in Writers DEF Labels, Outcomes, TypeOK
      <4>5. QED
        BY ONLY <4>1, <4>2, <4>3, <4>4, <3>4, TypeOK DEF Labels, Outcomes, TypeOK
    <3>6. NextTyped'
      BY ONLY <3>1, <3>2, TypeOK, NextTyped, w \in Writers DEF Labels, Outcomes, TypeOK, NextTyped
    <3>7. QED
      BY <3>5, <3>6
  <1>7. ASSUME NEW w \in Writers, WriteDoc(w) PROVE Typed'
    BY <1>7
  <1>8. ASSUME NEW w \in Writers, SaveManifest(w) PROVE Typed'
    BY <1>8
  <1>9. ASSUME NEW w \in Writers, UnlockDocument(w) PROVE Typed'
    BY <1>9, ZenonT(60)
  <1>10. ASSUME NEW w \in Writers, Adopt(w) PROVE Typed'
    <3>1. /\ pc' = [pc EXCEPT ![w] = pc'[w]]
          /\ pc'[w] \in {"unlock", "tail"}
          /\ pc'[w] = "tail" => next'[w] \in Content
      BY <1>10
    <3>2. next' = [next EXCEPT ![w] = next'[w]] /\ next'[w] \in Content \cup {next[w]}
      BY <1>10
    <3>3. loaded' = [loaded EXCEPT ![w] = loaded'[w]] /\ loaded'[w] \in [Docs -> Content \cup {Untracked}]
      BY <1>10
    <3>4. outcome' = [outcome EXCEPT ![w] = outcome'[w]] /\ outcome'[w] \in {outcome[w], "rejected"}
      BY <1>10
    <3>5. UNCHANGED <<doc, manifest, audit, lock, docLock, alive, cmd, tail, edits>>
      BY <1>10
    <3>6. TypeOK'
      <4>1. pc' \in [Writers \cup Sessions -> Labels]
        BY ONLY <3>1, TypeOK, w \in Writers DEF Labels, Outcomes, TypeOK
      <4>2. next' \in [Writers -> Content \cup {Missing}]
        BY ONLY <3>2, TypeOK, w \in Writers DEF Labels, Outcomes, TypeOK
      <4>3. loaded' \in [Writers -> [Docs -> Content \cup {Untracked}]]
        BY ONLY <3>3, TypeOK, w \in Writers DEF Labels, Outcomes, TypeOK
      <4>4. outcome' \in [Writers -> Outcomes]
        BY ONLY <3>4, TypeOK, w \in Writers DEF Labels, Outcomes, TypeOK
      <4>5. QED
        BY ONLY <4>1, <4>2, <4>3, <4>4, <3>5, TypeOK DEF Labels, Outcomes, TypeOK
    <3>7. NextTyped'
      BY ONLY <3>1, <3>2, TypeOK, NextTyped, w \in Writers DEF Labels, Outcomes, TypeOK, NextTyped
    <3>8. QED
      BY <3>6, <3>7
  <1>11. ASSUME NEW w \in Writers, AppendEntry(w) PROVE Typed'
    BY <1>11, EntryTyped
  <1>12. ASSUME NEW w \in Writers, Preflight(w) PROVE Typed'
    BY <1>12
  <1>13. ASSUME NEW w \in Writers, Crash(w) PROVE Typed'
    BY <1>13
  <1>14. ASSUME NEW p \in Writers \cup Sessions, ReadTail(p) PROVE Typed'
    BY <1>14
  <1>15. ASSUME NEW s \in Sessions, SessionBegin(s) PROVE Typed'
    BY <1>15
  <1>16. ASSUME NEW s \in Sessions, SessionAppend(s) PROVE Typed'
    <3>1. [doc |-> Untracked, content |-> Missing, prev |-> tail[s]] \in AuditEntry
      BY EntryTyped
    <3>2. audit' \in Seq(AuditEntry)
      BY <1>16, <3>1
    <3>3. UNCHANGED <<doc, manifest, lock, docLock, alive, cmd, loaded, next, tail, outcome, edits>>
      BY <1>16
    <3>4. pc' = [pc EXCEPT ![s] = "done"] /\ s \notin Writers
      BY <1>16
    <3>5. QED
      BY ONLY <3>2, <3>3, <3>4, Typed, s \in Sessions DEF Labels, Outcomes, Typed, TypeOK, NextTyped
  <1>17. ASSUME NEW d \in Docs, Edit(d) PROVE Typed'
    BY <1>17
  <1>18. ASSUME NEW d \in Docs, Restore(d) PROVE Typed'
    BY <1>18
  <1>19. CASE ClearLock
    BY <1>19
  <1>20. CASE UNCHANGED vars
    BY <1>20 DEF vars, files, locals
  <1>21. QED
    BY <1>1, <1>2, <1>3, <1>4, <1>5, <1>6, <1>7, <1>8, <1>9, <1>10, <1>11, <1>12, <1>13, <1>14, <1>15, <1>16, <1>17, <1>18, <1>19, <1>20, ZenonT(60) DEF Next, Step

LEMMA TypedInit == Init => Typed
<1> SUFFICES ASSUME Init PROVE Typed
    OBVIOUS
<1>1. doc \in [Docs -> Content \cup {Missing}] /\ manifest \in [Docs -> Content \cup {Untracked}]
  BY ContentFacts, ZenonT(60) DEF Init
<1>2. audit \in Seq(AuditEntry) /\ tail \in [Writers \cup Sessions -> Nat] /\ edits \in Nat
  BY DEF Init
<1>3. loaded \in [Writers -> [Docs -> Content \cup {Untracked}]]
  BY <1>1 DEF Init
<1>4. QED
  BY <1>1, <1>2, <1>3 DEF Init, Typed, TypeOK, NextTyped

(* Every variable keeps its type: in particular only content, never a        *)
(* missing file, is ever recorded in the manifest or in the audit log.       *)
THEOREM TypeCorrect == Spec => []TypeOK
<1>1. Typed => TypeOK
  BY DEF Typed
<1>2. QED
  BY <1>1, TypedInit, TypedInductive, PTL DEF Spec
-----------------------------------------------------------------------------
(* The manifest lock excludes: a live invocation between its first and its   *)
(* last step holds it, so no two are there together.                         *)
Busy(w) == alive[w] /\ pc[w] \notin {"idle", "done"}

Exclusive == \A w \in Writers : Busy(w) => lock = w

LEMMA ExclusiveStep == Typed /\ Exclusive /\ [Next]_vars => Exclusive'
<1> SUFFICES ASSUME TypeOK, Exclusive, [Next]_vars PROVE Exclusive'
    BY DEF Typed
<1> USE LockFacts DEF TypeOK, Exclusive, Busy
  <1>1. ASSUME NEW w \in Writers, Begin(w) PROVE Exclusive'
    BY <1>1
  <1>2. ASSUME NEW w \in Writers, Unlock(w) PROVE Exclusive'
    BY <1>2
  <1>3. ASSUME NEW w \in Writers, Refuse(w) PROVE Exclusive'
    BY <1>3
  <1>4. ASSUME NEW w \in Writers, LockDocument(w) PROVE Exclusive'
    BY <1>4
  <1>5. ASSUME NEW w \in Writers, Check(w) PROVE Exclusive'
    BY <1>5
  <1>6. ASSUME NEW w \in Writers, Read(w) PROVE Exclusive'
    BY <1>6
  <1>7. ASSUME NEW w \in Writers, WriteDoc(w) PROVE Exclusive'
    BY <1>7
  <1>8. ASSUME NEW w \in Writers, SaveManifest(w) PROVE Exclusive'
    BY <1>8
  <1>9. ASSUME NEW w \in Writers, UnlockDocument(w) PROVE Exclusive'
    BY <1>9
  <1>10. ASSUME NEW w \in Writers, Adopt(w) PROVE Exclusive'
    BY <1>10
  <1>11. ASSUME NEW w \in Writers, AppendEntry(w) PROVE Exclusive'
    BY <1>11
  <1>12. ASSUME NEW w \in Writers, Preflight(w) PROVE Exclusive'
    BY <1>12
  <1>13. ASSUME NEW w \in Writers, Crash(w) PROVE Exclusive'
    BY <1>13
  <1>14. ASSUME NEW p \in Writers \cup Sessions, ReadTail(p) PROVE Exclusive'
    BY <1>14
  <1>15. ASSUME NEW s \in Sessions, SessionBegin(s) PROVE Exclusive'
    BY <1>15
  <1>16. ASSUME NEW s \in Sessions, SessionAppend(s) PROVE Exclusive'
    BY <1>16
  <1>17. ASSUME NEW d \in Docs, Edit(d) PROVE Exclusive'
    BY <1>17
  <1>18. ASSUME NEW d \in Docs, Restore(d) PROVE Exclusive'
    BY <1>18
  <1>19. CASE ClearLock
    BY <1>19
  <1>20. CASE UNCHANGED vars
    BY <1>20 DEF vars, files, locals
  <1>21. QED
    BY <1>1, <1>2, <1>3, <1>4, <1>5, <1>6, <1>7, <1>8, <1>9, <1>10, <1>11, <1>12, <1>13, <1>14, <1>15, <1>16, <1>17, <1>18, <1>19, <1>20, ZenonT(60) DEF Next, Step

LEMMA ExclusiveInit == Init => Exclusive
BY LockFacts DEF Init, Exclusive, Busy

LEMMA Alone == ASSUME Exclusive, NEW w \in Writers, NEW v \in Writers, Busy(w), Busy(v) PROVE v = w
BY DEF Exclusive
-----------------------------------------------------------------------------
(* The invocation that is about to append has read the end of the log.       *)
FreshTail == \A w \in Writers : Busy(w) /\ pc[w] = "append" => tail[w] = Len(audit)

LEMMA ChainStep == ASSUME Sessions = {}
                   PROVE Typed /\ Exclusive /\ FreshTail /\ ChainValid /\ [Next]_vars => FreshTail' /\ ChainValid'
<1> SUFFICES ASSUME TypeOK, Exclusive, FreshTail, ChainValid, [Next]_vars PROVE FreshTail' /\ ChainValid'
    BY DEF Typed
<1> USE LockFacts, CommandFacts DEF TypeOK, FreshTail, ChainValid, Busy
  <1>1. ASSUME NEW w \in Writers, Begin(w) PROVE FreshTail' /\ ChainValid'
    BY <1>1
  <1>2. ASSUME NEW w \in Writers, Unlock(w) PROVE FreshTail' /\ ChainValid'
    BY <1>2
  <1>3. ASSUME NEW w \in Writers, Refuse(w) PROVE FreshTail' /\ ChainValid'
    BY <1>3
  <1>4. ASSUME NEW w \in Writers, LockDocument(w) PROVE FreshTail' /\ ChainValid'
    BY <1>4
  <1>5. ASSUME NEW w \in Writers, Check(w) PROVE FreshTail' /\ ChainValid'
    BY <1>5, ZenonT(60)
  <1>6. ASSUME NEW w \in Writers, Read(w) PROVE FreshTail' /\ ChainValid'
    BY <1>6
  <1>7. ASSUME NEW w \in Writers, WriteDoc(w) PROVE FreshTail' /\ ChainValid'
    BY <1>7
  <1>8. ASSUME NEW w \in Writers, SaveManifest(w) PROVE FreshTail' /\ ChainValid'
    BY <1>8
  <1>9. ASSUME NEW w \in Writers, UnlockDocument(w) PROVE FreshTail' /\ ChainValid'
    BY <1>9
  <1>10. ASSUME NEW w \in Writers, Adopt(w) PROVE FreshTail' /\ ChainValid'
    BY <1>10, ZenonT(60)
  <1>11. ASSUME NEW w \in Writers, AppendEntry(w) PROVE FreshTail' /\ ChainValid'
    <3> DEFINE entry == [doc |-> cmd[w].doc, content |-> next[w], prev |-> tail[w]]
    <3>1. audit' = Append(audit, entry) /\ entry.prev = Len(audit) /\ Busy(w)
      BY <1>11
    <3>2. \A v \in Writers : ~(Busy(v) /\ pc[v] = "append")'
      BY <1>11, <3>1, Alone
    <3>3. ChainValid'
      BY <3>1
    <3>4. QED
      BY <3>2, <3>3
  <1>12. ASSUME NEW w \in Writers, Preflight(w) PROVE FreshTail' /\ ChainValid'
    BY <1>12
  <1>13. ASSUME NEW w \in Writers, Crash(w) PROVE FreshTail' /\ ChainValid'
    BY <1>13
  <1>14. ASSUME NEW p \in Writers \cup Sessions, ReadTail(p) PROVE FreshTail' /\ ChainValid'
    BY <1>14, Alone
  <1>15. ASSUME NEW s \in Sessions, SessionBegin(s) PROVE FreshTail' /\ ChainValid'
    BY <1>15
  <1>16. ASSUME NEW s \in Sessions, SessionAppend(s) PROVE FreshTail' /\ ChainValid'
    BY <1>16
  <1>17. ASSUME NEW d \in Docs, Edit(d) PROVE FreshTail' /\ ChainValid'
    BY <1>17
  <1>18. ASSUME NEW d \in Docs, Restore(d) PROVE FreshTail' /\ ChainValid'
    BY <1>18
  <1>19. CASE ClearLock
    BY <1>19
  <1>20. CASE UNCHANGED vars
    BY <1>20 DEF vars, files, locals
  <1>21. QED
    BY <1>1, <1>2, <1>3, <1>4, <1>5, <1>6, <1>7, <1>8, <1>9, <1>10, <1>11, <1>12, <1>13, <1>14, <1>15, <1>16, <1>17, <1>18, <1>19, <1>20, ZenonT(60) DEF Next, Step

(* Without the appenders that hold no lock, the audit log is one chain,      *)
(* whatever crashes there are: verify-audit accepts it.                      *)
THEOREM OwnAppendsChain == ASSUME Sessions = {} PROVE Spec => []ChainValid
<1>1. Init => Typed /\ Exclusive /\ FreshTail /\ ChainValid
  BY TypedInit, ExclusiveInit DEF Init, FreshTail, ChainValid
<1>2. Typed /\ Exclusive /\ FreshTail /\ ChainValid /\ [Next]_vars => (Typed /\ Exclusive /\ FreshTail /\ ChainValid)'
  BY TypedInductive, ExclusiveStep, ChainStep
<1>3. QED
  BY <1>1, <1>2, PTL DEF Spec
(* Whatever was appended since an invocation read the log's end, a session   *)
(* appended; and nobody read past the end.                                   *)
TailBound == \A p \in Writers \cup Sessions : pc[p] = "append" => tail[p] <= Len(audit)

SkipsSessions == \A w \in Writers : Busy(w) /\ pc[w] = "append" =>
    \A j \in (tail[w] + 1) .. Len(audit) : audit[j].doc = Untracked

ForkInv == TailBound /\ SkipsSessions /\ ForksExplained

LEMMA ForkStep == Typed /\ Exclusive /\ ForkInv /\ [Next]_vars => ForkInv'
<1> SUFFICES ASSUME TypeOK, Exclusive, ForkInv, [Next]_vars PROVE ForkInv'
    BY DEF Typed
<1> USE LockFacts, CommandFacts DEF TypeOK, ForkInv, TailBound, SkipsSessions, ForksExplained, Busy
  <1>1. ASSUME NEW w \in Writers, Begin(w) PROVE ForkInv'
    BY <1>1, ZenonT(60)
  <1>2. ASSUME NEW w \in Writers, Unlock(w) PROVE ForkInv'
    BY <1>2
  <1>3. ASSUME NEW w \in Writers, Refuse(w) PROVE ForkInv'
    BY <1>3
  <1>4. ASSUME NEW w \in Writers, LockDocument(w) PROVE ForkInv'
    BY <1>4, ZenonT(60)
  <1>5. ASSUME NEW w \in Writers, Check(w) PROVE ForkInv'
    BY <1>5, ZenonT(60)
  <1>6. ASSUME NEW w \in Writers, Read(w) PROVE ForkInv'
    BY <1>6, ZenonT(60)
  <1>7. ASSUME NEW w \in Writers, WriteDoc(w) PROVE ForkInv'
    BY <1>7
  <1>8. ASSUME NEW w \in Writers, SaveManifest(w) PROVE ForkInv'
    BY <1>8
  <1>9. ASSUME NEW w \in Writers, UnlockDocument(w) PROVE ForkInv'
    BY <1>9, ZenonT(60)
  <1>10. ASSUME NEW w \in Writers, Adopt(w) PROVE ForkInv'
    BY <1>10, ZenonT(60)
  <1>11. ASSUME NEW w \in Writers, AppendEntry(w) PROVE ForkInv'
    <3> DEFINE entry == [doc |-> cmd[w].doc, content |-> next[w], prev |-> tail[w]]
    <3>1. audit' = Append(audit, entry) /\ entry.prev <= Len(audit) /\ Busy(w) /\ entry.prev \in Nat
      BY <1>11
    <3>2. \A j \in (entry.prev + 1) .. Len(audit) : audit[j].doc = Untracked
      BY <1>11, <3>1
    <3>3. \A i \in 1 .. Len(audit) : audit'[i] = audit[i] /\ audit[i].prev \in Nat
      <4>1. \A i \in 1 .. Len(audit) : audit[i] \in AuditEntry
        OBVIOUS
      <4>2. \A e \in AuditEntry : e.prev \in Nat
        BY DEF AuditEntry
      <4>3. QED
        BY ONLY <3>1, <4>1, <4>2, audit \in Seq(AuditEntry)
    <3>4. Len(audit') = Len(audit) + 1 /\ audit'[Len(audit) + 1] = entry /\ DOMAIN audit' = 1 .. (Len(audit) + 1)
      BY <3>1
    <3>5. ForksExplained'
      BY <3>1, <3>2, <3>3, <3>4
    <3>6. TailBound'
      BY <1>11, <3>4
    <3>7. SkipsSessions'
      <4>1. \A v \in Writers : ~(Busy(v) /\ pc[v] = "append")'
        BY <1>11, <3>1, Alone
      <4>2. QED
        BY <4>1
    <3>8. QED
      BY <3>5, <3>6, <3>7
  <1>12. ASSUME NEW w \in Writers, Preflight(w) PROVE ForkInv'
    BY <1>12
  <1>13. ASSUME NEW w \in Writers, Crash(w) PROVE ForkInv'
    BY <1>13
  <1>14. ASSUME NEW p \in Writers \cup Sessions, ReadTail(p) PROVE ForkInv'
    <3>1. UNCHANGED <<audit, lock, alive>> /\ tail' = [tail EXCEPT ![p] = Len(audit)] /\ pc' = [pc EXCEPT ![p] = "append"]
      BY <1>14
    <3>2. TailBound' /\ ForksExplained'
      BY <3>1
    <3>3. SkipsSessions'
      BY <3>1
    <3>4. QED
      BY <3>2, <3>3
  <1>15. ASSUME NEW s \in Sessions, SessionBegin(s) PROVE ForkInv'
    BY <1>15
  <1>16. ASSUME NEW s \in Sessions, SessionAppend(s) PROVE ForkInv'
    <3> DEFINE entry == [doc |-> Untracked, content |-> Missing, prev |-> tail[s]]
    <3>1. audit' = Append(audit, entry) /\ entry.prev <= Len(audit) /\ entry.prev \in Nat /\ entry.doc = Untracked
      BY <1>16
    <3>2. \A i \in 1 .. Len(audit) : audit'[i] = audit[i] /\ audit[i].prev \in Nat
      <4>1. \A i \in 1 .. Len(audit) : audit[i] \in AuditEntry
        OBVIOUS
      <4>2. \A e \in AuditEntry : e.prev \in Nat
        BY DEF AuditEntry
      <4>3. QED
        BY ONLY <3>1, <4>1, <4>2, audit \in Seq(AuditEntry)
    <3>3. Len(audit') = Len(audit) + 1 /\ audit'[Len(audit) + 1] = entry /\ DOMAIN audit' = 1 .. (Len(audit) + 1)
      BY <3>1
    <3>4. ForksExplained'
      BY <3>1, <3>2, <3>3
    <3>5. TailBound'
      BY <1>16, <3>3
    <3>6. SkipsSessions'
      BY <1>16, <3>1, <3>2, <3>3
    <3>7. QED
      BY <3>4, <3>5, <3>6
  <1>17. ASSUME NEW d \in Docs, Edit(d) PROVE ForkInv'
    BY <1>17
  <1>18. ASSUME NEW d \in Docs, Restore(d) PROVE ForkInv'
    BY <1>18
  <1>19. CASE ClearLock
    BY <1>19
  <1>20. CASE UNCHANGED vars
    BY <1>20 DEF vars, files, locals
  <1>21. QED
    BY <1>1, <1>2, <1>3, <1>4, <1>5, <1>6, <1>7, <1>8, <1>9, <1>10, <1>11, <1>12, <1>13, <1>14, <1>15, <1>16, <1>17, <1>18, <1>19, <1>20, ZenonT(60) DEF Next, Step

(* Entries of commits and adoptions never fork from each other, whatever     *)
(* sessions append between an invocation's read of the log and its append.   *)
THEOREM OnlySessionsFork == Spec => []ForksExplained
<1>1. Init => Typed /\ Exclusive /\ ForkInv
  BY TypedInit, ExclusiveInit DEF Init, ForkInv, TailBound, SkipsSessions, ForksExplained
<1>2. Typed /\ Exclusive /\ ForkInv /\ [Next]_vars => (Typed /\ Exclusive /\ ForkInv)'
  BY TypedInductive, ExclusiveStep, ForkStep
<1>3. ForkInv => ForksExplained
  BY DEF ForkInv
<1>4. QED
  BY <1>1, <1>2, <1>3, PTL DEF Spec
-----------------------------------------------------------------------------
(* A command runs the steps of its kind.                                     *)
KindKept == \A w \in Writers :
    /\ pc[w] \in {"commit", "reconcile", "adopt"} => cmd[w].kind = pc[w]
    /\ pc[w] \in {"check", "read", "write", "unlockDoc"} => cmd[w].kind # "adopt"

LEMMA KindStep == Typed /\ KindKept /\ [Next]_vars => KindKept'
<1> SUFFICES ASSUME TypeOK, KindKept, [Next]_vars PROVE KindKept'
    BY DEF Typed
<1>0. pc \in [Writers \cup Sessions -> Labels] /\ \A w \in Writers : cmd[w].kind \in {"commit", "reconcile", "adopt", "preflight"}
  BY CommandFacts DEF TypeOK
  <1>1. ASSUME NEW w \in Writers, Begin(w) PROVE KindKept'
    <3>1. /\ UNCHANGED cmd
          /\ pc' = [pc EXCEPT ![w] = cmd[w].kind] \/ pc' = [pc EXCEPT ![w] = "done"]
      BY ONLY <1>1 DEF Begin, Goto, Finish, locals
    <3>2. QED
      BY ONLY <3>1, <1>0, KindKept, w \in Writers DEF KindKept
  <1>2. ASSUME NEW w \in Writers, Unlock(w) PROVE KindKept'
    <3>1. /\ UNCHANGED cmd
          /\ pc' = [pc EXCEPT ![w] = pc'[w]] /\ pc'[w] \in {"done"}
      BY ONLY <1>2, <1>0, w \in Writers DEF Unlock, At, Goto, Finish, locals
    <3>2. QED
      BY ONLY <3>1, <1>0, KindKept, w \in Writers DEF KindKept
  <1>3. ASSUME NEW w \in Writers, Refuse(w) PROVE KindKept'
    <3>1. /\ UNCHANGED cmd
          /\ pc' = [pc EXCEPT ![w] = pc'[w]] /\ pc'[w] \in {"unlock"}
      BY ONLY <1>3, <1>0, w \in Writers DEF Refuse, At, Goto, Finish, locals
    <3>2. QED
      BY ONLY <3>1, <1>0, KindKept, w \in Writers DEF KindKept
  <1>4. ASSUME NEW w \in Writers, LockDocument(w) PROVE KindKept'
    <3>1. /\ UNCHANGED cmd /\ pc[w] \in {"commit", "reconcile"}
          /\ pc' = [pc EXCEPT ![w] = pc'[w]] /\ pc'[w] \in {"check", "unlock"}
      BY ONLY <1>4, <1>0, w \in Writers DEF LockDocument, At, Goto, Finish, locals
    <3>2. QED
      BY ONLY <3>1, <1>0, KindKept, w \in Writers DEF KindKept
  <1>5. ASSUME NEW w \in Writers, Check(w) PROVE KindKept'
    <3>1. /\ UNCHANGED cmd /\ pc[w] = "check"
          /\ pc' = [pc EXCEPT ![w] = pc'[w]] /\ pc'[w] \in {"read", "unlockDoc"}
      BY ONLY <1>5, <1>0, w \in Writers DEF Check, At, Goto, Finish, locals
    <3>2. QED
      BY ONLY <3>1, <1>0, KindKept, w \in Writers DEF KindKept
  <1>6. ASSUME NEW w \in Writers, Read(w) PROVE KindKept'
    <3>1. /\ UNCHANGED cmd /\ pc[w] = "read"
          /\ pc' = [pc EXCEPT ![w] = pc'[w]] /\ pc'[w] \in {"write", "unlockDoc"}
      BY ONLY <1>6, <1>0, w \in Writers DEF Read, At, Goto, Finish, locals
    <3>2. QED
      BY ONLY <3>1, <1>0, KindKept, w \in Writers DEF KindKept
  <1>7. ASSUME NEW w \in Writers, WriteDoc(w) PROVE KindKept'
    <3>1. /\ UNCHANGED cmd
          /\ pc' = [pc EXCEPT ![w] = pc'[w]] /\ pc'[w] \in {"save"}
      BY ONLY <1>7, <1>0, w \in Writers DEF WriteDoc, At, Goto, Finish, locals
    <3>2. QED
      BY ONLY <3>1, <1>0, KindKept, w \in Writers DEF KindKept
  <1>8. ASSUME NEW w \in Writers, SaveManifest(w) PROVE KindKept'
    <3>1. /\ UNCHANGED cmd
          /\ pc' = [pc EXCEPT ![w] = pc'[w]] /\ pc'[w] \in {"tail", "unlock"}
      BY ONLY <1>8, <1>0, w \in Writers DEF SaveManifest, At, Goto, Finish, locals
    <3>2. QED
      BY ONLY <3>1, <1>0, KindKept, w \in Writers DEF KindKept
  <1>9. ASSUME NEW w \in Writers, UnlockDocument(w) PROVE KindKept'
    <3>1. /\ UNCHANGED cmd
          /\ pc' = [pc EXCEPT ![w] = pc'[w]] /\ pc'[w] \in {"unlock"}
      BY ONLY <1>9, <1>0, w \in Writers DEF UnlockDocument, At, Goto, Finish, locals
    <3>2. QED
      BY ONLY <3>1, <1>0, KindKept, w \in Writers DEF KindKept
  <1>10. ASSUME NEW w \in Writers, Adopt(w) PROVE KindKept'
    <3>1. /\ UNCHANGED cmd
          /\ pc' = [pc EXCEPT ![w] = pc'[w]] /\ pc'[w] \in {"tail", "unlock"}
      BY ONLY <1>10, <1>0, w \in Writers DEF Adopt, At, Goto, Finish, locals
    <3>2. QED
      BY ONLY <3>1, <1>0, KindKept, w \in Writers DEF KindKept
  <1>11. ASSUME NEW w \in Writers, AppendEntry(w) PROVE KindKept'
    <3>1. /\ UNCHANGED cmd /\ (pc'[w] = "unlockDoc" => cmd[w].kind # "adopt")
          /\ pc' = [pc EXCEPT ![w] = pc'[w]] /\ pc'[w] \in {"save", "unlockDoc"}
      BY ONLY <1>11, <1>0, w \in Writers DEF AppendEntry, At, Goto, Finish, locals
    <3>2. QED
      BY ONLY <3>1, <1>0, KindKept, w \in Writers DEF KindKept
  <1>12. ASSUME NEW w \in Writers, Preflight(w) PROVE KindKept'
    <3>1. /\ UNCHANGED cmd
          /\ pc' = [pc EXCEPT ![w] = pc'[w]] /\ pc'[w] \in {"unlock"}
      BY ONLY <1>12, <1>0, w \in Writers DEF Preflight, At, Goto, Finish, locals
    <3>2. QED
      BY ONLY <3>1, <1>0, KindKept, w \in Writers DEF KindKept
  <1>13. ASSUME NEW w \in Writers, Crash(w) PROVE KindKept'
    BY ONLY <1>13, KindKept DEF Crash, KindKept, locals
  <1>14. ASSUME NEW p \in Writers \cup Sessions, ReadTail(p) PROVE KindKept'
    BY ONLY <1>14, <1>0, KindKept, p \in Writers \cup Sessions DEF ReadTail, Goto, KindKept
  <1>15. ASSUME NEW s \in Sessions, SessionBegin(s) PROVE KindKept'
    BY ONLY <1>15, <1>0, KindKept, s \in Sessions, LockFacts DEF SessionBegin, Goto, KindKept, locals
  <1>16. ASSUME NEW s \in Sessions, SessionAppend(s) PROVE KindKept'
    BY ONLY <1>16, <1>0, KindKept, s \in Sessions, LockFacts DEF SessionAppend, Goto, KindKept, locals
  <1>17. ASSUME NEW d \in Docs, Edit(d) PROVE KindKept'
    BY ONLY <1>17, KindKept DEF Edit, KindKept, locals
  <1>18. ASSUME NEW d \in Docs, Restore(d) PROVE KindKept'
    BY ONLY <1>18, KindKept DEF Restore, KindKept, locals
  <1>19. CASE ClearLock
    BY ONLY <1>19, KindKept DEF ClearLock, KindKept, locals
  <1>20. CASE UNCHANGED vars
    BY ONLY <1>20, KindKept DEF vars, locals, KindKept
  <1>21. QED
    BY <1>1, <1>2, <1>3, <1>4, <1>5, <1>6, <1>7, <1>8, <1>9, <1>10, <1>11, <1>12, <1>13, <1>14, <1>15, <1>16, <1>17, <1>18, <1>19, <1>20, ZenonT(60) DEF Next, Step

(* Between its reads and its rewrite of the manifest nothing moves under an   *)
(* invocation except the document, which somebody may edit; under an adoption*)
(* not even that, for there is nothing tracked to edit.                      *)
AdoptHolds == \A w \in Writers :
    Busy(w) /\ cmd[w].kind = "adopt" /\ pc[w] \in {"tail", "append", "save"} =>
        manifest[cmd[w].doc] = Untracked /\ doc[cmd[w].doc] = next[w] /\ loaded[w] = manifest

WriteLoaded == \A w \in Writers :
    Busy(w) /\ pc[w] \in {"read", "write", "save"} => loaded[w] = manifest

WrittenHolds == \A w \in Writers :
    Busy(w) /\ pc[w] = "save" => \/ doc[cmd[w].doc] \in {next[w], Missing}
                                 \/ doc[cmd[w].doc].edited

TearInv == KindKept /\ AdoptHolds /\ WriteLoaded /\ WrittenHolds /\ TearExplained

Aside == {"idle", "commit", "reconcile", "adopt", "preflight", "check", "unlockDoc", "unlock", "done"}

(* Steps outside the window between the reads and the last write.            *)
LEMMA TearAside ==
    ASSUME TypeOK, TearInv, KindKept', UNCHANGED <<doc, manifest, cmd, loaded, next>>,
           \A v \in Writers : alive'[v] => alive[v],
           \A v \in Writers : pc'[v] = pc[v] \/ (pc'[v] \in Aside /\ pc[v] \in Aside)
    PROVE  TearInv'
<1>1. \A v \in Writers : pc'[v] \notin Aside \/ pc[v] \notin Aside => pc'[v] = pc[v]
  OBVIOUS
<1>2. \A v \in Writers : Busy(v)' /\ pc'[v] \notin Aside => Busy(v) /\ pc'[v] = pc[v]
  BY <1>1 DEF Busy, Aside
<1>3. \A l \in {"read", "write", "save", "tail", "append"} : l \notin Aside
  BY DEF Aside
<1>4. AdoptHolds' /\ WriteLoaded' /\ WrittenHolds'
  BY <1>2, <1>3 DEF TearInv, AdoptHolds, WriteLoaded, WrittenHolds
<1>5. TearExplained'
  BY <1>1, <1>3 DEF TearInv, TearExplained
<1>6. QED
  BY <1>4, <1>5 DEF TearInv

LEMMA TearStep == Typed /\ Exclusive /\ TearInv /\ [Next]_vars => TearInv'
<1> SUFFICES ASSUME TypeOK, NextTyped, Exclusive, TearInv, [Next]_vars PROVE TearInv'
    BY DEF Typed
<1> USE LockFacts, CommandFacts DEF TypeOK, Busy
  <1>1. ASSUME NEW w \in Writers, Begin(w) PROVE TearInv'
    <3>0. KindKept'
      BY ONLY KindStep, TypeOK, NextTyped, TearInv, [Next]_vars DEF Typed, TearInv
    <3>1. /\ UNCHANGED <<doc, manifest, cmd, loaded, next>>
          /\ \A v \in Writers : alive'[v] => alive[v]
          /\ \A v \in Writers : pc'[v] = pc[v] \/ (pc'[v] \in Aside /\ pc[v] \in Aside)
      BY <1>1 DEF Aside
    <3>2. QED
      BY ONLY <3>0, <3>1, TearAside, TypeOK, TearInv
  <1>2. ASSUME NEW w \in Writers, Unlock(w) PROVE TearInv'
    <3>0. KindKept'
      BY ONLY KindStep, TypeOK, NextTyped, TearInv, [Next]_vars DEF Typed, TearInv
    <3>1. /\ UNCHANGED <<doc, manifest, cmd, loaded, next>>
          /\ \A v \in Writers : alive'[v] => alive[v]
          /\ \A v \in Writers : pc'[v] = pc[v] \/ (pc'[v] \in Aside /\ pc[v] \in Aside)
      BY <1>2 DEF Aside
    <3>2. QED
      BY ONLY <3>0, <3>1, TearAside, TypeOK, TearInv
  <1>3. ASSUME NEW w \in Writers, Refuse(w) PROVE TearInv'
    <3>0. KindKept'
      BY ONLY KindStep, TypeOK, NextTyped, TearInv, [Next]_vars DEF Typed, TearInv
    <3>1. /\ UNCHANGED <<doc, manifest, cmd, loaded, next>>
          /\ \A v \in Writers : alive'[v] => alive[v]
          /\ \A v \in Writers : pc'[v] = pc[v] \/ (pc'[v] \in Aside /\ pc[v] \in Aside)
      BY <1>3 DEF Aside
    <3>2. QED
      BY ONLY <3>0, <3>1, TearAside, TypeOK, TearInv
  <1>4. ASSUME NEW w \in Writers, LockDocument(w) PROVE TearInv'
    <3>0. KindKept'
      BY ONLY KindStep, TypeOK, NextTyped, TearInv, [Next]_vars DEF Typed, TearInv
    <3>1. /\ UNCHANGED <<doc, manifest, cmd, loaded, next>>
          /\ \A v \in Writers : alive'[v] => alive[v]
          /\ \A v \in Writers : pc'[v] = pc[v] \/ (pc'[v] \in Aside /\ pc[v] \in Aside)
      BY <1>4 DEF Aside
    <3>2. QED
      BY ONLY <3>0, <3>1, TearAside, TypeOK, TearInv
  <1>5. ASSUME NEW w \in Writers, Check(w) PROVE TearInv'
    <3>0. KindKept'
      BY ONLY KindStep, TypeOK, NextTyped, TearInv, [Next]_vars DEF Typed, TearInv
    <3>1. /\ UNCHANGED <<doc, manifest, cmd, next, alive>> /\ Busy(w) /\ pc[w] = "check"
          /\ pc' = [pc EXCEPT ![w] = pc'[w]] /\ pc'[w] \in {"read", "unlockDoc"}
          /\ loaded' = [loaded EXCEPT ![w] = manifest]
      BY <1>5
    <3>2. /\ \A v \in Writers : v # w => pc'[v] = pc[v] /\ loaded'[v] = loaded[v] /\ next'[v] = next[v]
          /\ \A v \in Writers : Busy(v) => v = w
          /\ \A v \in Writers : Busy(v)' => Busy(v)
      BY <3>1, Alone
    <3>3. AdoptHolds'
      BY <3>0, <3>1, <3>2 DEF TearInv, AdoptHolds, KindKept
    <3>4. WriteLoaded' /\ WrittenHolds'
      BY <3>1, <3>2 DEF TearInv, KindKept, WriteLoaded, WrittenHolds
    <3>5. \A v \in Writers : pc[v] = "save" => pc'[v] = "save" /\ next'[v] = next[v]
      BY <3>1, <3>2
    <3>6. TearExplained'
      BY ONLY <3>1, <3>5, TearInv DEF TearInv, TearExplained
    <3>7. QED
      BY <3>0, <3>3, <3>4, <3>6 DEF TearInv
  <1>6. ASSUME NEW w \in Writers, Read(w) PROVE TearInv'
    <3>0. KindKept'
      BY ONLY KindStep, TypeOK, NextTyped, TearInv, [Next]_vars DEF Typed, TearInv
    <3>1. /\ UNCHANGED <<doc, manifest, cmd, loaded, alive>> /\ Busy(w) /\ pc[w] = "read"
          /\ pc' = [pc EXCEPT ![w] = pc'[w]] /\ pc'[w] \in {"write", "unlockDoc"}
          /\ next' = [next EXCEPT ![w] = next'[w]]
      BY <1>6
    <3>2. /\ \A v \in Writers : v # w => pc'[v] = pc[v] /\ loaded'[v] = loaded[v] /\ next'[v] = next[v]
          /\ \A v \in Writers : Busy(v) => v = w
          /\ \A v \in Writers : Busy(v)' => Busy(v)
      BY <3>1, Alone
    <3>3. AdoptHolds'
      BY <3>0, <3>1, <3>2 DEF TearInv, AdoptHolds, KindKept
    <3>4. WriteLoaded' /\ WrittenHolds'
      BY <3>1, <3>2 DEF TearInv, KindKept, WriteLoaded, WrittenHolds
    <3>5. \A v \in Writers : pc[v] = "save" => pc'[v] = "save" /\ next'[v] = next[v]
      BY <3>1, <3>2
    <3>6. TearExplained'
      BY ONLY <3>1, <3>5, TearInv DEF TearInv, TearExplained
    <3>7. QED
      BY <3>0, <3>3, <3>4, <3>6 DEF TearInv
  <1>7. ASSUME NEW w \in Writers, WriteDoc(w) PROVE TearInv'
    <3>0. KindKept'
      BY ONLY KindStep, TypeOK, NextTyped, TearInv, [Next]_vars DEF Typed, TearInv
    <3>1. /\ UNCHANGED <<manifest, cmd, loaded, next, alive>> /\ Busy(w) /\ pc[w] = "write"
          /\ pc' = [pc EXCEPT ![w] = "save"] /\ doc' = [doc EXCEPT ![cmd[w].doc] = next[w]]
      BY <1>7
    <3>2. cmd[w].kind # "adopt" /\ \A v \in Writers : Busy(v) => v = w
      BY <3>1, Alone DEF TearInv, KindKept
    <3>3. AdoptHolds' /\ WriteLoaded' /\ WrittenHolds'
      BY <3>1, <3>2 DEF TearInv, AdoptHolds, WriteLoaded, WrittenHolds
    <3>4. TearExplained'
      BY <3>1 DEF TearInv, TearExplained
    <3>5. QED
      BY <3>0, <3>3, <3>4 DEF TearInv
  <1>8. ASSUME NEW w \in Writers, SaveManifest(w) PROVE TearInv'
    <3>0. KindKept'
      BY ONLY KindStep, TypeOK, NextTyped, TearInv, [Next]_vars DEF Typed, TearInv
    <3> DEFINE d == cmd[w].doc
    <3>1. /\ UNCHANGED <<doc, cmd, next, alive>> /\ Busy(w) /\ pc[w] = "save"
          /\ pc' = [pc EXCEPT ![w] = pc'[w]] /\ pc'[w] \in {"unlock", "tail"}
          /\ pc'[w] = "tail" => cmd[w].kind # "adopt"
          /\ manifest' = [loaded[w] EXCEPT ![d] = next[w]]
      BY <1>8
    <3>2. manifest' = [manifest EXCEPT ![d] = next[w]]
      BY <3>1 DEF TearInv, WriteLoaded
    <3>3. \A v \in Writers : Busy(v) => v = w
      BY <3>1, Alone
    <3>4. AdoptHolds' /\ WriteLoaded' /\ WrittenHolds'
      BY <3>1, <3>3 DEF AdoptHolds, WriteLoaded, WrittenHolds
    <3>5. doc[d] = manifest'[d] \/ doc[d] = Missing \/ doc[d].edited
      BY <3>1, <3>2 DEF TearInv, WrittenHolds
    <3>6. \A e \in Docs : e # d => manifest'[e] = manifest[e]
      BY <3>2
    <3>7. \A v \in Writers : pc[v] = "save" /\ cmd[v].doc # d => pc'[v] = "save"
      BY <3>1
    <3>8. TearExplained'
      BY <3>1, <3>5, <3>6, <3>7 DEF TearInv, TearExplained
    <3>9. QED
      BY <3>0, <3>4, <3>8 DEF TearInv
  <1>9. ASSUME NEW w \in Writers, UnlockDocument(w) PROVE TearInv'
    <3>0. KindKept'
      BY ONLY KindStep, TypeOK, NextTyped, TearInv, [Next]_vars DEF Typed, TearInv
    <3>1. /\ UNCHANGED <<doc, manifest, cmd, loaded, next>>
          /\ \A v \in Writers : alive'[v] => alive[v]
          /\ \A v \in Writers : pc'[v] = pc[v] \/ (pc'[v] \in Aside /\ pc[v] \in Aside)
      BY <1>9 DEF Aside
    <3>2. QED
      BY ONLY <3>0, <3>1, TearAside, TypeOK, TearInv
  <1>10. ASSUME NEW w \in Writers, Adopt(w) PROVE TearInv'
    <3>0. KindKept'
      BY ONLY KindStep, TypeOK, NextTyped, TearInv, [Next]_vars DEF Typed, TearInv
    <3>1. /\ UNCHANGED <<doc, manifest, cmd, alive>> /\ Busy(w) /\ pc[w] = "adopt"
          /\ pc' = [pc EXCEPT ![w] = pc'[w]] /\ pc'[w] \in {"tail", "unlock"}
          /\ loaded' = [loaded EXCEPT ![w] = loaded'[w]] /\ next' = [next EXCEPT ![w] = next'[w]]
          /\ pc'[w] = "tail" => /\ loaded'[w] = manifest /\ manifest[cmd[w].doc] = Untracked
                               /\ next'[w] = doc[cmd[w].doc]
      BY <1>10
    <3>2. /\ \A v \in Writers : v # w => pc'[v] = pc[v] /\ loaded'[v] = loaded[v] /\ next'[v] = next[v]
          /\ \A v \in Writers : Busy(v) => v = w
          /\ \A v \in Writers : Busy(v)' => Busy(v)
      BY <3>1, Alone
    <3>3. AdoptHolds'
      BY <3>0, <3>1, <3>2 DEF TearInv, AdoptHolds, KindKept
    <3>4. WriteLoaded' /\ WrittenHolds'
      BY <3>1, <3>2 DEF TearInv, KindKept, WriteLoaded, WrittenHolds
    <3>5. \A v \in Writers : pc[v] = "save" => pc'[v] = "save" /\ next'[v] = next[v]
      BY <3>1, <3>2
    <3>6. TearExplained'
      BY ONLY <3>1, <3>5, TearInv DEF TearInv, TearExplained
    <3>7. QED
      BY <3>0, <3>3, <3>4, <3>6 DEF TearInv
  <1>11. ASSUME NEW w \in Writers, AppendEntry(w) PROVE TearInv'
    <3>0. KindKept'
      BY ONLY KindStep, TypeOK, NextTyped, TearInv, [Next]_vars DEF Typed, TearInv
    <3>1. /\ UNCHANGED <<doc, manifest, cmd, loaded, next, alive>> /\ Busy(w) /\ pc[w] = "append"
          /\ pc' = [pc EXCEPT ![w] = pc'[w]] /\ pc'[w] = IF cmd[w].kind = "adopt" THEN "save" ELSE "unlockDoc"
      BY <1>11
    <3>2. /\ \A v \in Writers : v # w => pc'[v] = pc[v]
          /\ \A v \in Writers : Busy(v)' => Busy(v) /\ v = w
      BY <3>1, Alone
    <3>3. AdoptHolds'
      BY <3>1, <3>2 DEF TearInv, AdoptHolds
    <3>4. WriteLoaded' /\ WrittenHolds'
      BY <3>1, <3>2 DEF TearInv, AdoptHolds, WriteLoaded, WrittenHolds
    <3>5. \A v \in Writers : pc[v] = "save" => pc'[v] = "save"
      BY <3>1, <3>2
    <3>6. TearExplained'
      BY ONLY <3>1, <3>5, TearInv DEF TearInv, TearExplained
    <3>7. QED
      BY <3>0, <3>3, <3>4, <3>6 DEF TearInv
  <1>12. ASSUME NEW w \in Writers, Preflight(w) PROVE TearInv'
    <3>0. KindKept'
      BY ONLY KindStep, TypeOK, NextTyped, TearInv, [Next]_vars DEF Typed, TearInv
    <3>1. /\ UNCHANGED <<doc, manifest, cmd, loaded, next>>
          /\ \A v \in Writers : alive'[v] => alive[v]
          /\ \A v \in Writers : pc'[v] = pc[v] \/ (pc'[v] \in Aside /\ pc[v] \in Aside)
      BY <1>12 DEF Aside
    <3>2. QED
      BY ONLY <3>0, <3>1, TearAside, TypeOK, TearInv
  <1>13. ASSUME NEW w \in Writers, Crash(w) PROVE TearInv'
    <3>0. KindKept'
      BY ONLY KindStep, TypeOK, NextTyped, TearInv, [Next]_vars DEF Typed, TearInv
    <3>1. /\ UNCHANGED <<doc, manifest, cmd, loaded, next>>
          /\ \A v \in Writers : alive'[v] => alive[v]
          /\ \A v \in Writers : pc'[v] = pc[v] \/ (pc'[v] \in Aside /\ pc[v] \in Aside)
      BY <1>13 DEF Aside
    <3>2. QED
      BY ONLY <3>0, <3>1, TearAside, TypeOK, TearInv
  <1>14. ASSUME NEW p \in Writers \cup Sessions, ReadTail(p) PROVE TearInv'
    <3>0. KindKept'
      BY ONLY KindStep, TypeOK, NextTyped, TearInv, [Next]_vars DEF Typed, TearInv
    <3>1. /\ UNCHANGED <<doc, manifest, cmd, loaded, next, alive>> /\ pc[p] = "tail"
          /\ pc' = [pc EXCEPT ![p] = "append"]
      BY <1>14
    <3>2. AdoptHolds' /\ WriteLoaded' /\ WrittenHolds'
      BY <3>1 DEF TearInv, AdoptHolds, WriteLoaded, WrittenHolds
    <3>3. TearExplained'
      BY <3>1 DEF TearInv, TearExplained
    <3>4. QED
      BY <3>0, <3>2, <3>3 DEF TearInv
  <1>15. ASSUME NEW s \in Sessions, SessionBegin(s) PROVE TearInv'
    <3>0. KindKept'
      BY ONLY KindStep, TypeOK, NextTyped, TearInv, [Next]_vars DEF Typed, TearInv
    <3>1. /\ UNCHANGED <<doc, manifest, cmd, loaded, next>>
          /\ \A v \in Writers : alive'[v] => alive[v]
          /\ \A v \in Writers : pc'[v] = pc[v] \/ (pc'[v] \in Aside /\ pc[v] \in Aside)
      BY <1>15 DEF Aside
    <3>2. QED
      BY ONLY <3>0, <3>1, TearAside, TypeOK, TearInv
  <1>16. ASSUME NEW s \in Sessions, SessionAppend(s) PROVE TearInv'
    <3>0. KindKept'
      BY ONLY KindStep, TypeOK, NextTyped, TearInv, [Next]_vars DEF Typed, TearInv
    <3>1. /\ UNCHANGED <<doc, manifest, cmd, loaded, next>>
          /\ \A v \in Writers : alive'[v] => alive[v]
          /\ \A v \in Writers : pc'[v] = pc[v] \/ (pc'[v] \in Aside /\ pc[v] \in Aside)
      BY <1>16 DEF Aside
    <3>2. QED
      BY ONLY <3>0, <3>1, TearAside, TypeOK, TearInv
  <1>17. ASSUME NEW d \in Docs, Edit(d) PROVE TearInv'
    <3>0. KindKept'
      BY ONLY KindStep, TypeOK, NextTyped, TearInv, [Next]_vars DEF Typed, TearInv
    <3>1. /\ UNCHANGED <<manifest, cmd, loaded, next, alive, pc>> /\ manifest[d] # Untracked
          /\ doc[d] \in Content /\ \A e \in Docs : e # d => doc'[e] = doc[e]
          /\ doc'[d] \in {Missing, [doc[d] EXCEPT !.edited = TRUE]}
      BY <1>17
    <3>2. doc'[d] = Missing \/ doc'[d].edited
      BY <3>1 DEF Content
    <3>3. AdoptHolds'
      <4> SUFFICES ASSUME NEW w \in Writers, Busy(w), cmd[w].kind = "adopt", pc[w] \in {"tail", "append", "save"}
                   PROVE manifest[cmd[w].doc] = Untracked /\ doc'[cmd[w].doc] = next[w] /\ loaded[w] = manifest
        BY <3>1 DEF AdoptHolds
      <4>1. manifest[cmd[w].doc] = Untracked /\ doc[cmd[w].doc] = next[w] /\ loaded[w] = manifest
        BY DEF TearInv, AdoptHolds
      <4>2. QED
        BY <3>1, <4>1
    <3>4. WriteLoaded' /\ WrittenHolds'
      BY <3>1, <3>2 DEF TearInv, WriteLoaded, WrittenHolds
    <3>5. ASSUME NEW e \in Docs, manifest'[e] # Untracked, doc'[e] # manifest'[e]
          PROVE \/ doc'[e] = Missing \/ doc'[e].edited
                \/ \E w \in Writers : pc'[w] = "save" /\ cmd'[w].doc = e /\ next'[w] = doc'[e]
      BY ONLY <3>1, <3>2, <3>5, TearInv DEF TearInv, TearExplained
    <3>6. TearExplained'
      BY ONLY <3>5 DEF TearExplained
    <3>7. QED
      BY <3>0, <3>3, <3>4, <3>6 DEF TearInv
  <1>18. ASSUME NEW d \in Docs, Restore(d) PROVE TearInv'
    <3>0. KindKept'
      BY ONLY KindStep, TypeOK, NextTyped, TearInv, [Next]_vars DEF Typed, TearInv
    <3>1. /\ UNCHANGED <<manifest, cmd, loaded, next, alive, pc>> /\ lock \notin Writers
          /\ doc' = [doc EXCEPT ![d] = manifest[d]]
      BY <1>18
    <3>2. \A v \in Writers : ~Busy(v) /\ ~Busy(v)'
      BY <3>1 DEF Exclusive
    <3>3. AdoptHolds' /\ WriteLoaded' /\ WrittenHolds'
      BY <3>2 DEF AdoptHolds, WriteLoaded, WrittenHolds
    <3>4. TearExplained'
      BY <3>1 DEF TearInv, TearExplained
    <3>5. QED
      BY <3>0, <3>3, <3>4 DEF TearInv
  <1>19. CASE ClearLock
    <3>0. KindKept'
      BY ONLY KindStep, TypeOK, NextTyped, TearInv, [Next]_vars DEF Typed, TearInv
    <3>1. /\ UNCHANGED <<doc, manifest, cmd, loaded, next>>
          /\ \A v \in Writers : alive'[v] => alive[v]
          /\ \A v \in Writers : pc'[v] = pc[v] \/ (pc'[v] \in Aside /\ pc[v] \in Aside)
      BY <1>19 DEF Aside
    <3>2. QED
      BY ONLY <3>0, <3>1, TearAside, TypeOK, TearInv
  <1>20. CASE UNCHANGED vars
    <3>0. KindKept'
      BY ONLY KindStep, TypeOK, NextTyped, TearInv, [Next]_vars DEF Typed, TearInv
    <3>1. /\ UNCHANGED <<doc, manifest, cmd, loaded, next>>
          /\ \A v \in Writers : alive'[v] => alive[v]
          /\ \A v \in Writers : pc'[v] = pc[v] \/ (pc'[v] \in Aside /\ pc[v] \in Aside)
      BY <1>20 DEF vars
    <3>2. QED
      BY ONLY <3>0, <3>1, TearAside, TypeOK, TearInv
  <1>21. QED
    BY <1>1, <1>2, <1>3, <1>4, <1>5, <1>6, <1>7, <1>8, <1>9, <1>10, <1>11, <1>12, <1>13, <1>14, <1>15, <1>16, <1>17, <1>18, <1>19, <1>20, ZenonT(60) DEF Next, Step

LEMMA TearInit == Init => TearInv
BY ReducerAssumption DEF Init, TearInv, KindKept, AdoptHolds, WriteLoaded, WrittenHolds, TearExplained, Busy, Commands

(* A tracked document differs from its manifest entry only if somebody       *)
(* edited or deleted it, or an invocation is (or died) between the write of  *)
(* the document and that of the manifest, whatever edits come meanwhile.     *)
THEOREM TearsExplained == Spec => []TearExplained
<1>1. Init => Typed /\ Exclusive /\ TearInv
  BY TypedInit, ExclusiveInit, TearInit
<1>2. Typed /\ Exclusive /\ TearInv /\ [Next]_vars => (Typed /\ Exclusive /\ TearInv)'
  BY TypedInductive, ExclusiveStep, TearStep
<1>3. TearInv => TearExplained
  BY DEF TearInv
<1>4. QED
  BY <1>1, <1>2, <1>3, PTL DEF Spec
-----------------------------------------------------------------------------
(* The last entry of a document records this content.                        *)
LastOf(d, content) == \E i \in EntriesOf(d) : /\ audit[i].content = content
                                              /\ \A j \in EntriesOf(d) : j <= i

GapOf(w, d) == /\ cmd[w].doc = d
               /\ pc[w] \in {"tail", "append"} /\ cmd[w].kind # "adopt" /\ next[w] = manifest[d]

AdoptLogged == \A w \in Writers :
    Busy(w) /\ cmd[w].kind = "adopt" /\ pc[w] = "save" => LastOf(cmd[w].doc, next[w])

CommitSaved == \A w \in Writers :
    Busy(w) /\ cmd[w].kind # "adopt" /\ pc[w] \in {"tail", "append"} => manifest[cmd[w].doc] = next[w]

AuditInv == /\ AdoptLogged /\ CommitSaved
            /\ \A d \in Docs : manifest[d] # Untracked /\ ~Audited(d) => \E w \in Writers : GapOf(w, d)

(* A process that records nothing keeps the gap it stands for, and opens none. *)
KeepsGap(v) ==
    /\ alive'[v] => alive[v]
    /\ pc[v] \in {"tail", "append"} => pc'[v] \in {"tail", "append"} /\ next'[v] = next[v]
    /\ cmd[v].kind # "adopt" /\ pc'[v] \in {"tail", "append"} => pc[v] \in {"tail", "append"}
    /\ cmd[v].kind = "adopt" /\ pc'[v] = "save" => pc[v] = "save" /\ next'[v] = next[v]

(* An entry becomes the last one of its document and leaves the others'.     *)
LEMMA Appended ==
    ASSUME audit \in Seq(AuditEntry), NEW e \in AuditEntry, audit' = Append(audit, e), NEW d
    PROVE  /\ e.doc # d => EntriesOf(d)' = EntriesOf(d) /\ \A i \in EntriesOf(d) : audit'[i] = audit[i]
           /\ e.doc = d => \E i \in EntriesOf(d)' : audit'[i].content = e.content /\ \A j \in EntriesOf(d)' : j <= i
<1>1. /\ DOMAIN audit = 1 .. Len(audit) /\ Len(audit) \in Nat
      /\ DOMAIN audit' = 1 .. (Len(audit) + 1) /\ audit'[Len(audit) + 1] = e
      /\ \A i \in 1 .. Len(audit) : audit'[i] = audit[i]
  OBVIOUS
<1>2. EntriesOf(d)' = {i \in 1 .. (Len(audit) + 1) : audit'[i].doc = d}
  BY <1>1 DEF EntriesOf
<1>3. CASE e.doc # d
  BY <1>1, <1>2, <1>3 DEF EntriesOf
<1>4. CASE e.doc = d
  <2>1. Len(audit) + 1 \in EntriesOf(d)' /\ audit'[Len(audit) + 1].content = e.content
    BY <1>1, <1>2, <1>4
  <2>2. \A j \in EntriesOf(d)' : j <= Len(audit) + 1
    BY <1>1, <1>2
  <2>3. QED
    BY <1>4, <2>1, <2>2
<1>5. QED
  BY <1>3, <1>4

LEMMA AuditAside ==
    ASSUME TypeOK, AuditInv, UNCHANGED <<manifest, audit, cmd>>, \A v \in Writers : KeepsGap(v)
    PROVE  AuditInv'
<1>1. \A d \in Docs : /\ Audited(d)' <=> Audited(d)
                      /\ \A w \in Writers : next'[w] = next[w] => (LastOf(d, next[w])' <=> LastOf(d, next[w]))
  BY DEF Audited, LastOf, EntriesOf
<1>2. \A v \in Writers : cmd[v].doc \in Docs
  BY CommandFacts
<1>3. AdoptLogged'
  BY <1>1, <1>2 DEF AuditInv, AdoptLogged, KeepsGap, Busy
<1>4. CommitSaved'
  BY DEF AuditInv, CommitSaved, KeepsGap, Busy
<1>5. \A d \in Docs, w \in Writers : GapOf(w, d) => GapOf(w, d)'
  BY DEF GapOf, KeepsGap
<1>6. QED
  BY <1>1, <1>3, <1>4, <1>5 DEF AuditInv

LEMMA AuditStep == Typed /\ Exclusive /\ TearInv /\ AuditInv /\ [Next]_vars => AuditInv'
<1> SUFFICES ASSUME TypeOK, NextTyped, Exclusive, TearInv, AuditInv, [Next]_vars PROVE AuditInv'
    BY DEF Typed
<1>0. KindKept
  BY DEF TearInv
<1> USE LockFacts, CommandFacts DEF TypeOK, Busy
  <1>1. ASSUME NEW w \in Writers, Begin(w) PROVE AuditInv'
    <3>1. /\ UNCHANGED <<manifest, audit, cmd>>
          /\ \A v \in Writers : KeepsGap(v)
      BY <1>1 DEF KeepsGap
    <3>2. QED
      BY ONLY <3>1, AuditAside, TypeOK, AuditInv
  <1>2. ASSUME NEW w \in Writers, Unlock(w) PROVE AuditInv'
    <3>1. /\ UNCHANGED <<manifest, audit, cmd>>
          /\ \A v \in Writers : KeepsGap(v)
      BY <1>2 DEF KeepsGap
    <3>2. QED
      BY ONLY <3>1, AuditAside, TypeOK, AuditInv
  <1>3. ASSUME NEW w \in Writers, Refuse(w) PROVE AuditInv'
    <3>1. /\ UNCHANGED <<manifest, audit, cmd>>
          /\ \A v \in Writers : KeepsGap(v)
      BY <1>3 DEF KeepsGap
    <3>2. QED
      BY ONLY <3>1, AuditAside, TypeOK, AuditInv
  <1>4. ASSUME NEW w \in Writers, LockDocument(w) PROVE AuditInv'
    <3>1. /\ UNCHANGED <<manifest, audit, cmd>>
          /\ \A v \in Writers : KeepsGap(v)
      BY <1>4 DEF KeepsGap
    <3>2. QED
      BY ONLY <3>1, AuditAside, TypeOK, AuditInv
  <1>5. ASSUME NEW w \in Writers, Check(w) PROVE AuditInv'
    <3>1. /\ UNCHANGED <<manifest, audit, cmd>>
          /\ \A v \in Writers : KeepsGap(v)
      BY <1>5 DEF KeepsGap
    <3>2. QED
      BY ONLY <3>1, AuditAside, TypeOK, AuditInv
  <1>6. ASSUME NEW w \in Writers, Read(w) PROVE AuditInv'
    <3>1. /\ UNCHANGED <<manifest, audit, cmd>>
          /\ \A v \in Writers : KeepsGap(v)
      BY <1>6 DEF KeepsGap
    <3>2. QED
      BY ONLY <3>1, AuditAside, TypeOK, AuditInv
  <1>7. ASSUME NEW w \in Writers, WriteDoc(w) PROVE AuditInv'
    <3>1. /\ UNCHANGED <<manifest, audit, cmd>>
          /\ \A v \in Writers : KeepsGap(v)
      BY <1>7, <1>0 DEF KeepsGap, KindKept
    <3>2. QED
      BY ONLY <3>1, AuditAside, TypeOK, AuditInv
  <1>8. ASSUME NEW w \in Writers, SaveManifest(w) PROVE AuditInv'
    <3> DEFINE d == cmd[w].doc
    <3>1. /\ UNCHANGED <<audit, cmd, next, alive>> /\ Busy(w) /\ pc[w] = "save"
          /\ pc' = [pc EXCEPT ![w] = pc'[w]]
          /\ pc'[w] = IF cmd[w].kind = "adopt" THEN "unlock" ELSE "tail"
          /\ manifest' = [loaded[w] EXCEPT ![d] = next[w]]
      BY <1>8
    <3>2. manifest' = [manifest EXCEPT ![d] = next[w]] /\ d \in Docs
      BY <3>1 DEF TearInv, WriteLoaded
    <3>3. \A v \in Writers : Busy(v)' => v = w
      BY <3>1, Alone
    <3>4. AdoptLogged' /\ CommitSaved'
      BY <3>1, <3>2, <3>3 DEF AdoptLogged, CommitSaved
    <3>5. ASSUME NEW e \in Docs, manifest'[e] # Untracked, ~Audited(e)'
          PROVE \E v \in Writers : GapOf(v, e)'
      <4>1. CASE e = d /\ cmd[w].kind = "adopt"
        <5>1. LastOf(d, next[w])
          BY <3>1, <4>1 DEF AuditInv, AdoptLogged
        <5>2. Audited(e)'
          BY <3>1, <3>2, <4>1, <5>1 DEF Audited, LastOf, EntriesOf
        <5>3. QED
          BY <3>5, <5>2
      <4>2. CASE e = d /\ cmd[w].kind # "adopt"
        BY <3>1, <3>2, <4>2 DEF GapOf
      <4>3. CASE e # d
        <5>1. manifest'[e] = manifest[e] /\ ~Audited(e)
          BY <3>1, <3>2, <3>5, <4>3 DEF Audited, EntriesOf
        <5>2. PICK v \in Writers : GapOf(v, e)
          BY <3>5, <5>1 DEF AuditInv
        <5>3. GapOf(v, e)'
          BY <3>1, <5>1, <5>2 DEF GapOf
        <5>4. QED
          BY <5>3
      <4>4. QED
        BY <4>1, <4>2, <4>3
    <3>6. QED
      BY <3>4, <3>5 DEF AuditInv
  <1>9. ASSUME NEW w \in Writers, UnlockDocument(w) PROVE AuditInv'
    <3>1. /\ UNCHANGED <<manifest, audit, cmd>>
          /\ \A v \in Writers : KeepsGap(v)
      BY <1>9 DEF KeepsGap
    <3>2. QED
      BY ONLY <3>1, AuditAside, TypeOK, AuditInv
  <1>10. ASSUME NEW w \in Writers, Adopt(w) PROVE AuditInv'
    <3>1. /\ UNCHANGED <<manifest, audit, cmd>>
          /\ \A v \in Writers : KeepsGap(v)
      BY <1>10, <1>0 DEF KeepsGap, KindKept
    <3>2. QED
      BY ONLY <3>1, AuditAside, TypeOK, AuditInv
  <1>11. ASSUME NEW w \in Writers, AppendEntry(w) PROVE AuditInv'
    <3> DEFINE d == cmd[w].doc
               entry == [doc |-> d, content |-> next[w], prev |-> tail[w]]
    <3>1. /\ UNCHANGED <<manifest, cmd, next, alive>> /\ Busy(w) /\ pc[w] = "append"
          /\ pc' = [pc EXCEPT ![w] = pc'[w]]
          /\ pc'[w] = IF cmd[w].kind = "adopt" THEN "save" ELSE "unlockDoc"
          /\ audit' = Append(audit, entry)
      BY <1>11
    <3>2. d \in Docs /\ next[w] \in Content /\ entry \in AuditEntry /\ entry.doc = d /\ entry.content = next[w]
      BY <3>1, EntryTyped DEF NextTyped
    <3>3. \A v \in Writers : Busy(v)' => v = w
      BY <3>1, Alone
    <3>4. LastOf(d, next[w])'
      <4>1. \E i \in EntriesOf(d)' : audit'[i].content = next[w] /\ \A j \in EntriesOf(d)' : j <= i
        BY ONLY <3>1, <3>2, Appended, audit \in Seq(AuditEntry), ZenonT(60)
      <4>2. QED
        BY <3>1, <4>1 DEF LastOf
    <3>5. AdoptLogged' /\ CommitSaved'
      BY <3>1, <3>3, <3>4 DEF AdoptLogged, CommitSaved
    <3>6. ASSUME NEW e \in Docs, manifest'[e] # Untracked, ~Audited(e)'
          PROVE \E v \in Writers : GapOf(v, e)'
      <4>1. CASE e = d
        <5>1. cmd[w].kind # "adopt"
          BY <3>1, <3>6, <4>1 DEF TearInv, AdoptHolds
        <5>2. manifest'[d] = next[w]
          BY <3>1, <5>1 DEF AuditInv, CommitSaved
        <5>3. Audited(e)'
          BY <3>1, <3>4, <4>1, <5>2 DEF Audited, LastOf
        <5>4. QED
          BY <3>6, <5>3
      <4>2. CASE e # d
        <5>1. EntriesOf(e)' = EntriesOf(e) /\ \A i \in EntriesOf(e) : audit'[i] = audit[i]
          BY ONLY <3>1, <3>2, <4>2, Appended, audit \in Seq(AuditEntry)
        <5>2. ~Audited(e) /\ manifest[e] # Untracked
          BY <3>1, <3>6, <5>1, ZenonT(60) DEF Audited
        <5>3. PICK v \in Writers : GapOf(v, e)
          BY <5>2 DEF AuditInv
        <5>4. GapOf(v, e)'
          BY <3>1, <4>2, <5>3 DEF GapOf
        <5>5. QED
          BY <5>4
      <4>3. QED
        BY <4>1, <4>2
    <3>7. QED
      BY <3>5, <3>6 DEF AuditInv
  <1>12. ASSUME NEW w \in Writers, Preflight(w) PROVE AuditInv'
    <3>1. /\ UNCHANGED <<manifest, audit, cmd>>
          /\ \A v \in Writers : KeepsGap(v)
      BY <1>12 DEF KeepsGap
    <3>2. QED
      BY ONLY <3>1, AuditAside, TypeOK, AuditInv
  <1>13. ASSUME NEW w \in Writers, Crash(w) PROVE AuditInv'
    <3>1. /\ UNCHANGED <<manifest, audit, cmd>>
          /\ \A v \in Writers : KeepsGap(v)
      BY <1>13 DEF KeepsGap
    <3>2. QED
      BY ONLY <3>1, AuditAside, TypeOK, AuditInv
  <1>14. ASSUME NEW p \in Writers \cup Sessions, ReadTail(p) PROVE AuditInv'
    <3>1. /\ UNCHANGED <<manifest, audit, cmd>>
          /\ \A v \in Writers : KeepsGap(v)
      BY <1>14 DEF KeepsGap
    <3>2. QED
      BY ONLY <3>1, AuditAside, TypeOK, AuditInv
  <1>15. ASSUME NEW s \in Sessions, SessionBegin(s) PROVE AuditInv'
    <3>1. /\ UNCHANGED <<manifest, audit, cmd>>
          /\ \A v \in Writers : KeepsGap(v)
      BY <1>15 DEF KeepsGap
    <3>2. QED
      BY ONLY <3>1, AuditAside, TypeOK, AuditInv
  <1>16. ASSUME NEW s \in Sessions, SessionAppend(s) PROVE AuditInv'
    <3> DEFINE entry == [doc |-> Untracked, content |-> Missing, prev |-> tail[s]]
    <3>1. /\ UNCHANGED <<manifest, cmd, next, alive>> /\ audit' = Append(audit, entry)
          /\ \A v \in Writers : pc'[v] = pc[v]
      BY <1>16
    <3>2. entry \in AuditEntry /\ entry.doc = Untracked
      BY EntryTyped
    <3>3. \A e \in Docs : EntriesOf(e)' = EntriesOf(e) /\ \A i \in EntriesOf(e) : audit'[i] = audit[i]
      BY ONLY <3>1, <3>2, Appended, ReducerAssumption, audit \in Seq(AuditEntry)
    <3>4. \A e \in Docs : /\ Audited(e)' <=> Audited(e)
                        /\ \A v \in Writers : LastOf(e, next[v])' <=> LastOf(e, next[v])
      <4> SUFFICES ASSUME NEW e \in Docs
                   PROVE  /\ Audited(e)' <=> Audited(e)
                          /\ \A v \in Writers : LastOf(e, next[v])' <=> LastOf(e, next[v])
        OBVIOUS
      <4>1. EntriesOf(e)' = EntriesOf(e) /\ \A i \in EntriesOf(e) : audit'[i] = audit[i]
        BY <3>3
      <4>2. Audited(e)' <=> Audited(e)
        BY ONLY <3>1, <4>1 DEF Audited
      <4>3. \A v \in Writers : LastOf(e, next[v])' <=> LastOf(e, next[v])
        BY ONLY <3>1, <4>1 DEF LastOf
      <4>4. QED
        BY <4>2, <4>3
    <3>5. AdoptLogged' /\ CommitSaved'
      BY <3>1, <3>4 DEF AuditInv, AdoptLogged, CommitSaved
    <3>6. ASSUME NEW e \in Docs, manifest'[e] # Untracked, ~Audited(e)'
          PROVE \E v \in Writers : GapOf(v, e)'
      BY <3>1, <3>4, <3>6, ZenonT(60) DEF AuditInv, GapOf
    <3>7. QED
      BY <3>5, <3>6 DEF AuditInv
  <1>17. ASSUME NEW d \in Docs, Edit(d) PROVE AuditInv'
    <3>1. /\ UNCHANGED <<manifest, audit, cmd>>
          /\ \A v \in Writers : KeepsGap(v)
      BY <1>17 DEF KeepsGap
    <3>2. QED
      BY ONLY <3>1, AuditAside, TypeOK, AuditInv
  <1>18. ASSUME NEW d \in Docs, Restore(d) PROVE AuditInv'
    <3>1. /\ UNCHANGED <<manifest, audit, cmd>>
          /\ \A v \in Writers : KeepsGap(v)
      BY <1>18 DEF KeepsGap
    <3>2. QED
      BY ONLY <3>1, AuditAside, TypeOK, AuditInv
  <1>19. CASE ClearLock
    <3>1. /\ UNCHANGED <<manifest, audit, cmd>>
          /\ \A v \in Writers : KeepsGap(v)
      BY <1>19 DEF KeepsGap
    <3>2. QED
      BY ONLY <3>1, AuditAside, TypeOK, AuditInv
  <1>20. CASE UNCHANGED vars
    <3>1. /\ UNCHANGED <<manifest, audit, cmd>>
          /\ \A v \in Writers : KeepsGap(v)
      BY <1>20 DEF vars, files, locals, KeepsGap
    <3>2. QED
      BY ONLY <3>1, AuditAside, TypeOK, AuditInv
  <1>21. QED
    BY <1>1, <1>2, <1>3, <1>4, <1>5, <1>6, <1>7, <1>8, <1>9, <1>10, <1>11, <1>12, <1>13, <1>14, <1>15, <1>16, <1>17, <1>18, <1>19, <1>20, ZenonT(60) DEF Next, Step

LEMMA AuditInit == Init => AuditInv
BY DEF Init, AuditInv, AdoptLogged, CommitSaved, Busy

(* The log's last entry of a tracked document is the content the manifest    *)
(* records, unless a commit is (or died) between its manifest write and its  *)
(* entry: an adoption, which logs first, never opens a gap.                  *)
THEOREM AuditGapsExplained == Spec => []AuditGapExplained
<1>1. Init => Typed /\ Exclusive /\ TearInv /\ AuditInv
  BY TypedInit, ExclusiveInit, TearInit, AuditInit
<1>2. Typed /\ Exclusive /\ TearInv /\ AuditInv /\ [Next]_vars => (Typed /\ Exclusive /\ TearInv /\ AuditInv)'
  BY TypedInductive, ExclusiveStep, TearStep, AuditStep
<1>3. AuditInv => AuditGapExplained
  BY DEF AuditInv, GapOf, AuditGapExplained
<1>4. QED
  BY <1>1, <1>2, <1>3, PTL DEF Spec
-----------------------------------------------------------------------------
(* What a command holds between the read of the manifest and its rewrite.    *)
Saving(w) == Busy(w) /\ (pc[w] \in {"read", "write", "save"} \/ (pc[w] \in {"tail", "append"} /\ cmd[w].kind = "adopt"))

LoadedFresh == \A w \in Writers : Saving(w) => loaded[w] = manifest

ReadMatches == \A w \in Writers :
    Busy(w) /\ pc[w] = "read" => ~Tampered(cmd[w].doc, manifest)

CommitsPatch == \A w \in Writers :
    Saving(w) /\ cmd[w].kind # "adopt" /\ pc[w] \in {"write", "save"} =>
        next[w] = After(manifest[cmd[w].doc])

AdoptsUntracked == \A w \in Writers :
    Saving(w) /\ cmd[w].kind = "adopt" => manifest[cmd[w].doc] = Untracked

StoreInv == KindKept /\ LoadedFresh /\ ReadMatches /\ CommitsPatch /\ AdoptsUntracked

(* A process that leaves its command, or dies, disturbs nobody's.             *)
LEMMA OutsideStore ==
    ASSUME TypeOK, StoreInv, UNCHANGED <<doc, manifest, cmd, loaded, next>>,
           \A v \in Writers : pc'[v] = pc[v] \/ pc'[v] \in {"unlock", "done"},
           \A v \in Writers : alive'[v] => alive[v]
    PROVE  StoreInv'
<1>1. KindKept'
  BY DEF StoreInv, KindKept
<1>2. \A v \in Writers : Busy(v)' /\ pc'[v] \notin {"unlock", "done"} => Busy(v) /\ pc'[v] = pc[v]
  BY DEF Busy
<1>3. \A v \in Writers : Saving(v)' => Saving(v) /\ pc'[v] = pc[v]
  BY <1>2 DEF Saving
<1>4. LoadedFresh' /\ CommitsPatch' /\ AdoptsUntracked'
  BY <1>3 DEF StoreInv, LoadedFresh, CommitsPatch, AdoptsUntracked
<1>5. ReadMatches'
  BY <1>2 DEF StoreInv, ReadMatches, Tampered
<1>6. QED
  BY <1>1, <1>4, <1>5 DEF StoreInv

LEMMA StoreInvStep == ASSUME ~EditsMidCommit
                      PROVE Typed /\ Exclusive /\ StoreInv /\ [Next]_vars => StoreInv'
<1> SUFFICES ASSUME TypeOK, NextTyped, Exclusive, StoreInv, [Next]_vars PROVE StoreInv'
    BY DEF Typed
<1> USE LockFacts, CommandFacts DEF TypeOK, StoreInv, Busy
  <1>1. ASSUME NEW w \in Writers, Begin(w) PROVE StoreInv'
    <3>1. pc' = [pc EXCEPT ![w] = pc'[w]] /\ pc'[w] \in {cmd[w].kind, "done"} \cap {"commit", "reconcile", "adopt", "preflight", "done"}
      BY <1>1, ZenonT(60)
    <3>2. UNCHANGED <<doc, manifest, alive, cmd, loaded, next>> /\ (lock' = lock \/ lock = Free)
      BY <1>1
    <3>3. \A v \in Writers : (pc[v] \in {"check", "read", "write", "save", "tail", "append", "unlockDoc"})' =>
              v /= w /\ pc'[v] = pc[v]
      BY <3>1
    <3>4. KindKept'
      BY <3>1, <3>2 DEF KindKept
    <3>5. LoadedFresh' /\ ReadMatches'
      BY <3>2, <3>3 DEF LoadedFresh, ReadMatches, Saving, Tampered
    <3>6. CommitsPatch' /\ AdoptsUntracked'
      BY <3>2, <3>3 DEF CommitsPatch, AdoptsUntracked, Saving
    <3>7. QED
      BY <3>4, <3>5, <3>6
  <1>2. ASSUME NEW w \in Writers, Unlock(w) PROVE StoreInv'
    <3>1. /\ UNCHANGED <<doc, manifest, cmd, loaded, next>>
          /\ \A v \in Writers : pc'[v] = pc[v] \/ pc'[v] \in {"unlock", "done"}
          /\ \A v \in Writers : alive'[v] => alive[v]
      BY <1>2
    <3>2. QED
      BY ONLY <3>1, OutsideStore, TypeOK, StoreInv
  <1>3. ASSUME NEW w \in Writers, Refuse(w) PROVE StoreInv'
    <3>1. /\ UNCHANGED <<doc, manifest, cmd, loaded, next>>
          /\ \A v \in Writers : pc'[v] = pc[v] \/ pc'[v] \in {"unlock", "done"}
          /\ \A v \in Writers : alive'[v] => alive[v]
      BY <1>3
    <3>2. QED
      BY ONLY <3>1, OutsideStore, TypeOK, StoreInv
  <1>4. ASSUME NEW w \in Writers, LockDocument(w) PROVE StoreInv'
    <3>1. KindKept'
      BY <1>4 DEF KindKept
    <3>2. LoadedFresh'
      BY <1>4, Alone, ZenonT(60) DEF KindKept, LoadedFresh, Saving
    <3>3. ReadMatches'
      <4>1. /\ UNCHANGED <<doc, manifest, cmd, alive>>
            /\ pc' = [pc EXCEPT ![w] = pc'[w]] /\ pc'[w] /= "read"
        BY <1>4
      <4>2. QED
        BY ONLY <4>1, ReadMatches, pc \in [Writers \cup Sessions -> Labels], w \in Writers DEF ReadMatches, Tampered, Busy
    <3>4. CommitsPatch'
      BY <1>4, Alone, ZenonT(60) DEF KindKept, CommitsPatch, Saving
    <3>5. AdoptsUntracked'
      BY <1>4, Alone DEF KindKept, AdoptsUntracked, Saving
    <3>6. QED
      BY <3>1, <3>2, <3>3, <3>4, <3>5
  <1>5. ASSUME NEW w \in Writers, Check(w) PROVE StoreInv'
    <3>1. KindKept'
      BY <1>5 DEF KindKept
    <3>2. LoadedFresh'
      BY <1>5, Alone DEF KindKept, LoadedFresh, Saving
    <3>3. ReadMatches'
      <4> SUFFICES ASSUME NEW v \in Writers, Busy(v)', pc'[v] = "read" PROVE ~Tampered(cmd[v].doc, manifest)'
        BY DEF ReadMatches
      <4>1. UNCHANGED <<doc, manifest, cmd, alive>> /\ Busy(w)
        BY <1>5
      <4>2. CASE v = w
        BY <1>5, <4>2 DEF Tampered
      <4>3. CASE v /= w
        BY <1>5, <4>1, <4>3, Alone
      <4>4. QED
        BY <4>2, <4>3
    <3>4. CommitsPatch'
      BY <1>5, Alone DEF KindKept, CommitsPatch, Saving
    <3>5. AdoptsUntracked'
      BY <1>5, Alone DEF KindKept, AdoptsUntracked, Saving
    <3>6. QED
      BY <3>1, <3>2, <3>3, <3>4, <3>5
  <1>6. ASSUME NEW w \in Writers, Read(w) PROVE StoreInv'
    <3>1. KindKept'
      BY <1>6 DEF KindKept
    <3>2. LoadedFresh'
      BY <1>6, Alone, ZenonT(60) DEF KindKept, LoadedFresh, Saving
    <3>3. ReadMatches'
      <4>1. /\ UNCHANGED <<doc, manifest, cmd, alive>>
            /\ pc' = [pc EXCEPT ![w] = pc'[w]] /\ pc'[w] /= "read"
        BY <1>6
      <4>2. QED
        BY ONLY <4>1, ReadMatches, pc \in [Writers \cup Sessions -> Labels], w \in Writers DEF ReadMatches, Tampered, Busy
    <3>4. CommitsPatch'
      <4> DEFINE d == cmd[w].doc
      <4>1. UNCHANGED <<manifest, cmd, alive>> /\ pc[w] = "read" /\ Busy(w)
        BY <1>6
      <4>2. loaded[w] = manifest /\ ~Tampered(d, manifest)
        BY <4>1 DEF LoadedFresh, ReadMatches, Saving
      <4>3. pc'[w] = "write" => next'[w] = After(IF manifest[d] = Untracked THEN Missing ELSE doc[d])
        BY <1>6, <4>2
      <4>4. pc'[w] = "write" => next'[w] = After(manifest[d])
        BY <4>2, <4>3 DEF After, Tampered
      <4>5. pc'[w] \in {"write", "unlockDoc"}
        BY <1>6
      <4>6. \A v \in Writers : v /= w => pc'[v] = pc[v] /\ next'[v] = next[v]
        BY <1>6
      <4>7. QED
        BY <4>1, <4>4, <4>5, <4>6, ZenonT(60) DEF CommitsPatch, Saving
    <3>5. AdoptsUntracked'
      BY <1>6, Alone DEF KindKept, AdoptsUntracked, Saving
    <3>6. QED
      BY <3>1, <3>2, <3>3, <3>4, <3>5
  <1>7. ASSUME NEW w \in Writers, WriteDoc(w) PROVE StoreInv'
    <3>1. /\ UNCHANGED <<manifest, cmd, alive, loaded, next>> /\ Busy(w) /\ pc[w] = "write"
          /\ pc' = [pc EXCEPT ![w] = "save"]
      BY <1>7
    <3>2. KindKept'
      BY <3>1 DEF KindKept
    <3>3. \A v \in Writers : Busy(v)' => v = w
      BY <3>1, Alone
    <3>4. \A v \in Writers : Saving(v)' => v = w /\ Saving(w)
      BY <3>1, <3>3 DEF Saving
    <3>5. LoadedFresh' /\ AdoptsUntracked' /\ CommitsPatch'
      BY <3>1, <3>4 DEF LoadedFresh, AdoptsUntracked, CommitsPatch
    <3>6. ReadMatches'
      BY <3>1, <3>3 DEF ReadMatches
    <3>7. QED
      BY <3>2, <3>5, <3>6
  <1>8. ASSUME NEW w \in Writers, SaveManifest(w) PROVE StoreInv'
    <3>1. /\ UNCHANGED <<doc, cmd, alive>> /\ Busy(w)
          /\ pc' = [pc EXCEPT ![w] = pc'[w]]
          /\ pc'[w] = IF cmd[w].kind = "adopt" THEN "unlock" ELSE "tail"
      BY <1>8
    <3>2. KindKept'
      BY <3>1 DEF KindKept
    <3>3. \A v \in Writers : ~Saving(v)' /\ ~(Busy(v)' /\ pc'[v] = "read")
      <4>1. \A v \in Writers : v /= w => ~Busy(v)
        BY <3>1, Alone
      <4>2. \A v \in Writers : v /= w => ~Busy(v)'
        BY <3>1, <4>1
      <4>3. QED
        BY <3>1, <4>2 DEF Saving
    <3>4. LoadedFresh' /\ ReadMatches' /\ CommitsPatch' /\ AdoptsUntracked'
      BY <3>3 DEF LoadedFresh, ReadMatches, CommitsPatch, AdoptsUntracked
    <3>5. QED
      BY <3>2, <3>4
  <1>9. ASSUME NEW w \in Writers, UnlockDocument(w) PROVE StoreInv'
    <3>1. /\ UNCHANGED <<doc, manifest, cmd, loaded, next>>
          /\ \A v \in Writers : pc'[v] = pc[v] \/ pc'[v] \in {"unlock", "done"}
          /\ \A v \in Writers : alive'[v] => alive[v]
      BY <1>9
    <3>2. QED
      BY ONLY <3>1, OutsideStore, TypeOK, StoreInv
  <1>10. ASSUME NEW w \in Writers, Adopt(w) PROVE StoreInv'
    <3>1. KindKept'
      <4>1. pc' = [pc EXCEPT ![w] = pc'[w]] /\ pc'[w] \in {"unlock", "tail"} /\ UNCHANGED cmd
        BY <1>10
      <4>2. QED
        BY <4>1 DEF KindKept
    <3>2. LoadedFresh'
      BY <1>10, Alone, ZenonT(60) DEF KindKept, LoadedFresh, Saving
    <3>3. ReadMatches'
      <4>1. /\ UNCHANGED <<doc, manifest, cmd, alive>>
            /\ pc' = [pc EXCEPT ![w] = pc'[w]] /\ pc'[w] /= "read"
        BY <1>10
      <4>2. QED
        BY ONLY <4>1, ReadMatches, pc \in [Writers \cup Sessions -> Labels], w \in Writers DEF ReadMatches, Tampered, Busy
    <3>4. CommitsPatch'
      BY <1>10, Alone, ZenonT(60) DEF KindKept, CommitsPatch, Saving
    <3>5. AdoptsUntracked'
      BY <1>10, Alone DEF KindKept, AdoptsUntracked, Saving
    <3>6. QED
      BY <3>1, <3>2, <3>3, <3>4, <3>5
  <1>11. ASSUME NEW w \in Writers, AppendEntry(w) PROVE StoreInv'
    <3>1. /\ UNCHANGED <<doc, manifest, cmd, alive, loaded, next>> /\ Busy(w) /\ pc[w] = "append"
          /\ pc' = [pc EXCEPT ![w] = pc'[w]]
          /\ pc'[w] = IF cmd[w].kind = "adopt" THEN "save" ELSE "unlockDoc"
      BY <1>11
    <3>2. KindKept'
      BY <3>1 DEF KindKept
    <3>3. \A v \in Writers : Busy(v)' => v = w
      BY <3>1, Alone
    <3>4. \A v \in Writers : Saving(v)' => v = w /\ Saving(w) /\ cmd[w].kind = "adopt"
      BY <3>1, <3>3 DEF Saving
    <3>5. LoadedFresh' /\ AdoptsUntracked' /\ CommitsPatch'
      BY <3>1, <3>4 DEF LoadedFresh, AdoptsUntracked, CommitsPatch
    <3>6. ReadMatches'
      BY <3>1, <3>3 DEF ReadMatches
    <3>7. QED
      BY <3>2, <3>5, <3>6
  <1>12. ASSUME NEW w \in Writers, Preflight(w) PROVE StoreInv'
    <3>1. /\ UNCHANGED <<doc, manifest, cmd, loaded, next>>
          /\ \A v \in Writers : pc'[v] = pc[v] \/ pc'[v] \in {"unlock", "done"}
          /\ \A v \in Writers : alive'[v] => alive[v]
      BY <1>12
    <3>2. QED
      BY ONLY <3>1, OutsideStore, TypeOK, StoreInv
  <1>13. ASSUME NEW w \in Writers, Crash(w) PROVE StoreInv'
    <3>1. /\ UNCHANGED <<doc, manifest, cmd, loaded, next>>
          /\ \A v \in Writers : pc'[v] = pc[v] \/ pc'[v] \in {"unlock", "done"}
          /\ \A v \in Writers : alive'[v] => alive[v]
      BY <1>13
    <3>2. QED
      BY ONLY <3>1, OutsideStore, TypeOK, StoreInv
  <1>14. ASSUME NEW p \in Writers \cup Sessions, ReadTail(p) PROVE StoreInv'
    <3>1. KindKept'
      BY <1>14 DEF KindKept
    <3>2. LoadedFresh'
      BY <1>14, Alone DEF KindKept, LoadedFresh, Saving
    <3>3. ReadMatches'
      BY <1>14, Alone DEF Exclusive, KindKept, LoadedFresh, ReadMatches, Tampered
    <3>4. CommitsPatch'
      BY <1>14, Alone DEF KindKept, CommitsPatch, Saving
    <3>5. AdoptsUntracked'
      BY <1>14, Alone DEF KindKept, AdoptsUntracked, Saving
    <3>6. QED
      BY <3>1, <3>2, <3>3, <3>4, <3>5
  <1>15. ASSUME NEW s \in Sessions, SessionBegin(s) PROVE StoreInv'
    <3>1. KindKept'
      BY <1>15 DEF KindKept
    <3>2. LoadedFresh'
      BY <1>15, Alone DEF KindKept, LoadedFresh, Saving
    <3>3. ReadMatches'
      BY <1>15, Alone DEF Exclusive, KindKept, LoadedFresh, ReadMatches, Tampered
    <3>4. CommitsPatch'
      BY <1>15, Alone DEF KindKept, CommitsPatch, Saving
    <3>5. AdoptsUntracked'
      BY <1>15, Alone DEF KindKept, AdoptsUntracked, Saving
    <3>6. QED
      BY <3>1, <3>2, <3>3, <3>4, <3>5
  <1>16. ASSUME NEW s \in Sessions, SessionAppend(s) PROVE StoreInv'
    <3>1. KindKept'
      BY <1>16 DEF KindKept
    <3>2. LoadedFresh'
      BY <1>16, Alone DEF KindKept, LoadedFresh, Saving
    <3>3. ReadMatches'
      BY <1>16, Alone DEF Exclusive, KindKept, LoadedFresh, ReadMatches, Tampered
    <3>4. CommitsPatch'
      BY <1>16, Alone DEF KindKept, CommitsPatch, Saving
    <3>5. AdoptsUntracked'
      BY <1>16, Alone DEF KindKept, AdoptsUntracked, Saving
    <3>6. QED
      BY <3>1, <3>2, <3>3, <3>4, <3>5
  <1>17. ASSUME NEW d \in Docs, Edit(d) PROVE StoreInv'
    <3>1. KindKept'
      BY <1>17 DEF KindKept
    <3>2. LoadedFresh'
      BY <1>17, Alone DEF KindKept, LoadedFresh, Saving
    <3>3. ReadMatches'
      BY <1>17, Alone DEF Exclusive, KindKept, LoadedFresh, ReadMatches, Tampered
    <3>4. CommitsPatch'
      BY <1>17, Alone DEF KindKept, CommitsPatch, Saving
    <3>5. AdoptsUntracked'
      BY <1>17, Alone DEF KindKept, AdoptsUntracked, Saving
    <3>6. QED
      BY <3>1, <3>2, <3>3, <3>4, <3>5
  <1>18. ASSUME NEW d \in Docs, Restore(d) PROVE StoreInv'
    <3>1. KindKept'
      BY <1>18 DEF KindKept
    <3>2. LoadedFresh'
      BY <1>18, Alone DEF KindKept, LoadedFresh, Saving
    <3>3. ReadMatches'
      BY <1>18, Alone DEF Exclusive, KindKept, LoadedFresh, ReadMatches, Tampered
    <3>4. CommitsPatch'
      BY <1>18, Alone DEF KindKept, CommitsPatch, Saving
    <3>5. AdoptsUntracked'
      BY <1>18, Alone DEF KindKept, AdoptsUntracked, Saving
    <3>6. QED
      BY <3>1, <3>2, <3>3, <3>4, <3>5
  <1>19. CASE ClearLock
    <3>1. KindKept'
      BY <1>19 DEF KindKept
    <3>2. LoadedFresh'
      BY <1>19, Alone DEF KindKept, LoadedFresh, Saving
    <3>3. ReadMatches'
      BY <1>19, Alone DEF Exclusive, KindKept, LoadedFresh, ReadMatches, Tampered
    <3>4. CommitsPatch'
      BY <1>19, Alone DEF KindKept, CommitsPatch, Saving
    <3>5. AdoptsUntracked'
      BY <1>19, Alone DEF KindKept, AdoptsUntracked, Saving
    <3>6. QED
      BY <3>1, <3>2, <3>3, <3>4, <3>5
  <1>20. CASE UNCHANGED vars
    BY <1>20 DEF vars, KindKept, LoadedFresh, ReadMatches, CommitsPatch, AdoptsUntracked, Saving, Tampered, After
  <1>21. QED
    BY <1>1, <1>2, <1>3, <1>4, <1>5, <1>6, <1>7, <1>8, <1>9, <1>10, <1>11, <1>12, <1>13, <1>14, <1>15, <1>16, <1>17, <1>18, <1>19, <1>20, ZenonT(60) DEF Next, Step

LEMMA StoreInvInit == Init => StoreInv
BY ReducerAssumption DEF Init, StoreInv, KindKept, LoadedFresh, ReadMatches, CommitsPatch, AdoptsUntracked,
   Saving, Busy, Commands

(* Every step moves the manifest as TrackedStore allows, or leaves it alone. *)
LEMMA StoreStep == Typed /\ Exclusive /\ StoreInv /\ [Next]_vars => [Store!Next]_manifest
<1> SUFFICES ASSUME TypeOK, NextTyped, Exclusive, StoreInv, Next PROVE [Store!Next]_manifest
  <2>1. UNCHANGED vars => UNCHANGED manifest
    BY DEF vars
  <2>2. QED
    BY <2>1 DEF Typed
<1>1. CASE \E w \in Writers : SaveManifest(w)
  <2> PICK w \in Writers : SaveManifest(w)
    BY <1>1
  <2> DEFINE d == cmd[w].doc
  <2>1. d \in Docs /\ next[w] \in Content /\ Saving(w)
    <3>1. pc[w] = "save" /\ alive[w]
      OBVIOUS
    <3>2. d \in Docs
      BY CommandFacts
    <3>3. QED
      BY <3>1, <3>2 DEF NextTyped, Saving, Busy
  <2>2. manifest' = [manifest EXCEPT ![d] = next[w]] /\ manifest'[d] = next[w]
    BY <2>1 DEF StoreInv, LoadedFresh, TypeOK
  <2>3. CASE cmd[w].kind = "adopt"
    <3>1. manifest[d] = Untracked
      BY <2>1, <2>3 DEF StoreInv, AdoptsUntracked
    <3>2. Store!Adopt(d)
      BY <2>1, <2>2, <3>1 DEF Store!Adopt
    <3>3. QED
      BY <2>1, <3>2 DEF Store!Next
  <2>4. CASE cmd[w].kind # "adopt"
    <3>1. next[w] = After(manifest[d])
      BY <2>1, <2>4 DEF StoreInv, CommitsPatch
    <3>2. Store!Commit(d)
      BY <2>2, <3>1, ZenonT(60) DEF Store!Commit
    <3>3. QED
      BY <2>1, <3>2 DEF Store!Next
  <2>5. QED
    BY <2>3, <2>4
<1>2. CASE ~\E w \in Writers : SaveManifest(w)
  <2>1. UNCHANGED manifest
    BY <1>2, ZenonT(60) DEF Next, Step
  <2>2. QED
    BY <2>1
<1>3. QED
  BY <1>1, <1>2

(* As long as nobody edits a document while a reducer process runs, the      *)
(* manifest implements TrackedStore for any number of invocations, crashes   *)
(* at any point included: no update is lost and no patch lands on a document *)
(* that differs from what was recorded.                                      *)
THEOREM ReducerImplementsStore == ASSUME ~EditsMidCommit PROVE Spec => ImplementsStore
<1>1. Init => Typed /\ Exclusive /\ StoreInv /\ Store!Init
  BY TypedInit, ExclusiveInit, StoreInvInit DEF Init, Store!Init
<1>2. Typed /\ Exclusive /\ StoreInv /\ [Next]_vars => (Typed /\ Exclusive /\ StoreInv)'
  BY TypedInductive, ExclusiveStep, StoreInvStep
<1>3. QED
  BY <1>1, <1>2, StoreStep, PTL DEF Spec, ImplementsStore, Store!Spec
=============================================================================
