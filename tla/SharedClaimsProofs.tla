------------------------- MODULE SharedClaimsProofs --------------------------
(***************************************************************************)
(* Proofs about SharedClaims, for any number of workers and resources and  *)
(* whatever crashes, expiries and stalls there are: types, that a claim in *)
(* hand is on file, that no two workers use one resource, and that every   *)
(* claim file implements the lock Mutex.                                   *)
(***************************************************************************)
EXTENDS SharedClaims, WellFoundedInduction, TLAPS

Less == {p \in Nat \X Nat : p[1] < p[2]}

(* A loop that is not over has a resource to visit next.                     *)
LEMMA FirstIn == ASSUME NEW S \in SUBSET Resources, S # {} PROVE First(S) \in S
<1>1. S \subseteq Nat
  BY ClaimsAssumption DEF Resources
<1>2. IsWellFoundedOn(Less, Nat)
  BY NatLessThanWellFounded DEF OpToRel, Less
<1>3. PICK r \in S : \A other \in S : <<other, r>> \notin Less
  <2>1. \E r \in S : \A other \in S : ~ (<<other, r>> \in Less)
    BY ONLY <1>1, <1>2, S # {}, WFMin
  <2>2. QED
    BY <2>1
<1>4. \A other \in S : r <= other
  <2> SUFFICES ASSUME NEW other \in S PROVE r <= other
    OBVIOUS
  <2>1. r \in Nat /\ other \in Nat
    BY <1>1
  <2>2. ~(other < r)
    <3>1. <<other, r>> \notin Less
      BY <1>3
    <3>2. other < r => <<other, r>> \in Less
      BY <2>1 DEF Less
    <3>3. QED
      BY <3>1, <3>2
  <2>3. QED
    BY <2>1, <2>2
<1>5. QED
  BY <1>4 DEF First

LEMMA RecordFacts ==
    /\ \A at \in Nat : Unclaimed(at) \in Record /\ Unclaimed(at).owner = NoOne
    /\ \A w \in Workers, at \in Nat : [owner |-> w, expiresAt |-> at + Ttl, nextAllowedAt |-> 0] \in Record
    /\ \A rec \in Record : rec.owner \in Workers \cup {NoOne}
BY ClaimsAssumption DEF Unclaimed, Record

(* A transaction in progress holds the guard of its resource, and what it    *)
(* read is still on file when it writes.                                     *)
GuardHeld(w) == step[w] # "none" =>
    /\ phase[w] \in Transacting /\ todo[w] # {}
    /\ guard[Target(w)] = w
    /\ step[w] = "rename" => seen[w] = record[Target(w)]

Guarded == \A w \in Workers : GuardHeld(w)

LEMMA TargetIn == ASSUME TypeOK, NEW w \in Workers, todo[w] # {} PROVE Target(w) \in todo[w] /\ Target(w) \in Resources
<1>1. todo[w] \in SUBSET Resources
  BY DEF TypeOK
<1>2. QED
  BY <1>1, FirstIn DEF Target

LEMMA TypedInit == Init => TypeOK /\ Guarded /\ ClaimsOnFile
<1> SUFFICES ASSUME Init PROVE TypeOK /\ Guarded /\ ClaimsOnFile
  OBVIOUS
<1>1. Unclaimed(0) \in Record
  BY RecordFacts
<1>2. QED
  BY <1>1 DEF Init, TypeOK, Guarded, GuardHeld, ClaimsOnFile, Phases, Transacting, Ended

LEMMA FailedTyped ==
    ASSUME TypeOK, NEW w \in Workers, NEW why \in {"contention", "reconciliation"}, phase[w] \in Transacting,
           Failed(w, why)
    PROVE /\ todo' \in [Workers -> SUBSET Resources] /\ phase' \in [Workers -> Phases]
          /\ lost' \in [Workers -> BOOLEAN]
          /\ reason' \in [Workers -> {"none", "contention", "reconciliation", "attempt"}]
<1>1. todo' \in [Workers -> SUBSET Resources] /\ lost' \in [Workers -> BOOLEAN]
  BY DEF Failed, TypeOK
<1>2. phase' \in [Workers -> Phases]
  <2>1. PICK p \in {"rollback", "executing", "thrown", "parked"} : phase' = [phase EXCEPT ![w] = p]
    BY DEF Failed, TypeOK, Transacting, Enter
  <2>2. QED
    BY <2>1 DEF TypeOK, Phases, Transacting, Ended
<1>3. reason' \in [Workers -> {"none", "contention", "reconciliation", "attempt"}]
  BY DEF Failed, TypeOK
<1>4. QED
  BY <1>1, <1>2, <1>3

(* Every variable keeps its type.                                            *)
LEMMA TypedStep == TypeOK /\ Guarded /\ [Next]_vars => TypeOK'
<1> SUFFICES ASSUME TypeOK, Guarded, [Next]_vars PROVE TypeOK'
  OBVIOUS
<1> USE ClaimsAssumption, RecordFacts, TargetIn
    DEF TypeOK, Phases, Transacting, Ended, Between, Enter, loop, transaction
<1>1. ASSUME NEW w \in Workers, Open(w) PROVE TypeOK'
  <2>1. CASE guard[Target(w)] = NoOne
    <3>1. Target(w) \in Resources /\ clock \in Nat
      BY <1>1 DEF Open
    <3>2. /\ now' = [now EXCEPT ![w] = clock] /\ guard' = [guard EXCEPT ![Target(w)] = w]
          /\ step' = [step EXCEPT ![w] = "read"]
          /\ UNCHANGED <<clock, record, needs, seen, claims, phase, todo, lost, reason>>
      BY <1>1, <2>1 DEF Open
    <3>3. QED
      BY ONLY <3>1, <3>2, TypeOK, w \in Workers DEF TypeOK
  <2>2. CASE guard[Target(w)] # NoOne
    <3>1. phase[w] \in Transacting /\ Failed(w, "contention")
      BY <1>1, <2>2 DEF Open
    <3>2. UNCHANGED <<clock, record, guard, needs, step, now, seen, claims>>
      BY <1>1, <2>2 DEF Open
    <3>3. QED
      BY ONLY <3>1, <3>2, FailedTyped, TypeOK, w \in Workers DEF TypeOK
  <2>3. QED
    BY <2>1, <2>2
<1>2. ASSUME NEW w \in Workers, Read(w) PROVE TypeOK'
  BY <1>2 DEF Read, Guarded, GuardHeld
<1>3. ASSUME NEW w \in Workers, Rename(w) PROVE TypeOK'
  BY <1>3 DEF Rename, Candidate, Guarded, GuardHeld
<1>4. ASSUME NEW w \in Workers, Decline(w) PROVE TypeOK'
  BY <1>4 DEF Decline, Guarded, GuardHeld
<1>5. ASSUME NEW w \in Workers, Unguard(w) PROVE TypeOK'
  <2>1. phase[w] \in Transacting /\ Target(w) \in Resources
    BY <1>5 DEF Unguard, Guarded, GuardHeld
  <2>2. UNCHANGED <<clock, record, needs, claims>> /\ guard' \in [Resources -> Workers \cup {NoOne}]
    BY <1>5 DEF Unguard
  <2>3. /\ step' \in [Workers -> {"none", "read", "rename", "unguard", "unguardFailed"}]
        /\ now' \in [Workers -> Nat] /\ seen' \in [Workers -> Record]
    BY <1>5 DEF Unguard, Forget
  <2>4. CASE step[w] = "unguard"
    <3>1. todo' \in [Workers -> SUBSET Resources] /\ UNCHANGED <<phase, lost, reason>>
      BY <1>5, <2>4 DEF Unguard
    <3>2. QED
      BY ONLY <2>2, <2>3, <3>1, TypeOK DEF TypeOK
  <2>5. CASE step[w] # "unguard"
    <3>1. PICK why \in {"contention", "reconciliation"} : Failed(w, why)
      BY <1>5, <2>5 DEF Unguard
    <3>2. QED
      BY ONLY <2>1, <2>2, <2>3, <3>1, FailedTyped, TypeOK, w \in Workers DEF TypeOK
  <2>6. QED
    BY <2>4, <2>5
<1>6. ASSUME NEW w \in Workers, Start(w) PROVE TypeOK'
  BY <1>6 DEF Start
<1>7. ASSUME NEW w \in Workers, Acquired(w) PROVE TypeOK'
  BY <1>7 DEF Acquired
<1>8. ASSUME NEW w \in Workers, RolledBack(w) PROVE TypeOK'
  BY <1>8 DEF RolledBack
<1>9. ASSUME NEW w \in Workers, Dispatch(w) PROVE TypeOK'
  BY <1>9 DEF Dispatch
<1>10. ASSUME NEW w \in Workers, Renewed(w) PROVE TypeOK'
  BY <1>10 DEF Renewed
<1>11. ASSUME NEW w \in Workers, Finish(w) PROVE TypeOK'
  BY <1>11 DEF Finish
<1>12. ASSUME NEW w \in Workers, Gates(w) PROVE TypeOK'
  BY <1>12 DEF Gates
<1>13. ASSUME NEW w \in Workers, Accept(w) PROVE TypeOK'
  BY <1>13 DEF Accept
<1>14. ASSUME NEW w \in Workers, BeginRelease(w) PROVE TypeOK'
  BY <1>14 DEF BeginRelease
<1>15. ASSUME NEW w \in Workers, Released(w) PROVE TypeOK'
  BY <1>15 DEF Released
<1>16. ASSUME NEW w \in Workers, GiveUp(w) PROVE TypeOK'
  BY <1>16 DEF GiveUp
<1>17. ASSUME NEW w \in Workers, Heartbeat(w) PROVE TypeOK'
  BY <1>17 DEF Heartbeat
<1>18. ASSUME NEW w \in Workers, Crash(w) PROVE TypeOK'
  BY <1>18 DEF Crash, Forget
<1>19. ASSUME NEW r \in Resources, ClearGuard(r) PROVE TypeOK'
  BY <1>19 DEF ClearGuard
<1>20. CASE Tick
  BY <1>20 DEF Tick
<1>21. CASE UNCHANGED vars
  BY <1>21 DEF vars
<1>22. QED
  BY <1>1, <1>2, <1>3, <1>4, <1>5, <1>6, <1>7, <1>8, <1>9, <1>10, <1>11, <1>12, <1>13, <1>14, <1>15, <1>16, <1>17, <1>18, <1>19, <1>20, <1>21 DEF Next, Proceed, Transact

(* The guard is what makes read and rename one transaction: no other worker  *)
(* is inside a transaction on the same resource.                             *)
LEMMA Alone == ASSUME TypeOK, Guarded, NEW w \in Workers, NEW v \in Workers, w # v,
                      step[w] # "none", step[v] # "none"
               PROVE Target(w) # Target(v)
BY DEF Guarded, GuardHeld

LEMMA Bystander ==
    ASSUME Guarded, NEW v \in Workers,
           phase'[v] = phase[v], step'[v] = step[v], todo'[v] = todo[v], seen'[v] = seen[v],
           step[v] # "none" => guard'[Target(v)] = guard[Target(v)],
           step[v] = "rename" => record'[Target(v)] = record[Target(v)]
    PROVE GuardHeld(v)'
<1>1. Target(v)' = Target(v)
  BY DEF Target
<1>2. QED
  BY <1>1 DEF Guarded, GuardHeld

LEMMA GuardedStep == TypeOK /\ Guarded /\ [Next]_vars => Guarded'
<1> SUFFICES ASSUME TypeOK, Guarded, [Next]_vars, NEW v \in Workers PROVE GuardHeld(v)'
  BY DEF Guarded
<1> USE ClaimsAssumption, TargetIn DEF Between, Enter, loop, transaction
<1>1. ASSUME NEW w \in Workers, Open(w) PROVE GuardHeld(v)'
  <2>1. CASE v = w
    <3>1. CASE guard[Target(w)] = NoOne
      <4>1. todo[w] # {} /\ phase[w] \in Transacting /\ UNCHANGED <<todo, phase>>
        BY <1>1, <3>1 DEF Open
      <4>2. step'[w] = "read" /\ guard'[Target(w)] = w
        BY <1>1, <3>1, <4>1 DEF Open, TypeOK
      <4>3. Target(w)' = Target(w)
        BY <4>1 DEF Target
      <4>4. QED
        BY <2>1, <4>1, <4>2, <4>3 DEF GuardHeld
    <3>2. CASE guard[Target(w)] # NoOne
      BY <1>1, <2>1, <3>2 DEF Open, GuardHeld
    <3>3. QED
      BY <3>1, <3>2
  <2>2. CASE v # w
    <3>1. UNCHANGED <<phase[v], step[v], todo[v], seen[v]>>
      BY <1>1, <2>2 DEF Open, Failed, Forget, TypeOK
    <3>2. step[v] # "none" => guard'[Target(v)] = guard[Target(v)] /\ record'[Target(v)] = record[Target(v)]
      BY <1>1, <2>2, Alone DEF Open, Guarded, GuardHeld, TypeOK
    <3>9. QED
      BY <3>1, Bystander, <3>2
  <2>3. QED
    BY <2>1, <2>2
<1>2. ASSUME NEW w \in Workers, Read(w) PROVE GuardHeld(v)'
  <2>1. CASE v = w
    <3>1. UNCHANGED <<todo, phase, guard>> /\ step[w] # "none" /\ Target(w)' = Target(w)
      BY <1>2 DEF Read, Target
    <3>2. step'[w] = "rename" /\ seen'[w] = record'[Target(w)]
      BY <1>2, <3>1 DEF Read, TypeOK
    <3>3. QED
      BY <2>1, <3>1, <3>2 DEF Guarded, GuardHeld
  <2>2. CASE v # w
    <3>1. UNCHANGED <<phase[v], step[v], todo[v], seen[v]>>
      BY <1>2, <2>2 DEF Read, Failed, Forget, TypeOK
    <3>2. step[v] # "none" => guard'[Target(v)] = guard[Target(v)] /\ record'[Target(v)] = record[Target(v)]
      BY <1>2, <2>2, Alone DEF Read, Guarded, GuardHeld, TypeOK
    <3>9. QED
      BY <3>1, Bystander, <3>2
  <2>3. QED
    BY <2>1, <2>2
<1>3. ASSUME NEW w \in Workers, Rename(w) PROVE GuardHeld(v)'
  <2>1. CASE v = w
    <3>1. UNCHANGED <<todo, phase, guard>> /\ step[w] # "none" /\ Target(w)' = Target(w)
      BY <1>3 DEF Rename, Target
    <3>2. step'[w] = "unguard"
      BY <1>3, <3>1 DEF Rename, TypeOK
    <3>3. QED
      BY <2>1, <3>1, <3>2 DEF Guarded, GuardHeld
  <2>2. CASE v # w
    <3>1. UNCHANGED <<phase[v], step[v], todo[v], seen[v]>>
      BY <1>3, <2>2 DEF Rename, Failed, Forget, TypeOK
    <3>2. step[v] # "none" => guard'[Target(v)] = guard[Target(v)] /\ record'[Target(v)] = record[Target(v)]
      BY <1>3, <2>2, Alone DEF Rename, Guarded, GuardHeld, TypeOK
    <3>9. QED
      BY <3>1, Bystander, <3>2
  <2>3. QED
    BY <2>1, <2>2
<1>4. ASSUME NEW w \in Workers, Decline(w) PROVE GuardHeld(v)'
  <2>1. CASE v = w
    <3>1. UNCHANGED <<todo, phase, guard>> /\ step[w] # "none" /\ Target(w)' = Target(w)
      BY <1>4 DEF Decline, Target
    <3>2. step'[w] = "unguardFailed"
      BY <1>4, <3>1 DEF Decline, TypeOK
    <3>3. QED
      BY <2>1, <3>1, <3>2 DEF Guarded, GuardHeld
  <2>2. CASE v # w
    <3>1. UNCHANGED <<phase[v], step[v], todo[v], seen[v]>>
      BY <1>4, <2>2 DEF Decline, Failed, Forget, TypeOK
    <3>2. step[v] # "none" => guard'[Target(v)] = guard[Target(v)] /\ record'[Target(v)] = record[Target(v)]
      BY <1>4, <2>2, Alone DEF Decline, Guarded, GuardHeld, TypeOK
    <3>9. QED
      BY <3>1, Bystander, <3>2
  <2>3. QED
    BY <2>1, <2>2
<1>5. ASSUME NEW w \in Workers, Unguard(w) PROVE GuardHeld(v)'
  <2>1. CASE v = w
    BY <1>5, <2>1 DEF Unguard, GuardHeld, TypeOK
  <2>2. CASE v # w
    <3>1. UNCHANGED <<phase[v], step[v], todo[v], seen[v]>>
      BY <1>5, <2>2 DEF Unguard, Failed, Forget, TypeOK
    <3>2. step[v] # "none" => guard'[Target(v)] = guard[Target(v)] /\ record'[Target(v)] = record[Target(v)]
      BY <1>5, <2>2, Alone DEF Unguard, Guarded, GuardHeld, TypeOK
    <3>9. QED
      BY <3>1, Bystander, <3>2
  <2>3. QED
    BY <2>1, <2>2
<1>6. ASSUME NEW w \in Workers, Start(w) PROVE GuardHeld(v)'
  <2>1. CASE v = w
    BY <1>6, <2>1 DEF Start, GuardHeld, TypeOK
  <2>2. CASE v # w
    <3>1. UNCHANGED <<phase[v], step[v], todo[v], seen[v]>>
      BY <1>6, <2>2 DEF Start, Failed, Forget, TypeOK
    <3>9. QED
      BY <3>1, Bystander, <1>6 DEF Start
  <2>3. QED
    BY <2>1, <2>2
<1>7. ASSUME NEW w \in Workers, Acquired(w) PROVE GuardHeld(v)'
  <2>1. CASE v = w
    BY <1>7, <2>1 DEF Acquired, GuardHeld, TypeOK
  <2>2. CASE v # w
    <3>1. UNCHANGED <<phase[v], step[v], todo[v], seen[v]>>
      BY <1>7, <2>2 DEF Acquired, Failed, Forget, TypeOK
    <3>9. QED
      BY <3>1, Bystander, <1>7 DEF Acquired
  <2>3. QED
    BY <2>1, <2>2
<1>8. ASSUME NEW w \in Workers, RolledBack(w) PROVE GuardHeld(v)'
  <2>1. CASE v = w
    BY <1>8, <2>1 DEF RolledBack, GuardHeld, TypeOK
  <2>2. CASE v # w
    <3>1. UNCHANGED <<phase[v], step[v], todo[v], seen[v]>>
      BY <1>8, <2>2 DEF RolledBack, Failed, Forget, TypeOK
    <3>9. QED
      BY <3>1, Bystander, <1>8 DEF RolledBack
  <2>3. QED
    BY <2>1, <2>2
<1>9. ASSUME NEW w \in Workers, Dispatch(w) PROVE GuardHeld(v)'
  <2>1. CASE v = w
    BY <1>9, <2>1 DEF Dispatch, GuardHeld, TypeOK
  <2>2. CASE v # w
    <3>1. UNCHANGED <<phase[v], step[v], todo[v], seen[v]>>
      BY <1>9, <2>2 DEF Dispatch, Failed, Forget, TypeOK
    <3>9. QED
      BY <3>1, Bystander, <1>9 DEF Dispatch
  <2>3. QED
    BY <2>1, <2>2
<1>10. ASSUME NEW w \in Workers, Renewed(w) PROVE GuardHeld(v)'
  <2>1. CASE v = w
    BY <1>10, <2>1 DEF Renewed, GuardHeld, TypeOK
  <2>2. CASE v # w
    <3>1. UNCHANGED <<phase[v], step[v], todo[v], seen[v]>>
      BY <1>10, <2>2 DEF Renewed, Failed, Forget, TypeOK
    <3>9. QED
      BY <3>1, Bystander, <1>10 DEF Renewed
  <2>3. QED
    BY <2>1, <2>2
<1>11. ASSUME NEW w \in Workers, Finish(w) PROVE GuardHeld(v)'
  <2>1. CASE v = w
    BY <1>11, <2>1 DEF Finish, GuardHeld, TypeOK
  <2>2. CASE v # w
    <3>1. UNCHANGED <<phase[v], step[v], todo[v], seen[v]>>
      BY <1>11, <2>2 DEF Finish, Failed, Forget, TypeOK
    <3>9. QED
      BY <3>1, Bystander, <1>11 DEF Finish
  <2>3. QED
    BY <2>1, <2>2
<1>12. ASSUME NEW w \in Workers, Gates(w) PROVE GuardHeld(v)'
  <2>1. CASE v = w
    BY <1>12, <2>1 DEF Gates, GuardHeld, TypeOK
  <2>2. CASE v # w
    <3>1. UNCHANGED <<phase[v], step[v], todo[v], seen[v]>>
      BY <1>12, <2>2 DEF Gates, Failed, Forget, TypeOK
    <3>9. QED
      BY <3>1, Bystander, <1>12 DEF Gates
  <2>3. QED
    BY <2>1, <2>2
<1>13. ASSUME NEW w \in Workers, Accept(w) PROVE GuardHeld(v)'
  <2>1. CASE v = w
    BY <1>13, <2>1 DEF Accept, GuardHeld, TypeOK
  <2>2. CASE v # w
    <3>1. UNCHANGED <<phase[v], step[v], todo[v], seen[v]>>
      BY <1>13, <2>2 DEF Accept, Failed, Forget, TypeOK
    <3>9. QED
      BY <3>1, Bystander, <1>13 DEF Accept
  <2>3. QED
    BY <2>1, <2>2
<1>14. ASSUME NEW w \in Workers, BeginRelease(w) PROVE GuardHeld(v)'
  <2>1. CASE v = w
    BY <1>14, <2>1 DEF BeginRelease, GuardHeld, TypeOK
  <2>2. CASE v # w
    <3>1. UNCHANGED <<phase[v], step[v], todo[v], seen[v]>>
      BY <1>14, <2>2 DEF BeginRelease, Failed, Forget, TypeOK
    <3>9. QED
      BY <3>1, Bystander, <1>14 DEF BeginRelease
  <2>3. QED
    BY <2>1, <2>2
<1>15. ASSUME NEW w \in Workers, Released(w) PROVE GuardHeld(v)'
  <2>1. CASE v = w
    BY <1>15, <2>1 DEF Released, GuardHeld, TypeOK
  <2>2. CASE v # w
    <3>1. UNCHANGED <<phase[v], step[v], todo[v], seen[v]>>
      BY <1>15, <2>2 DEF Released, Failed, Forget, TypeOK
    <3>9. QED
      BY <3>1, Bystander, <1>15 DEF Released
  <2>3. QED
    BY <2>1, <2>2
<1>16. ASSUME NEW w \in Workers, GiveUp(w) PROVE GuardHeld(v)'
  <2>1. CASE v = w
    BY <1>16, <2>1 DEF GiveUp, GuardHeld, TypeOK
  <2>2. CASE v # w
    <3>1. UNCHANGED <<phase[v], step[v], todo[v], seen[v]>>
      BY <1>16, <2>2 DEF GiveUp, Failed, Forget, TypeOK
    <3>9. QED
      BY <3>1, Bystander, <1>16 DEF GiveUp
  <2>3. QED
    BY <2>1, <2>2
<1>17. ASSUME NEW w \in Workers, Heartbeat(w) PROVE GuardHeld(v)'
  <2>1. CASE v = w
    BY <1>17, <2>1 DEF Heartbeat, GuardHeld, TypeOK
  <2>2. CASE v # w
    <3>1. UNCHANGED <<phase[v], step[v], todo[v], seen[v]>>
      BY <1>17, <2>2 DEF Heartbeat, Failed, Forget, TypeOK
    <3>9. QED
      BY <3>1, Bystander, <1>17 DEF Heartbeat
  <2>3. QED
    BY <2>1, <2>2
<1>18. ASSUME NEW w \in Workers, Crash(w) PROVE GuardHeld(v)'
  <2>1. CASE v = w
    BY <1>18, <2>1 DEF Crash, GuardHeld, TypeOK
  <2>2. CASE v # w
    <3>1. UNCHANGED <<phase[v], step[v], todo[v], seen[v]>>
      BY <1>18, <2>2 DEF Crash, Failed, Forget, TypeOK
    <3>9. QED
      BY <3>1, Bystander, <1>18 DEF Crash
  <2>3. QED
    BY <2>1, <2>2
<1>19. ASSUME NEW r \in Resources, ClearGuard(r) PROVE GuardHeld(v)'
  <2>1. step[v] # "none" => guard'[Target(v)] = guard[Target(v)]
    BY <1>19 DEF ClearGuard, Guarded, GuardHeld, Transacting, TypeOK
  <2>2. QED
    BY <1>19, <2>1, Bystander DEF ClearGuard
<1>20. CASE Tick
  BY <1>20, Bystander DEF Tick
<1>21. CASE UNCHANGED vars
  BY <1>21, Bystander DEF vars
<1>22. QED
  BY <1>1, <1>2, <1>3, <1>4, <1>5, <1>6, <1>7, <1>8, <1>9, <1>10, <1>11, <1>12, <1>13, <1>14, <1>15, <1>16, <1>17, <1>18, <1>19, <1>20, <1>21 DEF Next, Proceed, Transact


(* What is renamed replaces the record the transaction has just read.        *)
LEMMA RenameExact ==
    ASSUME TypeOK, Guarded, NEW w \in Workers, Rename(w)
    PROVE /\ Target(w) \in Resources /\ seen[w] = record[Target(w)]
          /\ record' = [record EXCEPT ![Target(w)] = Candidate(w)]
          /\ phase[w] = "acquire" => record[Target(w)].owner = NoOne /\ Candidate(w).owner = w
          /\ phase[w] = "renew" => record[Target(w)].owner = w /\ Candidate(w).owner = w
          /\ phase[w] \in {"rollback", "release"} => record[Target(w)].owner = w /\ Candidate(w).owner = NoOne
          /\ phase[w] \in Transacting
<1>1. step[w] = "rename" /\ Accepts(w) /\ record' = [record EXCEPT ![Target(w)] = Candidate(w)]
  BY DEF Rename
<1>2. GuardHeld(w)
  BY DEF Guarded
<1>3. phase[w] \in Transacting /\ todo[w] # {} /\ seen[w] = record[Target(w)]
  BY <1>1, <1>2 DEF GuardHeld
<1>4. Target(w) \in Resources
  BY <1>3, TargetIn
<1>5. CASE phase[w] = "acquire"
  BY <1>1, <1>3, <1>4, <1>5 DEF Accepts, Candidate
<1>6. CASE phase[w] = "renew"
  BY <1>1, <1>3, <1>4, <1>6 DEF Accepts, Candidate, Current, Owns
<1>7. CASE phase[w] \in {"rollback", "release"}
  BY <1>1, <1>3, <1>4, <1>7 DEF Accepts, Candidate, Current, Owns, Unclaimed
<1>8. QED
  BY <1>3, <1>5, <1>6, <1>7 DEF Transacting

LEMMA DeclineSame == ASSUME TypeOK, Guarded, NEW w \in Workers, Decline(w) PROVE record' = record
<1>1. step[w] = "rename" /\ GuardHeld(w)
  BY DEF Decline, Guarded
<1>2. seen[w] = record[Target(w)] /\ Target(w) \in Resources
  BY <1>1, TargetIn DEF GuardHeld
<1>3. QED
  BY <1>2 DEF Decline, TypeOK

LEMMA ClaimsStep == TypeOK /\ Guarded /\ ClaimsOnFile /\ [Next]_vars => ClaimsOnFile'
<1> SUFFICES ASSUME TypeOK, Guarded, ClaimsOnFile, [Next]_vars PROVE ClaimsOnFile'
  OBVIOUS
<1> USE DEF ClaimsOnFile, Owns, Between, loop, transaction
<1>1. ASSUME NEW w \in Workers, Open(w) PROVE ClaimsOnFile'
  BY <1>1 DEF Open
<1>2. ASSUME NEW w \in Workers, Read(w) PROVE ClaimsOnFile'
  BY <1>2 DEF Read
<1>3. ASSUME NEW w \in Workers, Rename(w) PROVE ClaimsOnFile'
  <2> SUFFICES ASSUME NEW v \in Workers, NEW r \in claims'[v] PROVE record'[r].owner = v
    OBVIOUS
  <2> DEFINE t == Target(w)
  <2>1. claims' = [claims EXCEPT ![w] = IF phase[w] \in {"acquire", "renew"} THEN @ \cup {t} ELSE @ \ {t}]
    BY <1>3 DEF Rename
  <2>2. CASE v = w
    <3>1. CASE r = t
      BY <1>3, <2>1, <2>2, <3>1, RenameExact DEF TypeOK, Transacting
    <3>2. CASE r # t
      BY <1>3, <2>1, <2>2, <3>2, RenameExact DEF TypeOK
    <3>3. QED
      BY <3>1, <3>2
  <2>3. CASE v # w
    <3>1. r \in claims[v] /\ record[r].owner = v
      BY <2>1, <2>3 DEF TypeOK
    <3>2. r # t
      BY <1>3, <2>3, <3>1, RenameExact, ClaimsAssumption DEF Transacting
    <3>3. QED
      BY <1>3, <3>1, <3>2, RenameExact DEF TypeOK
  <2>4. QED
    BY <2>2, <2>3
<1>4. ASSUME NEW w \in Workers, Decline(w) PROVE ClaimsOnFile'
  BY <1>4, DeclineSame DEF Decline
<1>5. ASSUME NEW w \in Workers, Unguard(w) PROVE ClaimsOnFile'
  BY <1>5 DEF Unguard
<1>6. ASSUME NEW w \in Workers, Start(w) PROVE ClaimsOnFile'
  BY <1>6 DEF Start
<1>7. ASSUME NEW w \in Workers, Acquired(w) PROVE ClaimsOnFile'
  BY <1>7 DEF Acquired
<1>8. ASSUME NEW w \in Workers, RolledBack(w) PROVE ClaimsOnFile'
  BY <1>8 DEF RolledBack
<1>9. ASSUME NEW w \in Workers, Dispatch(w) PROVE ClaimsOnFile'
  BY <1>9 DEF Dispatch
<1>10. ASSUME NEW w \in Workers, Renewed(w) PROVE ClaimsOnFile'
  BY <1>10 DEF Renewed
<1>11. ASSUME NEW w \in Workers, Finish(w) PROVE ClaimsOnFile'
  BY <1>11 DEF Finish
<1>12. ASSUME NEW w \in Workers, Gates(w) PROVE ClaimsOnFile'
  BY <1>12 DEF Gates
<1>13. ASSUME NEW w \in Workers, Accept(w) PROVE ClaimsOnFile'
  BY <1>13 DEF Accept
<1>14. ASSUME NEW w \in Workers, BeginRelease(w) PROVE ClaimsOnFile'
  BY <1>14 DEF BeginRelease
<1>15. ASSUME NEW w \in Workers, Released(w) PROVE ClaimsOnFile'
  BY <1>15 DEF Released
<1>16. ASSUME NEW w \in Workers, GiveUp(w) PROVE ClaimsOnFile'
  BY <1>16 DEF GiveUp
<1>17. ASSUME NEW w \in Workers, Heartbeat(w) PROVE ClaimsOnFile'
  BY <1>17 DEF Heartbeat
<1>18. ASSUME NEW w \in Workers, Crash(w) PROVE ClaimsOnFile'
  BY <1>18 DEF Crash
<1>19. ASSUME NEW r \in Resources, ClearGuard(r) PROVE ClaimsOnFile'
  BY <1>19 DEF ClearGuard
<1>20. CASE Tick
  BY <1>20 DEF Tick
<1>21. CASE UNCHANGED vars
  BY <1>21 DEF vars
<1>22. QED
  BY <1>1, <1>2, <1>3, <1>4, <1>5, <1>6, <1>7, <1>8, <1>9, <1>10, <1>11, <1>12, <1>13, <1>14, <1>15, <1>16, <1>17, <1>18, <1>19, <1>20, <1>21 DEF Next, Proceed, Transact

(* A worker the step leaves in its transaction, or dead.                     *)
Undisturbed(u) == /\ phase[u] = "dead" => phase'[u] = "dead"
                  /\ step[u] # "none" => \/ step'[u] # "none" /\ todo'[u] = todo[u]
                                         \/ phase'[u] = "dead"

(* A guard that stays in place is explained as long as its maker is          *)
(* undisturbed.                                                              *)
LEMMA GuardExplained ==
    ASSUME TypeOK, GuardNeverLeft,
           \A r \in Resources : guard'[r] # NoOne =>
               \/ guard'[r] = guard[r] /\ Undisturbed(guard[r])
               \/ step'[guard'[r]] # "none" /\ First(todo'[guard'[r]]) = r
    PROVE  GuardNeverLeft'
BY DEF TypeOK, GuardNeverLeft, InTransaction, Target, Undisturbed

(* Whoever made a guard is still in the transaction, or died in it.          *)
LEMMA GuardStep == TypeOK /\ Guarded /\ GuardNeverLeft /\ [Next]_vars => GuardNeverLeft'
<1> SUFFICES ASSUME TypeOK, Guarded, GuardNeverLeft, [Next]_vars PROVE GuardNeverLeft'
  OBVIOUS
<1>a. ASSUME NEW w \in Workers, phase[w] # "dead", guard' = guard, \A u \in Workers \ {w} : phase'[u] = phase[u],
             \/ step[w] = "none" /\ step' = step
             \/ step'[w] # "none" /\ \A u \in Workers \ {w} : step'[u] = step[u],
             step[w] = "none" \/ todo'[w] = todo[w], \A u \in Workers \ {w} : todo'[u] = todo[u]
      PROVE  GuardNeverLeft'
  <2>1. \A u \in Workers : Undisturbed(u)
    BY <1>a DEF Undisturbed
  <2>2. QED
    BY <1>a, <2>1, GuardExplained DEF TypeOK
<1>1. ASSUME NEW w \in Workers, Open(w) PROVE GuardNeverLeft'
  <2>0. step[w] = "none" /\ phase[w] # "dead" /\ todo[w] # {}
    BY <1>1 DEF Open, Transacting
  <2>1. CASE guard[Target(w)] # NoOne
    <3>1. guard' = guard /\ step' = step
      BY <1>1, <2>1 DEF Open
    <3>2. \A u \in Workers \ {w} : phase'[u] = phase[u] /\ todo'[u] = todo[u]
      BY <1>1, <2>1 DEF Open, Failed, Enter, TypeOK
    <3>3. QED
      BY <3>1, <3>2, <2>0, <1>a
  <2>2. CASE guard[Target(w)] = NoOne
    <3>1. /\ guard' = [guard EXCEPT ![Target(w)] = w] /\ step' = [step EXCEPT ![w] = "read"]
          /\ phase' = phase /\ todo' = todo
      BY <1>1, <2>2 DEF Open
    <3>2. \A u \in Workers \ {w} : Undisturbed(u)
      BY <3>1 DEF Undisturbed, TypeOK
    <3>3. Target(w) \in Resources
      BY <2>0, TargetIn
    <3>4. \A r \in Resources \ {Target(w)} : guard'[r] = guard[r] /\ guard[r] # w
      BY <2>0, <3>1, ClaimsAssumption DEF GuardNeverLeft, InTransaction, TypeOK
    <3>5. guard'[Target(w)] = w /\ step'[w] # "none" /\ First(todo'[w]) = Target(w)
      BY <3>1, <3>3 DEF Target, TypeOK
    <3>6. \A r \in Resources \ {Target(w)} : guard'[r] # NoOne => Undisturbed(guard[r])
      BY <3>2, <3>4 DEF TypeOK
    <3>7. QED
      BY <3>4, <3>5, <3>6, GuardExplained
  <2>3. QED
    BY <2>1, <2>2
<1>2. ASSUME NEW w \in Workers, Read(w) \/ Rename(w) \/ Decline(w) PROVE GuardNeverLeft'
  <2>1. /\ guard' = guard /\ phase' = phase /\ todo' = todo /\ step[w] # "none"
        /\ \/ step' = [step EXCEPT ![w] = "rename"]
           \/ step' = [step EXCEPT ![w] = "unguard"]
           \/ step' = [step EXCEPT ![w] = "unguardFailed"]
    BY <1>2 DEF Read, Rename, Decline, loop
  <2>2. phase[w] # "dead"
    BY <2>1 DEF Guarded, GuardHeld, Transacting
  <2>3. step'[w] # "none" /\ \A u \in Workers \ {w} : step'[u] = step[u]
    BY <2>1 DEF TypeOK
  <2>4. QED
    BY <2>1, <2>2, <2>3, <1>a
<1>3. ASSUME NEW w \in Workers, Unguard(w) PROVE GuardNeverLeft'
  <2>1. /\ guard' = [guard EXCEPT ![Target(w)] = NoOne] /\ step' = [step EXCEPT ![w] = "none"]
        /\ step[w] # "none"
    BY <1>3 DEF Unguard
  <2>2. \A u \in Workers \ {w} : phase'[u] = phase[u] /\ todo'[u] = todo[u]
    BY <1>3 DEF Unguard, Failed, Enter, TypeOK
  <2>3. phase[w] # "dead" /\ Target(w) \in Resources
    BY <2>1, TargetIn DEF Guarded, GuardHeld, Transacting
  <2>4. \A u \in Workers \ {w} : Undisturbed(u)
    BY <2>1, <2>2 DEF Undisturbed, TypeOK
  <2>5. guard'[Target(w)] = NoOne
    BY <2>1, <2>3 DEF TypeOK
  <2>6. \A r \in Resources \ {Target(w)} : guard'[r] = guard[r] /\ guard[r] # w
    BY <2>1, <2>3, ClaimsAssumption DEF GuardNeverLeft, InTransaction, TypeOK
  <2>7. \A r \in Resources \ {Target(w)} : guard'[r] # NoOne => Undisturbed(guard[r])
    BY <2>4, <2>6 DEF TypeOK
  <2>8. QED
    BY <2>5, <2>6, <2>7, GuardExplained
<1>4. ASSUME NEW w \in Workers, Start(w) PROVE GuardNeverLeft'
  <2>1. guard' = guard /\ step' = step /\ step[w] = "none" /\ phase[w] # "dead"
    BY <1>4 DEF Start, Between, transaction
  <2>2. \A u \in Workers \ {w} : phase'[u] = phase[u] /\ todo'[u] = todo[u]
    BY <1>4 DEF Start, Enter, TypeOK, loop
  <2>3. QED
    BY <2>1, <2>2, <1>a
<1>5. ASSUME NEW w \in Workers, Acquired(w) PROVE GuardNeverLeft'
  <2>1. guard' = guard /\ step' = step /\ step[w] = "none" /\ phase[w] # "dead"
    BY <1>5 DEF Acquired, Between, transaction
  <2>2. \A u \in Workers \ {w} : phase'[u] = phase[u] /\ todo'[u] = todo[u]
    BY <1>5 DEF Acquired, Enter, TypeOK, loop
  <2>3. QED
    BY <2>1, <2>2, <1>a
<1>6. ASSUME NEW w \in Workers, RolledBack(w) PROVE GuardNeverLeft'
  <2>1. guard' = guard /\ step' = step /\ step[w] = "none" /\ phase[w] # "dead"
    BY <1>6 DEF RolledBack, Between, transaction
  <2>2. \A u \in Workers \ {w} : phase'[u] = phase[u] /\ todo'[u] = todo[u]
    BY <1>6 DEF RolledBack, Enter, TypeOK, loop
  <2>3. QED
    BY <2>1, <2>2, <1>a
<1>7. ASSUME NEW w \in Workers, Dispatch(w) PROVE GuardNeverLeft'
  <2>1. guard' = guard /\ step' = step /\ step[w] = "none" /\ phase[w] # "dead"
    BY <1>7 DEF Dispatch, Between, transaction
  <2>2. \A u \in Workers \ {w} : phase'[u] = phase[u] /\ todo'[u] = todo[u]
    BY <1>7 DEF Dispatch, Enter, TypeOK, loop
  <2>3. QED
    BY <2>1, <2>2, <1>a
<1>8. ASSUME NEW w \in Workers, Renewed(w) PROVE GuardNeverLeft'
  <2>1. guard' = guard /\ step' = step /\ step[w] = "none" /\ phase[w] # "dead"
    BY <1>8 DEF Renewed, Between, transaction
  <2>2. \A u \in Workers \ {w} : phase'[u] = phase[u] /\ todo'[u] = todo[u]
    BY <1>8 DEF Renewed, Enter, TypeOK, loop
  <2>3. QED
    BY <2>1, <2>2, <1>a
<1>9. ASSUME NEW w \in Workers, Finish(w) PROVE GuardNeverLeft'
  <2>1. guard' = guard /\ step' = step /\ step[w] = "none" /\ phase[w] # "dead"
    BY <1>9 DEF Finish, Between, transaction
  <2>2. \A u \in Workers \ {w} : phase'[u] = phase[u] /\ todo'[u] = todo[u]
    BY <1>9 DEF Finish, Enter, TypeOK, loop
  <2>3. QED
    BY <2>1, <2>2, <1>a
<1>10. ASSUME NEW w \in Workers, Gates(w) PROVE GuardNeverLeft'
  <2>1. guard' = guard /\ step' = step /\ step[w] = "none" /\ phase[w] # "dead"
    BY <1>10 DEF Gates, Between, transaction
  <2>2. \A u \in Workers \ {w} : phase'[u] = phase[u] /\ todo'[u] = todo[u]
    BY <1>10 DEF Gates, Enter, TypeOK, loop
  <2>3. QED
    BY <2>1, <2>2, <1>a
<1>11. ASSUME NEW w \in Workers, Accept(w) PROVE GuardNeverLeft'
  <2>1. guard' = guard /\ step' = step /\ step[w] = "none" /\ phase[w] # "dead"
    BY <1>11 DEF Accept, Between, transaction
  <2>2. \A u \in Workers \ {w} : phase'[u] = phase[u] /\ todo'[u] = todo[u]
    BY <1>11 DEF Accept, Enter, TypeOK, loop
  <2>3. QED
    BY <2>1, <2>2, <1>a
<1>12. ASSUME NEW w \in Workers, BeginRelease(w) PROVE GuardNeverLeft'
  <2>1. guard' = guard /\ step' = step /\ step[w] = "none" /\ phase[w] # "dead"
    BY <1>12 DEF BeginRelease, Between, transaction
  <2>2. \A u \in Workers \ {w} : phase'[u] = phase[u] /\ todo'[u] = todo[u]
    BY <1>12 DEF BeginRelease, Enter, TypeOK, loop
  <2>3. QED
    BY <2>1, <2>2, <1>a
<1>13. ASSUME NEW w \in Workers, Released(w) PROVE GuardNeverLeft'
  <2>1. guard' = guard /\ step' = step /\ step[w] = "none" /\ phase[w] # "dead"
    BY <1>13 DEF Released, Between, transaction
  <2>2. \A u \in Workers \ {w} : phase'[u] = phase[u] /\ todo'[u] = todo[u]
    BY <1>13 DEF Released, Enter, TypeOK, loop
  <2>3. QED
    BY <2>1, <2>2, <1>a
<1>14. ASSUME NEW w \in Workers, GiveUp(w) PROVE GuardNeverLeft'
  <2>1. guard' = guard /\ step' = step /\ step[w] = "none" /\ phase[w] # "dead"
    BY <1>14 DEF GiveUp, Between, transaction
  <2>2. \A u \in Workers \ {w} : phase'[u] = phase[u] /\ todo'[u] = todo[u]
    BY <1>14 DEF GiveUp, Enter, TypeOK, loop
  <2>3. QED
    BY <2>1, <2>2, <1>a
<1>15. ASSUME NEW w \in Workers, Heartbeat(w) PROVE GuardNeverLeft'
  <2>1. guard' = guard /\ step' = step /\ step[w] = "none" /\ phase[w] # "dead"
    BY <1>15 DEF Heartbeat, Between, transaction
  <2>2. \A u \in Workers \ {w} : phase'[u] = phase[u] /\ todo'[u] = todo[u]
    BY <1>15 DEF Heartbeat, Enter, TypeOK, loop
  <2>3. QED
    BY <2>1, <2>2, <1>a
<1>16. ASSUME NEW w \in Workers, Crash(w) PROVE GuardNeverLeft'
  <2>1. /\ guard' = guard /\ todo' = todo /\ phase' = [phase EXCEPT ![w] = "dead"]
        /\ step' = [step EXCEPT ![w] = "none"]
    BY <1>16 DEF Crash, Enter, loop
  <2>2. \A u \in Workers : Undisturbed(u)
    BY <2>1 DEF Undisturbed, TypeOK
  <2>3. QED
    BY <2>1, <2>2, GuardExplained DEF TypeOK
<1>17. ASSUME NEW q \in Resources, ClearGuard(q) PROVE GuardNeverLeft'
  <2>1. guard' = [guard EXCEPT ![q] = NoOne] /\ UNCHANGED <<phase, step, todo>>
    BY <1>17 DEF ClearGuard, transaction, loop
  <2>2. \A u \in Workers : Undisturbed(u)
    BY <2>1 DEF Undisturbed
  <2>3. \A r \in Resources : guard'[r] # NoOne => guard'[r] = guard[r] /\ guard[r] \in Workers
    BY <2>1 DEF TypeOK
  <2>4. QED
    BY <2>2, <2>3, GuardExplained
<1>18. CASE Tick \/ UNCHANGED vars
  <2>1. UNCHANGED <<guard, phase, step, todo>>
    BY <1>18 DEF Tick, vars, transaction, loop
  <2>2. \A u \in Workers : Undisturbed(u)
    BY <2>1 DEF Undisturbed
  <2>3. QED
    BY <2>1, <2>2, GuardExplained DEF TypeOK
<1>19. QED
  BY <1>1, <1>2, <1>3, <1>4, <1>5, <1>6, <1>7, <1>8, <1>9, <1>10, <1>11, <1>12, <1>13, <1>14, <1>15, <1>16, <1>17, <1>18 DEF Next, Proceed, Transact

(* What a worker claims is what its node needs: between the loop that        *)
(* acquires and the one that gives back, all of it.                          *)
Holding == {"ready", "renew", "executing", "gates", "accept", "accepted"}

Needed(w) == /\ claims[w] \subseteq needs[w] /\ todo[w] \subseteq needs[w]
             /\ phase[w] = "acquire" => /\ needs[w] \subseteq claims[w] \cup todo[w]
                                        /\ step[w] = "unguard" => Target(w) \in claims[w]
             /\ phase[w] \in Holding => needs[w] \subseteq claims[w]

AllNeeded == \A w \in Workers : Needed(w)

(* A step of one worker concerns no other.                                   *)
LEMMA OthersNeeded ==
    ASSUME AllNeeded, NEW w \in Workers,
           \A u \in Workers \ {w} : /\ claims'[u] = claims[u] /\ todo'[u] = todo[u] /\ needs'[u] = needs[u]
                                    /\ phase'[u] = phase[u] /\ step'[u] = step[u],
           Needed(w)'
    PROVE  AllNeeded'
BY DEF AllNeeded, Needed, Target

LEMMA NeededStep == TypeOK /\ Guarded /\ AllNeeded /\ [Next]_vars => AllNeeded'
<1> SUFFICES ASSUME TypeOK, Guarded, AllNeeded, [Next]_vars PROVE AllNeeded'
  OBVIOUS
<1>1. ASSUME NEW w \in Workers, Open(w) PROVE AllNeeded'
  <2>1. \A u \in Workers \ {w} : /\ claims'[u] = claims[u] /\ todo'[u] = todo[u] /\ needs'[u] = needs[u]
                                 /\ phase'[u] = phase[u] /\ step'[u] = step[u]
    BY <1>1 DEF Open, Failed, Between, Enter, TypeOK, loop, transaction
  <2>2. Needed(w)'
    BY <1>1 DEF Open, Failed, AllNeeded, Needed, Holding, Transacting, Between, Enter, TypeOK, loop, transaction, Target
  <2>3. QED
    BY <2>1, <2>2, OthersNeeded
<1>2. ASSUME NEW w \in Workers, Read(w) PROVE AllNeeded'
  <2>1. \A u \in Workers \ {w} : /\ claims'[u] = claims[u] /\ todo'[u] = todo[u] /\ needs'[u] = needs[u]
                                 /\ phase'[u] = phase[u] /\ step'[u] = step[u]
    BY <1>2 DEF Read, Between, Enter, TypeOK, loop, transaction
  <2>2. Needed(w)'
    BY <1>2 DEF Read, AllNeeded, Needed, Holding, Transacting, Between, Enter, TypeOK, loop, transaction, Target
  <2>3. QED
    BY <2>1, <2>2, OthersNeeded
<1>3. ASSUME NEW w \in Workers, Rename(w) PROVE AllNeeded'
  <2>1. \A u \in Workers \ {w} : /\ claims'[u] = claims[u] /\ todo'[u] = todo[u] /\ needs'[u] = needs[u]
                                 /\ phase'[u] = phase[u] /\ step'[u] = step[u]
    BY <1>3 DEF Rename, Between, Enter, TypeOK, loop, transaction
  <2>2. todo[w] # {} /\ Target(w) \in todo[w] /\ Target(w) \in Resources /\ phase[w] \in Transacting
    BY <1>3, TargetIn DEF Rename, Guarded, GuardHeld
  <2>3. Needed(w)'
    BY <1>3, <2>2 DEF Rename, AllNeeded, Needed, Holding, Transacting, Enter, TypeOK, loop, transaction, Target
  <2>4. QED
    BY <2>1, <2>3, OthersNeeded
<1>4. ASSUME NEW w \in Workers, Decline(w) PROVE AllNeeded'
  <2>1. \A u \in Workers \ {w} : /\ claims'[u] = claims[u] /\ todo'[u] = todo[u] /\ needs'[u] = needs[u]
                                 /\ phase'[u] = phase[u] /\ step'[u] = step[u]
    BY <1>4 DEF Decline, Between, Enter, TypeOK, loop, transaction
  <2>2. Needed(w)'
    BY <1>4 DEF Decline, AllNeeded, Needed, Holding, Transacting, Between, Enter, TypeOK, loop, transaction, Target
  <2>3. QED
    BY <2>1, <2>2, OthersNeeded
<1>5. ASSUME NEW w \in Workers, Unguard(w) PROVE AllNeeded'
  <2>1. \A u \in Workers \ {w} : /\ claims'[u] = claims[u] /\ todo'[u] = todo[u] /\ needs'[u] = needs[u]
                                 /\ phase'[u] = phase[u] /\ step'[u] = step[u]
    BY <1>5 DEF Unguard, Failed, Between, Enter, TypeOK, loop, transaction
  <2>2. todo[w] # {} /\ Target(w) \in todo[w] /\ Target(w) \in Resources /\ phase[w] \in Transacting
    BY <1>5, TargetIn DEF Unguard, Guarded, GuardHeld
  <2>3. Needed(w)'
    BY <1>5, <2>2 DEF Unguard, Failed, AllNeeded, Needed, Holding, Transacting, Enter, TypeOK, loop, transaction, Target
  <2>4. QED
    BY <2>1, <2>3, OthersNeeded
<1>6. ASSUME NEW w \in Workers, Start(w) PROVE AllNeeded'
  <2>1. \A u \in Workers \ {w} : /\ claims'[u] = claims[u] /\ todo'[u] = todo[u] /\ needs'[u] = needs[u]
                                 /\ phase'[u] = phase[u] /\ step'[u] = step[u]
    BY <1>6 DEF Start, Between, Enter, TypeOK, loop, transaction
  <2>2. Needed(w)'
    BY <1>6 DEF Start, AllNeeded, Needed, Holding, Transacting, Between, Enter, TypeOK, loop, transaction, Target
  <2>3. QED
    BY <2>1, <2>2, OthersNeeded
<1>7. ASSUME NEW w \in Workers, Acquired(w) PROVE AllNeeded'
  <2>1. \A u \in Workers \ {w} : /\ claims'[u] = claims[u] /\ todo'[u] = todo[u] /\ needs'[u] = needs[u]
                                 /\ phase'[u] = phase[u] /\ step'[u] = step[u]
    BY <1>7 DEF Acquired, Between, Enter, TypeOK, loop, transaction
  <2>2. Needed(w)'
    BY <1>7 DEF Acquired, AllNeeded, Needed, Holding, Transacting, Between, Enter, TypeOK, loop, transaction, Target
  <2>3. QED
    BY <2>1, <2>2, OthersNeeded
<1>8. ASSUME NEW w \in Workers, RolledBack(w) PROVE AllNeeded'
  <2>1. \A u \in Workers \ {w} : /\ claims'[u] = claims[u] /\ todo'[u] = todo[u] /\ needs'[u] = needs[u]
                                 /\ phase'[u] = phase[u] /\ step'[u] = step[u]
    BY <1>8 DEF RolledBack, Between, Enter, TypeOK, loop, transaction
  <2>2. Needed(w)'
    BY <1>8 DEF RolledBack, AllNeeded, Needed, Holding, Transacting, Between, Enter, TypeOK, loop, transaction, Target
  <2>3. QED
    BY <2>1, <2>2, OthersNeeded
<1>9. ASSUME NEW w \in Workers, Dispatch(w) PROVE AllNeeded'
  <2>1. \A u \in Workers \ {w} : /\ claims'[u] = claims[u] /\ todo'[u] = todo[u] /\ needs'[u] = needs[u]
                                 /\ phase'[u] = phase[u] /\ step'[u] = step[u]
    BY <1>9 DEF Dispatch, Between, Enter, TypeOK, loop, transaction
  <2>2. Needed(w)'
    BY <1>9 DEF Dispatch, AllNeeded, Needed, Holding, Transacting, Between, Enter, TypeOK, loop, transaction, Target
  <2>3. QED
    BY <2>1, <2>2, OthersNeeded
<1>10. ASSUME NEW w \in Workers, Renewed(w) PROVE AllNeeded'
  <2>1. \A u \in Workers \ {w} : /\ claims'[u] = claims[u] /\ todo'[u] = todo[u] /\ needs'[u] = needs[u]
                                 /\ phase'[u] = phase[u] /\ step'[u] = step[u]
    BY <1>10 DEF Renewed, Between, Enter, TypeOK, loop, transaction
  <2>2. Needed(w)'
    BY <1>10 DEF Renewed, AllNeeded, Needed, Holding, Transacting, Between, Enter, TypeOK, loop, transaction, Target
  <2>3. QED
    BY <2>1, <2>2, OthersNeeded
<1>11. ASSUME NEW w \in Workers, Finish(w) PROVE AllNeeded'
  <2>1. \A u \in Workers \ {w} : /\ claims'[u] = claims[u] /\ todo'[u] = todo[u] /\ needs'[u] = needs[u]
                                 /\ phase'[u] = phase[u] /\ step'[u] = step[u]
    BY <1>11 DEF Finish, Between, Enter, TypeOK, loop, transaction
  <2>2. Needed(w)'
    BY <1>11 DEF Finish, AllNeeded, Needed, Holding, Transacting, Between, Enter, TypeOK, loop, transaction, Target
  <2>3. QED
    BY <2>1, <2>2, OthersNeeded
<1>12. ASSUME NEW w \in Workers, Gates(w) PROVE AllNeeded'
  <2>1. \A u \in Workers \ {w} : /\ claims'[u] = claims[u] /\ todo'[u] = todo[u] /\ needs'[u] = needs[u]
                                 /\ phase'[u] = phase[u] /\ step'[u] = step[u]
    BY <1>12 DEF Gates, Between, Enter, TypeOK, loop, transaction
  <2>2. Needed(w)'
    BY <1>12 DEF Gates, AllNeeded, Needed, Holding, Transacting, Between, Enter, TypeOK, loop, transaction, Target
  <2>3. QED
    BY <2>1, <2>2, OthersNeeded
<1>13. ASSUME NEW w \in Workers, Accept(w) PROVE AllNeeded'
  <2>1. \A u \in Workers \ {w} : /\ claims'[u] = claims[u] /\ todo'[u] = todo[u] /\ needs'[u] = needs[u]
                                 /\ phase'[u] = phase[u] /\ step'[u] = step[u]
    BY <1>13 DEF Accept, Between, Enter, TypeOK, loop, transaction
  <2>2. Needed(w)'
    BY <1>13 DEF Accept, AllNeeded, Needed, Holding, Transacting, Between, Enter, TypeOK, loop, transaction, Target
  <2>3. QED
    BY <2>1, <2>2, OthersNeeded
<1>14. ASSUME NEW w \in Workers, BeginRelease(w) PROVE AllNeeded'
  <2>1. \A u \in Workers \ {w} : /\ claims'[u] = claims[u] /\ todo'[u] = todo[u] /\ needs'[u] = needs[u]
                                 /\ phase'[u] = phase[u] /\ step'[u] = step[u]
    BY <1>14 DEF BeginRelease, Between, Enter, TypeOK, loop, transaction
  <2>2. Needed(w)'
    BY <1>14 DEF BeginRelease, AllNeeded, Needed, Holding, Transacting, Between, Enter, TypeOK, loop, transaction, Target
  <2>3. QED
    BY <2>1, <2>2, OthersNeeded
<1>15. ASSUME NEW w \in Workers, Released(w) PROVE AllNeeded'
  <2>1. \A u \in Workers \ {w} : /\ claims'[u] = claims[u] /\ todo'[u] = todo[u] /\ needs'[u] = needs[u]
                                 /\ phase'[u] = phase[u] /\ step'[u] = step[u]
    BY <1>15 DEF Released, Between, Enter, TypeOK, loop, transaction
  <2>2. Needed(w)'
    BY <1>15 DEF Released, AllNeeded, Needed, Holding, Transacting, Between, Enter, TypeOK, loop, transaction, Target
  <2>3. QED
    BY <2>1, <2>2, OthersNeeded
<1>16. ASSUME NEW w \in Workers, GiveUp(w) PROVE AllNeeded'
  <2>1. \A u \in Workers \ {w} : /\ claims'[u] = claims[u] /\ todo'[u] = todo[u] /\ needs'[u] = needs[u]
                                 /\ phase'[u] = phase[u] /\ step'[u] = step[u]
    BY <1>16 DEF GiveUp, Between, Enter, TypeOK, loop, transaction
  <2>2. Needed(w)'
    BY <1>16 DEF GiveUp, AllNeeded, Needed, Holding, Transacting, Between, Enter, TypeOK, loop, transaction, Target
  <2>3. QED
    BY <2>1, <2>2, OthersNeeded
<1>17. ASSUME NEW w \in Workers, Heartbeat(w) PROVE AllNeeded'
  <2>1. \A u \in Workers \ {w} : /\ claims'[u] = claims[u] /\ todo'[u] = todo[u] /\ needs'[u] = needs[u]
                                 /\ phase'[u] = phase[u] /\ step'[u] = step[u]
    BY <1>17 DEF Heartbeat, Between, Enter, TypeOK, loop, transaction
  <2>2. Needed(w)'
    BY <1>17 DEF Heartbeat, AllNeeded, Needed, Holding, Transacting, Between, Enter, TypeOK, loop, transaction, Target
  <2>3. QED
    BY <2>1, <2>2, OthersNeeded
<1>18. ASSUME NEW w \in Workers, Crash(w) PROVE AllNeeded'
  <2>1. \A u \in Workers \ {w} : /\ claims'[u] = claims[u] /\ todo'[u] = todo[u] /\ needs'[u] = needs[u]
                                 /\ phase'[u] = phase[u] /\ step'[u] = step[u]
    BY <1>18 DEF Crash, Between, Enter, TypeOK, loop, transaction
  <2>2. Needed(w)'
    BY <1>18 DEF Crash, AllNeeded, Needed, Holding, Transacting, Between, Enter, TypeOK, loop, transaction, Target
  <2>3. QED
    BY <2>1, <2>2, OthersNeeded
<1>19. CASE Tick \/ (\E r \in Resources : ClearGuard(r)) \/ UNCHANGED vars
  BY <1>19 DEF Tick, ClearGuard, AllNeeded, Needed, Target, vars, transaction, loop
<1>20. QED
  BY <1>1, <1>2, <1>3, <1>4, <1>5, <1>6, <1>7, <1>8, <1>9, <1>10, <1>11, <1>12, <1>13, <1>14, <1>15, <1>16, <1>17, <1>18, <1>19 DEF Next, Proceed, Transact

IInv == TypeOK /\ Guarded /\ ClaimsOnFile /\ GuardNeverLeft /\ AllNeeded

LEMMA Inductive == Spec => []IInv
<1>1. Init => IInv
  <2>1. Init => GuardNeverLeft
    BY DEF Init, GuardNeverLeft
  <2>2. Init => AllNeeded
    BY DEF Init, AllNeeded, Needed, Holding
  <2>3. QED
    BY <2>1, <2>2, TypedInit DEF IInv
<1>2. IInv /\ [Next]_vars => IInv'
  BY TypedStep, GuardedStep, ClaimsStep, GuardStep, NeededStep DEF IInv
<1>3. QED
  BY <1>1, <1>2, PTL DEF Spec

(* Every variable keeps its type.                                            *)
THEOREM TypeCorrect == Spec => []TypeOK
<1>1. IInv => TypeOK
  BY DEF IInv
<1>2. QED
  BY <1>1, Inductive, PTL

(* A claim in hand is on file for good: neither expiry nor the death of its  *)
(* owner transfers it.                                                       *)
THEOREM ExpiryNeverTransfers == Spec => []ClaimsOnFile
<1>1. IInv => ClaimsOnFile
  BY DEF IInv
<1>2. QED
  BY <1>1, Inductive, PTL

(* A guard file is there only while the transaction that made it is under    *)
(* way, or since its process died in it: a refusal or a throw frees it.      *)
THEOREM GuardsFreed == Spec => []GuardNeverLeft
<1>1. IInv => GuardNeverLeft
  BY DEF IInv
<1>2. QED
  BY <1>1, Inductive, PTL

(* A worker executes and accepts only with every resource of its node.       *)
THEOREM AllOrNothing == Spec => []UsesAllItNeeds
<1>1. IInv => UsesAllItNeeds
  BY DEF IInv, AllNeeded, Needed, Holding, UsesAllItNeeds
<1>2. QED
  BY <1>1, Inductive, PTL

(* No resource is used by two workers, a worker that died or was parked with *)
(* uncertain effects included.                                               *)
THEOREM UseExcludes == Spec => []ExclusiveUse
<1>1. IInv => ExclusiveUse
  BY DEF IInv, ClaimsOnFile, ExclusiveUse, Using, Owns
<1>2. QED
  BY <1>1, Inductive, PTL
-----------------------------------------------------------------------------
(* A step that changes no record moves a lock only if the owner ends.        *)
LEMMA PhaseStep ==
    ASSUME IInv, NEW w \in Workers, NEW r \in Resources, phase[w] \notin Ended,
           record' = record, \E p \in Phases : phase' = [phase EXCEPT ![w] = p]
    PROVE L(r)!Next \/ UNCHANGED Holder(r)
<1>1. PICK p \in Phases : phase' = [phase EXCEPT ![w] = p]
  OBVIOUS
<1>2. record[r].owner \in Workers \cup {NoOne}
  BY RecordFacts DEF IInv, TypeOK
<1>3. CASE record[r].owner = w /\ p \in Ended
  <2>1. Holder(r) = w /\ Holder(r)' = Wedged
    BY <1>1, <1>3, ClaimsAssumption DEF Holder, IInv, TypeOK
  <2>2. L(r)!Abandon(w)
    BY <2>1 DEF L!Abandon
  <2>3. QED
    BY <2>2 DEF L!Next
<1>4. CASE record[r].owner = w /\ p \notin Ended
  BY <1>1, <1>4, ClaimsAssumption DEF Holder, IInv, TypeOK
<1>5. CASE record[r].owner # w
  BY <1>1, <1>2, <1>5, ClaimsAssumption DEF Holder, IInv, TypeOK
<1>6. QED
  BY <1>3, <1>4, <1>5

LEMMA FailedPhase ==
    ASSUME IInv, NEW w \in Workers, NEW why \in {"contention", "reconciliation"}, phase[w] \in Transacting,
           Failed(w, why)
    PROVE \E p \in Phases : phase' = [phase EXCEPT ![w] = p]
<1>1. PICK p \in {"rollback", "executing", "thrown", "parked"} : phase' = [phase EXCEPT ![w] = p]
  BY DEF Failed, Transacting, Enter
<1>2. QED
  BY <1>1 DEF Phases, Transacting, Ended

LEMMA LockStep == ASSUME NEW x \in Resources
                  PROVE IInv /\ [Next]_vars => L(x)!Next \/ UNCHANGED Holder(x)
<1> SUFFICES ASSUME IInv, [Next]_vars PROVE L(x)!Next \/ UNCHANGED Holder(x)
  OBVIOUS
<1> USE DEF Between, Enter, loop, transaction
<1>1. ASSUME NEW w \in Workers, Open(w) PROVE L(x)!Next \/ UNCHANGED Holder(x)
  <2>1. phase[w] \notin Ended /\ record' = record
    BY <1>1 DEF Open, Transacting, Ended
  <2>2. CASE guard[Target(w)] = NoOne
    BY <1>1, <2>1, <2>2 DEF Open, Holder
  <2>3. CASE guard[Target(w)] # NoOne
    <3>1. Failed(w, "contention") /\ phase[w] \in Transacting
      BY <1>1, <2>3 DEF Open
    <3>2. \E p \in Phases : phase' = [phase EXCEPT ![w] = p]
      BY <3>1, FailedPhase
    <3>3. QED
      BY <2>1, <3>2, PhaseStep
  <2>4. QED
    BY <2>2, <2>3
<1>2. ASSUME NEW w \in Workers, Read(w) PROVE L(x)!Next \/ UNCHANGED Holder(x)
  BY <1>2 DEF Read, Holder
<1>3. ASSUME NEW w \in Workers, Rename(w) PROVE L(x)!Next \/ UNCHANGED Holder(x)
  <2> DEFINE t == Target(w)
  <2>1. UNCHANGED phase /\ phase[w] \notin Ended
    BY <1>3, RenameExact DEF Rename, IInv, Transacting, Ended
  <2>2. CASE x # t
    <3>1. record'[x] = record[x]
      BY <1>3, <2>2, RenameExact DEF IInv, TypeOK
    <3>2. QED
      BY <2>1, <3>1 DEF Holder
  <2>3. CASE x = t
    <3>1. record'[x] = Candidate(w)
      BY <1>3, <2>3, RenameExact DEF IInv, TypeOK
    <3>2. CASE phase[w] = "acquire"
      <4>1. record[x].owner = NoOne /\ record'[x].owner = w
        BY <1>3, <2>3, <3>1, <3>2, RenameExact DEF IInv
      <4>2. Holder(x) = NoOne /\ Holder(x)' = w
        BY <2>1, <4>1, ClaimsAssumption DEF Holder
      <4>3. QED
        BY <4>2 DEF L!Acquire, L!Next
    <3>3. CASE phase[w] = "renew"
      <4>1. record[x].owner = w /\ record'[x].owner = w
        BY <1>3, <2>3, <3>1, <3>3, RenameExact DEF IInv
      <4>2. QED
        BY <2>1, <4>1 DEF Holder
    <3>4. CASE phase[w] \in {"rollback", "release"}
      <4>1. record[x].owner = w /\ record'[x].owner = NoOne
        BY <1>3, <2>3, <3>1, <3>4, RenameExact DEF IInv
      <4>2. Holder(x) = w /\ Holder(x)' = NoOne
        BY <2>1, <4>1, ClaimsAssumption DEF Holder
      <4>3. QED
        BY <4>2 DEF L!Release, L!Next
    <3>5. QED
      BY <1>3, <3>2, <3>3, <3>4, RenameExact DEF IInv, Transacting
  <2>4. QED
    BY <2>2, <2>3
<1>4. ASSUME NEW w \in Workers, Decline(w) PROVE L(x)!Next \/ UNCHANGED Holder(x)
  <2>1. record' = record
    BY <1>4, DeclineSame DEF IInv
  <2>2. QED
    BY <1>4, <2>1 DEF Decline, Holder
<1>5. ASSUME NEW w \in Workers, Unguard(w) PROVE L(x)!Next \/ UNCHANGED Holder(x)
  <2>1. phase[w] \in Transacting /\ phase[w] \notin Ended /\ record' = record
    BY <1>5 DEF Unguard, IInv, Guarded, GuardHeld, Transacting, Ended
  <2>2. CASE step[w] = "unguard"
    BY <1>5, <2>1, <2>2 DEF Unguard, Holder
  <2>3. CASE step[w] # "unguard"
    <3>1. PICK why \in {"contention", "reconciliation"} : Failed(w, why)
      BY <1>5, <2>3 DEF Unguard
    <3>2. \E p \in Phases : phase' = [phase EXCEPT ![w] = p]
      BY <2>1, <3>1, FailedPhase
    <3>3. QED
      BY <2>1, <3>2, PhaseStep
  <2>4. QED
    BY <2>2, <2>3
<1>6. ASSUME NEW w \in Workers, Start(w) PROVE L(x)!Next \/ UNCHANGED Holder(x)
  <2>1. phase[w] \notin Ended /\ record' = record /\ \E p \in Phases : phase' = [phase EXCEPT ![w] = p]
    BY <1>6 DEF Start, Phases, Transacting, Ended
  <2>2. QED
    BY <2>1, PhaseStep
<1>7. ASSUME NEW w \in Workers, Acquired(w) PROVE L(x)!Next \/ UNCHANGED Holder(x)
  <2>1. phase[w] \notin Ended /\ record' = record /\ \E p \in Phases : phase' = [phase EXCEPT ![w] = p]
    BY <1>7 DEF Acquired, Phases, Transacting, Ended
  <2>2. QED
    BY <2>1, PhaseStep
<1>8. ASSUME NEW w \in Workers, RolledBack(w) PROVE L(x)!Next \/ UNCHANGED Holder(x)
  <2>1. phase[w] \notin Ended /\ record' = record /\ \E p \in Phases : phase' = [phase EXCEPT ![w] = p]
    BY <1>8 DEF RolledBack, Phases, Transacting, Ended
  <2>2. QED
    BY <2>1, PhaseStep
<1>9. ASSUME NEW w \in Workers, Dispatch(w) PROVE L(x)!Next \/ UNCHANGED Holder(x)
  <2>1. phase[w] \notin Ended /\ record' = record /\ \E p \in Phases : phase' = [phase EXCEPT ![w] = p]
    BY <1>9 DEF Dispatch, Phases, Transacting, Ended
  <2>2. QED
    BY <2>1, PhaseStep
<1>10. ASSUME NEW w \in Workers, Renewed(w) PROVE L(x)!Next \/ UNCHANGED Holder(x)
  <2>1. phase[w] \notin Ended /\ record' = record /\ \E p \in Phases : phase' = [phase EXCEPT ![w] = p]
    BY <1>10 DEF Renewed, Phases, Transacting, Ended
  <2>2. QED
    BY <2>1, PhaseStep
<1>11. ASSUME NEW w \in Workers, Finish(w) PROVE L(x)!Next \/ UNCHANGED Holder(x)
  <2>1. phase[w] \notin Ended /\ record' = record /\ \E p \in Phases : phase' = [phase EXCEPT ![w] = p]
    BY <1>11 DEF Finish, Phases, Transacting, Ended
  <2>2. QED
    BY <2>1, PhaseStep
<1>12. ASSUME NEW w \in Workers, Gates(w) PROVE L(x)!Next \/ UNCHANGED Holder(x)
  <2>1. phase[w] \notin Ended /\ record' = record /\ \E p \in Phases : phase' = [phase EXCEPT ![w] = p]
    BY <1>12 DEF Gates, Phases, Transacting, Ended
  <2>2. QED
    BY <2>1, PhaseStep
<1>13. ASSUME NEW w \in Workers, Accept(w) PROVE L(x)!Next \/ UNCHANGED Holder(x)
  <2>1. phase[w] \notin Ended /\ record' = record /\ \E p \in Phases : phase' = [phase EXCEPT ![w] = p]
    BY <1>13 DEF Accept, Phases, Transacting, Ended
  <2>2. QED
    BY <2>1, PhaseStep
<1>14. ASSUME NEW w \in Workers, BeginRelease(w) PROVE L(x)!Next \/ UNCHANGED Holder(x)
  <2>1. phase[w] \notin Ended /\ record' = record /\ \E p \in Phases : phase' = [phase EXCEPT ![w] = p]
    BY <1>14 DEF BeginRelease, Phases, Transacting, Ended
  <2>2. QED
    BY <2>1, PhaseStep
<1>15. ASSUME NEW w \in Workers, Released(w) PROVE L(x)!Next \/ UNCHANGED Holder(x)
  <2>1. phase[w] \notin Ended /\ record' = record /\ \E p \in Phases : phase' = [phase EXCEPT ![w] = p]
    BY <1>15 DEF Released, Phases, Transacting, Ended
  <2>2. QED
    BY <2>1, PhaseStep
<1>16. ASSUME NEW w \in Workers, GiveUp(w) PROVE L(x)!Next \/ UNCHANGED Holder(x)
  <2>1. phase[w] \notin Ended /\ record' = record /\ \E p \in Phases : phase' = [phase EXCEPT ![w] = p]
    BY <1>16 DEF GiveUp, Phases, Transacting, Ended
  <2>2. QED
    BY <2>1, PhaseStep
<1>17. ASSUME NEW w \in Workers, Heartbeat(w) PROVE L(x)!Next \/ UNCHANGED Holder(x)
  <2>1. phase[w] \notin Ended /\ record' = record /\ \E p \in Phases : phase' = [phase EXCEPT ![w] = p]
    BY <1>17 DEF Heartbeat, Phases, Transacting, Ended
  <2>2. QED
    BY <2>1, PhaseStep
<1>18. ASSUME NEW w \in Workers, Crash(w) PROVE L(x)!Next \/ UNCHANGED Holder(x)
  <2>1. phase[w] \notin Ended /\ record' = record /\ \E p \in Phases : phase' = [phase EXCEPT ![w] = p]
    BY <1>18 DEF Crash, Phases, Transacting, Ended
  <2>2. QED
    BY <2>1, PhaseStep
<1>19. ASSUME NEW r \in Resources, ClearGuard(r) PROVE L(x)!Next \/ UNCHANGED Holder(x)
  BY <1>19 DEF ClearGuard, Holder
<1>20. CASE Tick
  BY <1>20 DEF Tick, Holder
<1>21. CASE UNCHANGED vars
  BY <1>21 DEF vars, Holder
<1>22. QED
  BY <1>1, <1>2, <1>3, <1>4, <1>5, <1>6, <1>7, <1>8, <1>9, <1>10, <1>11, <1>12, <1>13, <1>14, <1>15, <1>16, <1>17, <1>18, <1>19, <1>20, <1>21 DEF Next, Proceed, Transact

(* Every claim file implements the lock Mutex: claimed when unclaimed,       *)
(* released by its owner or abandoned with it, never taken from an owner,    *)
(* for any number of workers and resources and whatever crashes there are.   *)
THEOREM ClaimsImplementMutex == Spec => ImplementsMutex
<1>1. Init => \A r \in Resources : L(r)!Init
  BY DEF Init, Unclaimed, Holder, L!Init
<1>2. IInv /\ [Next]_vars => [\A r \in Resources : L(r)!Next \/ UNCHANGED Holder(r)]_vars
  BY LockStep
<1>3. QED
  BY <1>1, <1>2, Inductive, PTL DEF Spec, ImplementsMutex
=============================================================================
