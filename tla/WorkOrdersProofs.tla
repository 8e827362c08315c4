--------------------------- MODULE WorkOrdersProofs ---------------------------
(***************************************************************************)
(* Proofs about WorkOrders.  The run state that a session keeps, the one   *)
(* in the file, and every copy that an operator has read, are each sound   *)
(* by themselves (Sound below), so a copy written back is sound again      *)
(* however old it is; what is lost with it is the order of events, and     *)
(* only that makes the last theorem depend on overwritten.                 *)
(***************************************************************************)
EXTENDS WorkOrders, SequenceTheorems, FiniteSetTheorems, WellFoundedInduction, TLAPS

Less == {p \in Nat \X Nat : p[1] < p[2]}

(* The order that a node is dispatched for waits for it.                     *)
LEMMA TakenWaits ==
    ASSUME NEW r \in Runs, NEW n \in Nodes
    PROVE  \/ Taken(r, n) = 0
           \/ Taken(r, n) \in Orders /\ For[Taken(r, n)] = n /\ r.order[Taken(r, n)] = "authorized"
<1>1. CASE Waiting(r, n) = {}
  BY <1>1 DEF Taken
<1>2. CASE Waiting(r, n) # {}
  <2> DEFINE S == Waiting(r, n)
  <2>1. S \subseteq Nat /\ S \subseteq Orders
    BY WorkOrdersAssumption DEF Waiting
  <2>2. IsWellFoundedOn(Less, Nat)
    BY NatLessThanWellFounded DEF OpToRel, Less
  <2>3. PICK o \in S : \A other \in S : <<other, o>> \notin Less
    <3>1. \E o \in S : \A other \in S : ~ (<<other, o>> \in Less)
      BY ONLY <2>1, <2>2, <1>2, WFMin
    <3>2. QED
      BY <3>1
  <2>4. \A other \in S : o <= other
    <3> SUFFICES ASSUME NEW other \in S PROVE o <= other
      OBVIOUS
    <3>1. o \in Nat /\ other \in Nat
      BY <2>1
    <3>2. ~(other < o)
      BY <2>3, <3>1 DEF Less
    <3>3. QED
      BY <3>1, <3>2
  <2>5. Taken(r, n) \in S
    BY <1>2, <2>3, <2>4 DEF Taken
  <2>6. QED
    BY <2>5 DEF Waiting, Dispatchable
<1>3. QED
  BY <1>1, <1>2

LEMMA ZeroNoOrder == 0 \notin Orders
BY WorkOrdersAssumption

(* Statuses of a node whose newest attempt has not ended.                    *)
Live == {"running", "unverified"}
Engaged == {"running", "unverified", "needs_readback"}

(* The attempts of a run state, as functions on their indices.               *)
LEMMA AttemptsTyped ==
    ASSUME NEW r \in Runs, NEW n \in Nodes
    PROVE  /\ r.attempts[n] \in Seq(Attempts) /\ Len(r.attempts[n]) \in Nat
           /\ DOMAIN r.attempts[n] = 1 .. Len(r.attempts[n])
           /\ r.attempts[n] # <<>> => Len(r.attempts[n]) \in DOMAIN r.attempts[n]
           /\ \A i \in DOMAIN r.attempts[n] : r.attempts[n][i] \in Attempts
<1>1. r.attempts[n] \in Seq(Attempts)
  BY DEF Runs
<1>2. /\ Len(r.attempts[n]) \in Nat /\ DOMAIN r.attempts[n] = 1 .. Len(r.attempts[n])
      /\ r.attempts[n] \in [1 .. Len(r.attempts[n]) -> Attempts]
  BY <1>1, LenProperties
<1>3. r.attempts[n] # <<>> => Len(r.attempts[n]) \in Nat \ {0}
  BY <1>1, EmptySeq
<1>4. QED
  BY <1>1, <1>2, <1>3

(* Every attempt of s is one of r, of the same order, and has its status     *)
(* unless it is the newest and in touched.                                   *)
Alike(r, s, touched) ==
    \A n \in Nodes :
        /\ DOMAIN s.attempts[n] = DOMAIN r.attempts[n] /\ Len(s.attempts[n]) = Len(r.attempts[n])
        /\ r.attempts[n] # <<>> => s.attempts[n] # <<>>
        /\ \A i \in DOMAIN r.attempts[n] :
             /\ s.attempts[n][i].order = r.attempts[n][i].order
             /\ s.attempts[n][i].status = r.attempts[n][i].status \/ (i = Len(r.attempts[n]) /\ n \in touched)

Only(n) == {n}

LEMMA SameAttempts == ASSUME NEW r, NEW s, s.attempts = r.attempts, NEW T PROVE Alike(r, s, T)
BY DEF Alike

(* The end of an attempt touches nothing but its own status.                 *)
LEMMA EndedFields ==
    ASSUME NEW r \in Runs, NEW n \in Nodes, r.attempts[n] # <<>>,
           NEW a \in {"running", "blocked", "succeeded", "failed", "orphaned", "needs_readback"},
           NEW st \in Statuses, NEW ord \in [Orders -> OrderStatuses],
           NEW s, s = Ended(r, n, a, st, ord)
    PROVE  /\ s \in Runs /\ s.order = ord /\ s.active = r.active /\ s.rescoped = r.rescoped
           /\ \A m \in Nodes : s.status[m] = IF m = n THEN st ELSE r.status[m]
           /\ Alike(r, s, Only(n))
           /\ \A i \in DOMAIN r.attempts[n] :
                s.attempts[n][i].status = IF i = Len(r.attempts[n]) THEN a ELSE r.attempts[n][i].status
           /\ \A m \in Nodes \ {n} : s.attempts[m] = r.attempts[m]
<1> DEFINE k == Len(r.attempts[n])
           new == [r.attempts[n][k] EXCEPT !.status = a]
<1>1. k \in 1 .. k /\ r.attempts[n] \in Seq(Attempts) /\ r.attempts[n][k] \in Attempts /\ DOMAIN r.attempts[n] = 1 .. k
  BY AttemptsTyped
<1>2. new \in Attempts /\ new.order = r.attempts[n][k].order /\ new.status = a
  BY <1>1 DEF Attempts
<1> HIDE DEF k, new
<1>3. /\ [r.attempts[n] EXCEPT ![k] = new] \in Seq(Attempts)
      /\ Len([r.attempts[n] EXCEPT ![k] = new]) = k
      /\ \A j \in 1 .. k : [r.attempts[n] EXCEPT ![k] = new][j] = IF j = k THEN new ELSE r.attempts[n][j]
  BY <1>1, <1>2, ExceptSeq DEF k
<1>4. /\ s.attempts = [r.attempts EXCEPT ![n] = [r.attempts[n] EXCEPT ![k] = new]]
      /\ s.status = [r.status EXCEPT ![n] = st] /\ s.order = ord /\ s.active = r.active /\ s.rescoped = r.rescoped
  BY DEF Ended, k, new, Runs
<1>5. /\ s.attempts[n] = [r.attempts[n] EXCEPT ![k] = new] /\ \A m \in Nodes \ {n} : s.attempts[m] = r.attempts[m]
      /\ s.attempts \in [Nodes -> Seq(Attempts)]
  BY <1>3, <1>4 DEF Runs
<1>6. s \in Runs
  <2>1. s = [r EXCEPT !.attempts = s.attempts, !.status = s.status, !.order = s.order]
    BY <1>4 DEF Ended, Runs
  <2>2. s.status \in [Nodes -> Statuses]
    BY <1>4 DEF Runs
  <2>3. QED
    BY <2>1, <2>2, <1>4, <1>5 DEF Runs
<1>7. DOMAIN s.attempts[n] = 1 .. k /\ Len(s.attempts[n]) = k /\ s.attempts[n] # <<>>
  <2>1. Len(s.attempts[n]) = k /\ s.attempts[n] \in Seq(Attempts)
    BY <1>3, <1>5
  <2>2. QED
    BY <2>1, <1>1, LenProperties, EmptySeq
<1>8. \A i \in 1 .. k : /\ s.attempts[n][i].order = r.attempts[n][i].order
                        /\ s.attempts[n][i].status = IF i = k THEN a ELSE r.attempts[n][i].status
  BY <1>2, <1>3, <1>5
<1>9. Alike(r, s, Only(n))
  BY <1>1, <1>5, <1>7, <1>8 DEF Alike, Only, k
<1>10. \A m \in Nodes : s.status[m] = IF m = n THEN st ELSE r.status[m]
  BY <1>4 DEF Runs
<1>11. QED
  BY <1>1, <1>4, <1>5, <1>6, <1>8, <1>9, <1>10 DEF k
-----------------------------------------------------------------------------
(* A sound run state                                                         *)

Won(r, o) == {i \in Of(r, For[o], o) : r.attempts[For[o]][i].status = "succeeded"}

\* Its last attempt waits for a read-back.
Withdrawn(r, o) == /\ Won(r, o) = {} /\ For[o] \in Shared
                   /\ \E i \in Of(r, For[o], o) : /\ r.attempts[For[o]][i].status = "needs_readback"
                                                 /\ \A j \in Of(r, For[o], o) : j <= i

\* An order is where its newest attempt is.
Follows(r) ==
    /\ \A o \in Orders : r.order[o] = "running" /\ For[o] \notin Audits \cup r.rescoped =>
         /\ Newest(r, For[o]).order = o
         /\ r.status[For[o]] \in Engaged
    /\ \A n \in Nodes : r.status[n] \in Engaged => r.attempts[n] # <<>>
    /\ \A n \in Nodes : r.status[n] \in Live /\ Newest(r, n).order # 0 => r.order[Newest(r, n).order] = "running"
    /\ \A n \in Nodes : \A i \in DOMAIN r.attempts[n] :
         LET o == r.attempts[n][i].order IN o # 0 => For[o] = n

\* Its attempts are counted, and the one that succeeded proved it.
Tallied(r, o) ==
    /\ Cardinality(Of(r, For[o], o)) <= MaxAttempts
    /\ r.order[o] = "exhausted" => Cardinality(Of(r, For[o], o)) = MaxAttempts
    /\ r.order[o] = "observing" => Cardinality(Won(r, o)) = 1 \/ Withdrawn(r, o)
    /\ Won(r, o) # {} => r.order[o] \in {"observing", "refused"}

Counted(r) == \A o \in Orders : Tallied(r, o)

Sound(r) == Follows(r) /\ Counted(r)

LEMMA OfFinite ==
    ASSUME NEW r \in Runs, NEW n \in Nodes, NEW o
    PROVE  /\ IsFiniteSet(Of(r, n, o)) /\ Cardinality(Of(r, n, o)) \in Nat
           /\ Of(r, n, o) \subseteq 1 .. Len(r.attempts[n])
<1>1. Len(r.attempts[n]) \in Nat /\ DOMAIN r.attempts[n] = 1 .. Len(r.attempts[n])
  BY AttemptsTyped
<1>2. IsFiniteSet(1 .. Len(r.attempts[n]))
  BY <1>1, FS_Interval
<1>3. Of(r, n, o) \in SUBSET (1 .. Len(r.attempts[n]))
  BY <1>1 DEF Of
<1>4. QED
  BY <1>2, <1>3, FS_Subset, FS_CardinalityType

(* Nothing is counted anew by a step that proves and begins nothing: the     *)
(* attempts it touches were live, so their orders are not under observation. *)
LEMMA Demoted ==
    ASSUME NEW r \in Runs, NEW s \in Runs, Sound(r), NEW T \in SUBSET Nodes, Alike(r, s, T),
           \A n \in T : r.status[n] \in Live /\ s.attempts[n][Len(r.attempts[n])].status # "succeeded",
           \A o \in Orders : \/ s.order[o] = r.order[o] \/ s.order[o] = "refused"
                             \/ r.order[o] \in {"absent", "running"} /\ s.order[o] = "authorized"
    PROVE  Counted(s)
<1> SUFFICES ASSUME NEW o \in Orders PROVE Tallied(s, o)
  BY DEF Counted
<1> DEFINE n == For[o]
<1>1. n \in Nodes
  BY WorkOrdersAssumption
<1>2. Of(s, n, o) = Of(r, n, o)
  BY <1>1 DEF Alike, Of
<1>3. Won(s, o) \subseteq Won(r, o)
  <2> SUFFICES ASSUME NEW i \in Won(s, o) PROVE i \in Won(r, o)
    OBVIOUS
  <2>1. i \in Of(r, n, o) /\ i \in DOMAIN r.attempts[n] /\ s.attempts[n][i].status = "succeeded"
    BY <1>2 DEF Won, Of
  <2>2. s.attempts[n][i].status = r.attempts[n][i].status
    BY <1>1, <2>1 DEF Alike
  <2>3. QED
    BY <2>1, <2>2 DEF Won
<1>4. ASSUME r.order[o] \in {"observing", "refused"}, NEW i \in Of(r, n, o)
      PROVE  s.attempts[n][i].status = r.attempts[n][i].status
  <2>1. i \in DOMAIN r.attempts[n] /\ r.attempts[n][i].order = o
    BY DEF Of
  <2>2. CASE i = Len(r.attempts[n]) /\ n \in T
    <3>1. Newest(r, n).order = o /\ r.status[n] \in Live
      BY <2>1, <2>2 DEF Newest
    <3>2. r.order[o] = "running"
      BY <1>1, <3>1, ZeroNoOrder DEF Sound, Follows
    <3>3. QED
      BY <1>4, <3>2
  <2>3. QED
    BY <1>1, <2>1, <2>2 DEF Alike
<1>5. r.order[o] \in {"observing", "refused"} => Won(r, o) = Won(s, o)
  BY <1>4, <1>2 DEF Won
<1>6. Tallied(r, o)
  BY DEF Sound, Counted
<1>7. r.order[o] = "observing" /\ Withdrawn(r, o) => Withdrawn(s, o)
  BY <1>4, <1>2, <1>5 DEF Withdrawn
<1>8. QED
  BY <1>2, <1>3, <1>5, <1>6, <1>7 DEF Tallied

(* The newest attempts of alike run states.                                  *)
LEMMA NewestAlike ==
    ASSUME NEW r \in Runs, NEW s, NEW T, Alike(r, s, T), NEW n \in Nodes, r.attempts[n] # <<>>
    PROVE  s.attempts[n] # <<>> /\ Newest(s, n).order = Newest(r, n).order /\ Newest(r, n).order \in Orders \cup {0}
<1>1. Len(r.attempts[n]) \in DOMAIN r.attempts[n] /\ Newest(r, n) \in Attempts
  BY AttemptsTyped DEF Newest
<1>2. QED
  BY <1>1 DEF Newest, Alike, Attempts

(* Only statuses of nodes that are not engaged change.                       *)
LEMMA StatusOnly ==
    ASSUME NEW r \in Runs, NEW s \in Runs, Sound(r), s.attempts = r.attempts, s.order = r.order,
           s.rescoped = r.rescoped,
           \A n \in Nodes : s.status[n] = r.status[n] \/ (s.status[n] \notin Engaged /\ r.status[n] \notin Engaged)
    PROVE  Sound(s)
<1>1. Counted(s)
  BY Demoted, SameAttempts, {} \in SUBSET Nodes
<1>2. Follows(s)
  BY WorkOrdersAssumption DEF Sound, Follows, Newest, Live, Engaged
<1>3. QED
  BY <1>1, <1>2 DEF Sound
-----------------------------------------------------------------------------
(* The operations preserve soundness                                         *)

LEMMA MovedTyped ==
    ASSUME NEW r \in Runs, NEW o, NEW F, NEW to \in OrderStatuses PROVE Moved(r, o, F, to) \in [Orders -> OrderStatuses]
BY DEF Moved, Runs

(* An attempt ends without a proof: its order waits again, or goes on.       *)
LEMMA EndedSound ==
    ASSUME NEW r \in Runs, Sound(r), NEW n \in Nodes, r.status[n] \in Live,
           NEW a \in {"blocked", "failed", "needs_readback"}, NEW st \in Statuses \ {"running"}, NEW ord,
           \/ ord = r.order /\ (st \in Engaged \/ n \in Audits)
           \/ ord = Restored(r, Newest(r, n).order) /\ st # "unverified"
    PROVE  Ended(r, n, a, st, ord) \in Runs /\ Sound(Ended(r, n, a, st, ord))
<1> DEFINE s == Ended(r, n, a, st, ord)
           k == Len(r.attempts[n])
<1>1. r.attempts[n] # <<>> /\ k \in DOMAIN r.attempts[n]
  BY AttemptsTyped DEF Sound, Follows, Live, Engaged
<1>2. ord \in [Orders -> OrderStatuses]
  <2>1. r.order \in [Orders -> OrderStatuses]
    BY DEF Runs
  <2>2. Restored(r, Newest(r, n).order) \in [Orders -> OrderStatuses]
    BY MovedTyped DEF Restored, OrderStatuses
  <2>3. QED
    BY <2>1, <2>2
<1>3. /\ s \in Runs /\ s.order = ord /\ s.rescoped = r.rescoped /\ Alike(r, s, Only(n))
      /\ \A m \in Nodes : s.status[m] = IF m = n THEN st ELSE r.status[m]
      /\ s.attempts[n][k].status = a
  <2> HIDE DEF s
  <2>1. /\ s \in Runs /\ s.order = ord /\ s.rescoped = r.rescoped /\ Alike(r, s, Only(n))
        /\ \A m \in Nodes : s.status[m] = IF m = n THEN st ELSE r.status[m]
        /\ \A i \in DOMAIN r.attempts[n] :
             s.attempts[n][i].status = IF i = Len(r.attempts[n]) THEN a ELSE r.attempts[n][i].status
    BY SMTT(30), <1>1, <1>2, EndedFields DEF s
  <2>2. QED
    BY <1>1, <2>1
<1> HIDE DEF s
<1>4. \A o \in Orders : \/ ord[o] = r.order[o]
                        \/ o = Newest(r, n).order /\ r.order[o] = "running" /\ ord[o] = "authorized"
  BY DEF Restored, Moved
<1>5. Counted(s)
  BY <1>3, <1>4, Demoted DEF k, Only
<1>6. \A m \in Nodes : r.attempts[m] # <<>> => s.attempts[m] # <<>> /\ Newest(s, m).order = Newest(r, m).order
                                              /\ Newest(r, m).order \in Orders \cup {0}
  BY <1>3, NewestAlike
<1>7. \A m \in Nodes \ {n} : s.status[m] = r.status[m]
  BY <1>3 DEF Runs
<1>8. s.status[n] = st
  BY <1>3 DEF Runs
<1>9. Follows(s)
  <2>1. ASSUME NEW o \in Orders, s.order[o] = "running", For[o] \notin Audits \cup s.rescoped
        PROVE  Newest(s, For[o]).order = o /\ s.status[For[o]] \in Engaged
    <3>1. r.order[o] = "running" /\ For[o] \in Nodes
      BY <1>3, <1>4, <2>1, WorkOrdersAssumption
    <3>2. Newest(r, For[o]).order = o /\ r.status[For[o]] \in Engaged /\ r.attempts[For[o]] # <<>>
      BY <1>3, <2>1, <3>1 DEF Sound, Follows
    <3>3. For[o] = n => st \in Engaged
      BY <1>3, <2>1, <3>1, <3>2 DEF Restored, Moved
    <3>4. QED
      BY <1>6, <1>7, <1>8, <3>1, <3>2, <3>3
  <2>2. ASSUME NEW m \in Nodes, s.status[m] \in Engaged PROVE s.attempts[m] # <<>>
    BY <1>1, <1>6, <1>7, <2>2 DEF Sound, Follows
  <2>3. ASSUME NEW m \in Nodes, s.status[m] \in Live, Newest(s, m).order # 0
        PROVE  s.order[Newest(s, m).order] = "running"
    <3>1. r.status[m] \in Live
      BY <1>7, <2>3
    <3>2. r.attempts[m] # <<>> /\ Newest(s, m).order = Newest(r, m).order /\ Newest(r, m).order \in Orders
      BY <1>6, <2>3, <3>1 DEF Sound, Follows, Live, Engaged
    <3>3. r.order[Newest(r, m).order] = "running"
      BY <2>3, <3>1, <3>2 DEF Sound, Follows
    <3>4. CASE m = n
      BY <1>3, <1>8, <2>3, <3>2, <3>3, <3>4 DEF Live
    <3>5. CASE m # n
      <4>1. For[Newest(r, m).order] = m
        BY <2>3, <3>2, AttemptsTyped DEF Sound, Follows, Newest
      <4>2. Newest(r, n).order # 0 => For[Newest(r, n).order] = n
        BY <1>1 DEF Sound, Follows, Newest
      <4>3. QED
        BY <1>3, <1>4, <3>2, <3>3, <3>5, <4>1, <4>2, ZeroNoOrder
    <3>6. QED
      BY <3>4, <3>5
  <2>4. \A m \in Nodes : \A i \in DOMAIN s.attempts[m] : s.attempts[m][i].order # 0 => For[s.attempts[m][i].order] = m
    BY <1>3 DEF Sound, Follows, Alike
  <2>5. QED
    BY <2>1, <2>2, <2>3, <2>4 DEF Follows
<1>10. QED
  BY <1>3, <1>5, <1>9 DEF Sound, s

(* An attempt ends with the proof of its order, which is withdrawn when its  *)
(* shared resource was found lost.                                           *)
LEMMA ProvedSound ==
    ASSUME NEW r \in Runs, Sound(r), NEW n \in Nodes, r.status[n] \in Live,
           NEW a, a = "succeeded" \/ (a = "needs_readback" /\ n \in Shared)
    PROVE  LET s == Ended(r, n, a, a, Proved(r, Newest(r, n).order))
           IN  s \in Runs /\ Sound(s)
<1> DEFINE s == Ended(r, n, a, a, Proved(r, Newest(r, n).order))
           k == Len(r.attempts[n])
           own == Newest(r, n).order
<1>1. r.attempts[n] # <<>> /\ k \in DOMAIN r.attempts[n] /\ r.attempts[n][k] \in Attempts
  BY AttemptsTyped DEF Sound, Follows, Live, Engaged
<1>2. Proved(r, own) \in [Orders -> OrderStatuses]
  BY MovedTyped DEF Proved, OrderStatuses
<1>3. /\ s \in Runs /\ s.order = Proved(r, own) /\ s.rescoped = r.rescoped /\ Alike(r, s, Only(n))
      /\ \A m \in Nodes : s.status[m] = IF m = n THEN a ELSE r.status[m]
      /\ \A i \in DOMAIN r.attempts[n] :
           s.attempts[n][i].status = IF i = k THEN a ELSE r.attempts[n][i].status
      /\ \A m \in Nodes \ {n} : s.attempts[m] = r.attempts[m]
  <2>1. a \in Statuses /\ a \in {"running", "blocked", "succeeded", "failed", "orphaned", "needs_readback"}
    BY DEF Statuses
  <2>2. s = Ended(r, n, a, a, Proved(r, own))
    OBVIOUS
  <2> HIDE DEF s, own
  <2>3. QED
    BY <1>1, <1>2, <2>1, <2>2, EndedFields, SMTT(60) DEF k
<1>4. own \in Orders \cup {0} /\ (own # 0 => r.order[own] = "running" /\ For[own] = n)
  BY <1>1 DEF Sound, Follows, Newest, Attempts
<1> HIDE DEF s
<1>5. \A o \in Orders : s.order[o] = IF o = own THEN "observing" ELSE r.order[o]
  BY <1>3, <1>4, ZeroNoOrder DEF Proved, Moved
<1>6. \A m \in Nodes : r.attempts[m] # <<>> => s.attempts[m] # <<>> /\ Newest(s, m).order = Newest(r, m).order
                                              /\ Newest(r, m).order \in Orders \cup {0}
  BY <1>3, NewestAlike
<1>7. s.status[n] = a /\ \A m \in Nodes \ {n} : s.status[m] = r.status[m]
  BY <1>3 DEF Runs
<1>8. Counted(s)
  <2> SUFFICES ASSUME NEW o \in Orders PROVE Tallied(s, o)
    BY DEF Counted
  <2>1. For[o] \in Nodes /\ Tallied(r, o)
    BY WorkOrdersAssumption DEF Sound, Counted
  <2>2. Of(s, For[o], o) = Of(r, For[o], o)
    BY <1>3, <2>1 DEF Alike, Of
  <2>3. CASE o = own
    <3>1. Won(r, o) = {}
      BY <1>4, <2>1, <2>3, ZeroNoOrder DEF Tallied
    <3>2. For[o] = n
      BY <1>4, <2>3, ZeroNoOrder
    <3>3. k \in Of(s, n, o) /\ s.attempts[n][k].status = a
      BY <1>1, <1>3, <2>2, <2>3, <3>2 DEF Of, Newest
    <3>4. \A i \in Of(s, n, o) \ {k} : s.attempts[n][i].status # "succeeded"
      BY <1>3, <2>2, <3>1, <3>2 DEF Won, Of
    <3>5. CASE a = "succeeded"
      <4>1. Won(s, o) = {k}
        BY <3>2, <3>3, <3>4, <3>5 DEF Won
      <4>2. QED
        BY <1>5, <2>1, <2>2, <2>3, <4>1, FS_Singleton DEF Tallied
    <3>6. CASE a = "needs_readback" /\ n \in Shared
      <4>1. Won(s, o) = {}
        BY <3>2, <3>3, <3>4, <3>6 DEF Won
      <4>2. \A i \in Of(s, n, o) : i <= k
        BY <2>2, <3>2, OfFinite, AttemptsTyped
      <4>3. Withdrawn(s, o)
        BY <3>2, <3>3, <3>6, <4>1, <4>2 DEF Withdrawn
      <4>4. QED
        BY <1>5, <2>1, <2>2, <2>3, <4>1, <4>3 DEF Tallied
    <3>7. QED
      BY <3>5, <3>6
  <2>4. CASE o # own
    <3>1. k \notin Of(r, n, o)
      BY <2>4 DEF Of, Newest
    <3>2. Won(s, o) = Won(r, o)
      BY <1>3, <2>1, <2>2, <3>1 DEF Won, Of
    <3>3. Withdrawn(r, o) => Withdrawn(s, o)
      BY <1>3, <2>1, <2>2, <3>1, <3>2 DEF Withdrawn, Of
    <3>4. QED
      BY <1>5, <2>1, <2>2, <2>4, <3>2, <3>3 DEF Tallied
  <2>5. QED
    BY <2>3, <2>4
<1>9. Follows(s)
  <2>1. ASSUME NEW o \in Orders, s.order[o] = "running", For[o] \notin Audits \cup s.rescoped
        PROVE  Newest(s, For[o]).order = o /\ s.status[For[o]] \in Engaged
    <3>1. r.order[o] = "running" /\ For[o] \in Nodes /\ o # own
      BY <1>5, <2>1, WorkOrdersAssumption
    <3>2. Newest(r, For[o]).order = o /\ r.status[For[o]] \in Engaged /\ r.attempts[For[o]] # <<>>
      BY <1>3, <2>1, <3>1 DEF Sound, Follows
    <3>3. QED
      BY <1>6, <1>7, <3>1, <3>2
  <2>2. ASSUME NEW m \in Nodes, s.status[m] \in Engaged PROVE s.attempts[m] # <<>>
    BY <1>1, <1>6, <1>7, <2>2 DEF Sound, Follows
  <2>3. ASSUME NEW m \in Nodes, s.status[m] \in Live, Newest(s, m).order # 0
        PROVE  s.order[Newest(s, m).order] = "running"
    <3>1. r.status[m] \in Live /\ m # n
      BY <1>7, <2>3 DEF Live
    <3>2. r.attempts[m] # <<>> /\ Newest(s, m).order = Newest(r, m).order /\ Newest(r, m).order \in Orders
      BY <1>6, <2>3, <3>1 DEF Sound, Follows, Live, Engaged
    <3>3. r.order[Newest(r, m).order] = "running"
      BY <2>3, <3>1, <3>2 DEF Sound, Follows
    <3>4. For[Newest(r, m).order] = m
      BY <2>3, <3>2, AttemptsTyped DEF Sound, Follows, Newest
    <3>5. QED
      BY <1>4, <1>5, <3>1, <3>2, <3>3, <3>4, ZeroNoOrder
  <2>4. \A m \in Nodes : \A i \in DOMAIN s.attempts[m] : s.attempts[m][i].order # 0 => For[s.attempts[m][i].order] = m
    BY <1>3 DEF Sound, Follows, Alike
  <2>5. QED
    BY <2>1, <2>2, <2>3, <2>4 DEF Follows
<1>10. QED
  BY <1>3, <1>8, <1>9 DEF Sound, s

Marked(q) == [q EXCEPT ![Len(q)].status = "orphaned"]

LEMMA MarkedFields ==
    ASSUME NEW q \in Seq(Attempts), q # <<>>
    PROVE  /\ Marked(q) \in Seq(Attempts) /\ Marked(q) # <<>> /\ Len(Marked(q)) = Len(q)
           /\ DOMAIN Marked(q) = DOMAIN q /\ Len(q) \in DOMAIN q
           /\ \A i \in DOMAIN q : /\ Marked(q)[i].order = q[i].order
                                 /\ Marked(q)[i].status = IF i = Len(q) THEN "orphaned" ELSE q[i].status
<1> DEFINE k == Len(q)
           new == [q[k] EXCEPT !.status = "orphaned"]
<1>1. k \in 1 .. k /\ DOMAIN q = 1 .. k /\ q[k] \in Attempts
  BY EmptySeq, LenProperties
<1>2. new \in Attempts /\ new.order = q[k].order /\ new.status = "orphaned"
  BY <1>1 DEF Attempts
<1> HIDE DEF k, new
<1>3. /\ [q EXCEPT ![k] = new] \in Seq(Attempts) /\ Len([q EXCEPT ![k] = new]) = k
      /\ \A j \in 1 .. k : [q EXCEPT ![k] = new][j] = IF j = k THEN new ELSE q[j]
  BY <1>1, <1>2, ExceptSeq DEF k
<1>4. Marked(q) = [q EXCEPT ![k] = new]
  BY DEF Marked, k, new
<1>5. /\ Marked(q) \in Seq(Attempts) /\ Len(Marked(q)) = k
      /\ \A j \in 1 .. k : Marked(q)[j] = IF j = k THEN new ELSE q[j]
  BY <1>3, <1>4
<1>6. Marked(q) # <<>> /\ DOMAIN Marked(q) = 1 .. k
  BY <1>1, <1>5, EmptySeq, LenProperties
<1>7. QED
  BY <1>1, <1>2, <1>5, <1>6 DEF k

(* Orphans: an order waits again, or stays with the attempt in doubt.        *)
LEMMA OrphanedSound ==
    ASSUME NEW r \in Runs, Sound(r), NEW nodes \in SUBSET Running(r), NEW s, s = Orphaned(r, nodes)
    PROVE  s \in Runs /\ Sound(s) /\ s.rescoped = r.rescoped
<1>1. \A n \in nodes : n \in Nodes /\ r.status[n] \in Live /\ r.attempts[n] # <<>>
  BY DEF Running, Live
<1>2. /\ \A n \in Nodes : s.status[n] = IF n \notin nodes THEN r.status[n]
                                      ELSE IF n \in Effectful THEN "needs_readback" ELSE "pending"
      /\ \A n \in Nodes : s.attempts[n] = IF n \in nodes THEN Marked(r.attempts[n]) ELSE r.attempts[n]
      /\ \A o \in Orders : s.order[o] = IF /\ For[o] \in nodes \ Effectful /\ Newest(r, For[o]).order = o
                                          /\ r.order[o] = "running"
                                       THEN "authorized" ELSE r.order[o]
      /\ s.rescoped = r.rescoped
  BY DEF Orphaned, OrphanedAs, Marked, Runs
<1>3. \A n \in nodes : /\ s.attempts[n] \in Seq(Attempts) /\ s.attempts[n] # <<>>
                       /\ Len(s.attempts[n]) = Len(r.attempts[n]) /\ DOMAIN s.attempts[n] = DOMAIN r.attempts[n]
                       /\ Len(r.attempts[n]) \in DOMAIN r.attempts[n]
                       /\ \A i \in DOMAIN r.attempts[n] :
                            /\ s.attempts[n][i].order = r.attempts[n][i].order
                            /\ s.attempts[n][i].status = IF i = Len(r.attempts[n]) THEN "orphaned"
                                                         ELSE r.attempts[n][i].status
  BY <1>1, <1>2, AttemptsTyped, MarkedFields
<1>4. s \in Runs
  <2>1. s = [r EXCEPT !.attempts = s.attempts, !.status = s.status, !.order = s.order]
    BY DEF Orphaned, OrphanedAs, Runs
  <2>2. s.status \in [Nodes -> Statuses]
    BY DEF Orphaned, OrphanedAs, Runs, Statuses
  <2>3. s.order \in [Orders -> OrderStatuses]
    BY DEF Orphaned, OrphanedAs, Runs, OrderStatuses
  <2>4. DOMAIN s.attempts = Nodes /\ s.attempts = [n \in Nodes |-> s.attempts[n]]
    BY DEF Orphaned, OrphanedAs, Runs
  <2>5. \A n \in Nodes : s.attempts[n] \in Seq(Attempts)
    BY <1>2, <1>3, AttemptsTyped
  <2>6. QED
    BY <2>1, <2>2, <2>3, <2>4, <2>5 DEF Runs
<1>5. Alike(r, s, nodes)
  BY <1>2, <1>3 DEF Alike
<1>6. Counted(s)
  <2>1. nodes \in SUBSET Nodes
    BY <1>1
  <2>2. \A n \in nodes : r.status[n] \in Live /\ s.attempts[n][Len(r.attempts[n])].status # "succeeded"
    BY <1>1, <1>3
  <2>3. QED
    BY <1>2, <1>4, <1>5, <2>1, <2>2, Demoted
<1>7. \A m \in Nodes : r.attempts[m] # <<>> => s.attempts[m] # <<>> /\ Newest(s, m).order = Newest(r, m).order
                                              /\ Newest(r, m).order \in Orders \cup {0}
  BY <1>5, NewestAlike
<1>8. Follows(s)
  <2>1. ASSUME NEW o \in Orders, s.order[o] = "running", For[o] \notin Audits \cup s.rescoped
        PROVE  Newest(s, For[o]).order = o /\ s.status[For[o]] \in Engaged
    <3>1. r.order[o] = "running" /\ For[o] \in Nodes
      BY <1>2, <2>1, WorkOrdersAssumption
    <3>2. Newest(r, For[o]).order = o /\ r.status[For[o]] \in Engaged /\ r.attempts[For[o]] # <<>>
      BY <1>2, <2>1, <3>1 DEF Sound, Follows
    <3>3. For[o] \notin nodes \/ For[o] \in Effectful
      BY <1>2, <2>1, <3>1, <3>2
    <3>4. s.status[For[o]] \in Engaged
      BY <1>2, <3>1, <3>2, <3>3 DEF Engaged
    <3>5. QED
      BY <1>7, <3>1, <3>2, <3>4
  <2>2. ASSUME NEW m \in Nodes, s.status[m] \in Engaged PROVE s.attempts[m] # <<>>
    BY <1>2, <1>3, <2>2 DEF Sound, Follows
  <2>3. ASSUME NEW m \in Nodes, s.status[m] \in Live, Newest(s, m).order # 0
        PROVE  s.order[Newest(s, m).order] = "running"
    <3>1. r.status[m] \in Live /\ m \notin nodes
      BY <1>2, <2>3 DEF Live
    <3>2. r.attempts[m] # <<>> /\ Newest(s, m).order = Newest(r, m).order /\ Newest(r, m).order \in Orders
      BY <1>7, <2>3, <3>1 DEF Sound, Follows, Live, Engaged
    <3>3. r.order[Newest(r, m).order] = "running" /\ For[Newest(r, m).order] = m
      BY <2>3, <3>1, <3>2, AttemptsTyped DEF Sound, Follows, Newest
    <3>4. QED
      BY <1>2, <3>1, <3>2, <3>3
  <2>4. \A m \in Nodes : \A i \in DOMAIN s.attempts[m] : s.attempts[m][i].order # 0 => For[s.attempts[m][i].order] = m
    BY <1>5 DEF Sound, Follows, Alike
  <2>5. QED
    BY <2>1, <2>2, <2>3, <2>4 DEF Follows
<1>9. QED
  BY <1>2, <1>4, <1>6, <1>8 DEF Sound

(* A changed plan refuses every order of the nodes it changes.               *)
LEMMA ReplannedSound ==
    ASSUME NEW r \in Runs, Sound(r), NEW nodes \in SUBSET Nodes, NEW s, s = Replanned(r, nodes)
    PROVE  /\ s \in Runs /\ Sound(s) /\ s.attempts = r.attempts /\ s.rescoped = r.rescoped
           /\ \A n \in Nodes : \/ s.status[n] = r.status[n] \/ s.status[n] = "needs_readback"
                               \/ n \in nodes /\ (r.attempts[n] = <<>> \/ n \notin Effectful)
<1>1. /\ s.attempts = r.attempts /\ s.rescoped = r.rescoped
      /\ \A n \in Nodes : s.status[n] = IF n \notin nodes THEN r.status[n]
                                      ELSE IF r.attempts[n] # <<>> /\ n \in Effectful THEN "needs_readback"
                                      ELSE Retried(r, n)
      /\ \A o \in Orders : s.order[o] = IF For[o] \in nodes /\ r.order[o] # "absent" THEN "refused" ELSE r.order[o]
  BY DEF Replanned, Runs
<1>2. \A n \in Nodes : Retried(r, n) \in {"blocked", "stale"}
  BY DEF Retried
<1>3. s \in Runs
  <2>1. s = [r EXCEPT !.status = s.status, !.order = s.order]
    BY DEF Replanned, Runs
  <2>2. s.status \in [Nodes -> Statuses]
    <3>1. \A n \in Nodes : s.status[n] \in Statuses
      BY <1>1, <1>2 DEF Runs, Statuses
    <3>2. s.status = [n \in Nodes |-> s.status[n]]
      BY DEF Replanned, Runs
    <3>3. QED
      BY <3>1, <3>2
  <2>3. s.order \in [Orders -> OrderStatuses]
    BY DEF Replanned, Runs, OrderStatuses
  <2>4. QED
    BY <2>1, <2>2, <2>3 DEF Runs
<1>4. Counted(s)
  BY <1>1, <1>3, Demoted, SameAttempts, {} \in SUBSET Nodes
<1>5. Follows(s)
  <2>1. ASSUME NEW o \in Orders, s.order[o] = "running", For[o] \notin Audits \cup s.rescoped
        PROVE  Newest(s, For[o]).order = o /\ s.status[For[o]] \in Engaged
    <3>1. r.order[o] = "running" /\ For[o] \in Nodes \ nodes
      BY <1>1, <2>1, WorkOrdersAssumption
    <3>2. Newest(r, For[o]).order = o /\ r.status[For[o]] \in Engaged
      BY <1>1, <2>1, <3>1 DEF Sound, Follows
    <3>3. QED
      BY <1>1, <3>1, <3>2 DEF Newest
  <2>2. ASSUME NEW m \in Nodes, s.status[m] \in Engaged PROVE s.attempts[m] # <<>>
    BY <1>1, <1>2, <2>2 DEF Sound, Follows, Engaged
  <2>3. ASSUME NEW m \in Nodes, s.status[m] \in Live, Newest(s, m).order # 0
        PROVE  s.order[Newest(s, m).order] = "running"
    <3>1. r.status[m] \in Live /\ m \notin nodes /\ Newest(s, m) = Newest(r, m)
      BY <1>1, <1>2, <2>3 DEF Live, Newest
    <3>2. r.attempts[m] # <<>> /\ Newest(r, m).order \in Orders
      BY <2>3, <3>1, AttemptsTyped DEF Sound, Follows, Live, Engaged, Newest, Attempts
    <3>3. r.order[Newest(r, m).order] = "running" /\ For[Newest(r, m).order] = m
      BY <2>3, <3>1, <3>2, AttemptsTyped DEF Sound, Follows, Newest
    <3>4. QED
      BY <1>1, <3>1, <3>2, <3>3
  <2>4. \A m \in Nodes : \A i \in DOMAIN s.attempts[m] : s.attempts[m][i].order # 0 => For[s.attempts[m][i].order] = m
    BY <1>1 DEF Sound, Follows
  <2>5. QED
    BY <2>1, <2>2, <2>3, <2>4 DEF Follows
<1>6. \A n \in Nodes : \/ s.status[n] = r.status[n] \/ s.status[n] = "needs_readback"
                       \/ n \in nodes /\ (r.attempts[n] = <<>> \/ n \notin Effectful)
  BY <1>1
<1>7. QED
  BY <1>1, <1>3, <1>4, <1>5, <1>6 DEF Sound

(* Work whose scope changes is no longer engaged, whatever its order.        *)
LEMMA RescopedSound ==
    ASSUME NEW r \in Runs, Sound(r), NEW nodes \in SUBSET Nodes, NEW needed \in SUBSET nodes,
           NEW s, s = Rescoped(r, nodes, needed)
    PROVE  /\ s \in Runs /\ Sound(s) /\ s.attempts = r.attempts /\ s.order = r.order
           /\ s.rescoped = r.rescoped \cup nodes
           /\ \A n \in Nodes : n \notin nodes => s.status[n] = r.status[n]
<1>1. /\ s.attempts = r.attempts /\ s.order = r.order /\ s.rescoped = r.rescoped \cup nodes
      /\ \A n \in Nodes : s.status[n] = IF n \notin nodes THEN r.status[n]
                                       ELSE IF n \in needed THEN "pending" ELSE "set_aside"
  BY DEF Rescoped, Runs
<1>2. s \in Runs
  <2>1. s = [r EXCEPT !.status = s.status, !.rescoped = s.rescoped]
    BY DEF Rescoped, Runs
  <2>2. s.status \in [Nodes -> Statuses]
    BY DEF Rescoped, Runs, Statuses
  <2>3. QED
    BY <1>1, <2>1, <2>2 DEF Runs
<1>3. Counted(s)
  BY <1>1, <1>2, Demoted, SameAttempts, {} \in SUBSET Nodes
<1>4. Follows(s)
  BY <1>1, WorkOrdersAssumption DEF Sound, Follows, Newest, Live, Engaged
<1>5. QED
  BY <1>1, <1>2, <1>3, <1>4 DEF Sound

(* An operator notes a revocation or records an order.                       *)
LEMMA OperatedSound ==
    ASSUME NEW r \in Runs, Sound(r), NEW o \in Orders, NEW s \in {Noted(r, o), Recorded(r, o)}
    PROVE  s \in Runs /\ Sound(s) /\ s.attempts = r.attempts /\ s.status = r.status /\ s.rescoped = r.rescoped
<1>1. /\ s \in Runs /\ s.attempts = r.attempts /\ s.status = r.status /\ s.rescoped = r.rescoped
      /\ \A p \in Orders : s.order[p] = r.order[p] \/ (r.order[p] = "absent" /\ s.order[p] = "authorized")
  <2>1. CASE s = Noted(r, o)
    BY <2>1 DEF Noted, Runs
  <2>2. CASE s = Recorded(r, o) /\ r.order[o] # "absent"
    BY <2>2 DEF Recorded
  <2>3. CASE s = Recorded(r, o) /\ r.order[o] = "absent"
    <3>1. s = [r EXCEPT !.order[o] = "authorized", !.active = r.active \cup {o}]
      BY <2>3 DEF Recorded
    <3>2. [r.order EXCEPT ![o] = "authorized"] \in [Orders -> OrderStatuses] /\ r.active \cup {o} \in SUBSET Orders
      BY DEF Runs, OrderStatuses
    <3>3. /\ s.attempts = r.attempts /\ s.status = r.status /\ s.rescoped = r.rescoped
          /\ s.order = [r.order EXCEPT ![o] = "authorized"] /\ s.active = r.active \cup {o}
      BY <3>1 DEF Runs
    <3>4. s \in Runs
      BY <3>1, <3>2 DEF Runs
    <3>5. QED
      BY <2>3, <3>3, <3>4 DEF Runs
  <2>4. QED
    BY <2>1, <2>2, <2>3
<1>2. Counted(s)
  BY <1>1, Demoted, SameAttempts, {} \in SUBSET Nodes
<1>3. \A p \in Orders : r.order[p] = "running" <=> s.order[p] = "running"
  BY <1>1
<1>4. \A m \in Nodes : r.attempts[m] # <<>> => Newest(r, m).order \in Orders \cup {0}
  BY AttemptsTyped DEF Newest, Attempts
<1>5. \A m \in Nodes : r.status[m] \in Live /\ Newest(r, m).order # 0 => s.order[Newest(r, m).order] = "running"
  BY <1>3, <1>4 DEF Sound, Follows, Live, Engaged
<1>6. Follows(s)
  BY <1>1, <1>3, <1>5 DEF Sound, Follows, Newest
<1>7. QED
  BY <1>1, <1>2, <1>6 DEF Sound

(* An exhausted node is blocked, and the order it was taken for exhausted.   *)
LEMMA ExhaustedSound ==
    ASSUME NEW r \in Runs, Sound(r), NEW n \in Nodes, r.status[n] \notin Engaged, Exhausted(r, n, Taken(r, n)),
           NEW s, s = [r EXCEPT !.status[n] = "blocked", !.order = Moved(r, Taken(r, n), {"authorized"}, "exhausted")]
    PROVE  s \in Runs /\ Sound(s) /\ s.attempts = r.attempts /\ s.rescoped = r.rescoped
<1> DEFINE o == Taken(r, n)
<1>1. /\ s.attempts = r.attempts /\ s.rescoped = r.rescoped /\ s.status[n] = "blocked" /\ \A m \in Nodes \ {n} : s.status[m] = r.status[m]
      /\ s.order = Moved(r, o, {"authorized"}, "exhausted")
  BY DEF Runs
<1>2. s \in Runs
  BY MovedTyped DEF Runs, Statuses, OrderStatuses
<1>3. \A p \in Orders : \/ s.order[p] = r.order[p]
                        \/ p = o /\ r.order[p] = "authorized" /\ s.order[p] = "exhausted"
  BY <1>1 DEF Moved
<1>4. Counted(s)
  <2> SUFFICES ASSUME NEW p \in Orders PROVE Tallied(s, p)
    BY DEF Counted
  <2>1. /\ Tallied(r, p) /\ Of(s, For[p], p) = Of(r, For[p], p) /\ Won(s, p) = Won(r, p)
        /\ Withdrawn(r, p) => Withdrawn(s, p)
    BY <1>1 DEF Sound, Counted, Of, Won, Withdrawn
  <2>2. CASE s.order[p] = r.order[p]
    BY <2>1, <2>2 DEF Tallied
  <2>3. CASE p = o /\ r.order[p] = "authorized" /\ s.order[p] = "exhausted"
    <3>1. For[p] = n /\ p # 0
      BY <2>3, TakenWaits, ZeroNoOrder
    <3>2. Used(r, n, p) = Cardinality(Of(r, n, p))
      BY <3>1 DEF Used
    <3>3. Cardinality(Of(r, n, p)) >= MaxAttempts
      BY <2>3, <3>2 DEF Exhausted
    <3>4. Cardinality(Of(r, n, p)) = MaxAttempts
      BY <2>1, <3>1, <3>3, OfFinite, WorkOrdersAssumption DEF Tallied
    <3>5. QED
      BY <2>1, <2>3, <3>1, <3>4 DEF Tallied
  <2>4. QED
    BY <1>3, <2>2, <2>3
<1>5. \A p \in Orders : r.order[p] = "running" <=> s.order[p] = "running"
  BY <1>3
<1>6. \A m \in Nodes : r.attempts[m] # <<>> => Newest(r, m).order \in Orders \cup {0}
  BY AttemptsTyped DEF Newest, Attempts
<1>7. \A m \in Nodes : r.status[m] \in Live /\ Newest(r, m).order # 0 => s.order[Newest(r, m).order] = "running"
  BY <1>5, <1>6 DEF Sound, Follows, Live, Engaged
<1>8. \A m \in Nodes : (s.status[m] \in Engaged <=> r.status[m] \in Engaged) /\ (s.status[m] \in Live <=> r.status[m] \in Live)
  BY <1>1 DEF Engaged, Live
<1>9. Follows(s)
  BY <1>1, <1>5, <1>7, <1>8, WorkOrdersAssumption DEF Sound, Follows, Newest
<1>10. QED
  BY <1>1, <1>2, <1>4, <1>9 DEF Sound

Begun(r, n) == [r EXCEPT !.status[n] = "running",
                         !.attempts[n] = Append(@, [order |-> Taken(r, n), status |-> "running"]),
                         !.order = Moved(r, Taken(r, n), {"authorized"}, "running")]

(* A new attempt is of the order taken for it, and within its bound.         *)
LEMMA BegunSound ==
    ASSUME NEW r \in Runs, Sound(r), NEW n \in Nodes, r.status[n] \notin Engaged, ~Exhausted(r, n, Taken(r, n)),
           NEW s, s = Begun(r, n)
    PROVE  s \in Runs /\ Sound(s) /\ s.attempts[n] # <<>> /\ s.status[n] = "running" /\ s.rescoped = r.rescoped
           /\ \A m \in Nodes \ {n} : s.attempts[m] = r.attempts[m] /\ s.status[m] = r.status[m]
<1> DEFINE o == Taken(r, n)
           new == [order |-> o, status |-> "running"]
           k == Len(r.attempts[n])
<1>1. o = 0 \/ (o \in Orders /\ For[o] = n /\ r.order[o] = "authorized")
  BY TakenWaits
<1> HIDE DEF o
<1>2. new \in Attempts /\ new.order = o /\ new.status = "running"
  BY <1>1 DEF Attempts
<1> HIDE DEF new
<1>3. /\ Append(r.attempts[n], new) \in Seq(Attempts) /\ Append(r.attempts[n], new) # <<>>
      /\ Len(Append(r.attempts[n], new)) = k + 1
      /\ \A i \in 1 .. k : Append(r.attempts[n], new)[i] = r.attempts[n][i]
      /\ Append(r.attempts[n], new)[k + 1] = new
  BY <1>2, AttemptsTyped, AppendProperties
<1>4. /\ s.status[n] = "running" /\ \A m \in Nodes \ {n} : s.status[m] = r.status[m]
      /\ s.attempts[n] = Append(r.attempts[n], new) /\ \A m \in Nodes \ {n} : s.attempts[m] = r.attempts[m]
      /\ s.order = Moved(r, o, {"authorized"}, "running") /\ s.rescoped = r.rescoped
  BY DEF Runs, o, new, Begun
<1>5. s \in Runs
  <2>1. Moved(r, o, {"authorized"}, "running") \in [Orders -> OrderStatuses]
    BY MovedTyped DEF OrderStatuses
  <2>2. QED
    BY <1>3, <2>1 DEF Runs, Statuses, o, new, Begun
<1>6. \A p \in Orders : s.order[p] = IF p = o THEN "running" ELSE r.order[p]
  BY <1>1, <1>4, ZeroNoOrder DEF Moved
<1>7. k \in Nat /\ DOMAIN r.attempts[n] = 1 .. k /\ DOMAIN s.attempts[n] = 1 .. k + 1 /\ Len(s.attempts[n]) = k + 1
  BY <1>3, <1>4, AttemptsTyped, LenProperties
<1>8. Newest(s, n).order = o
  BY <1>2, <1>3, <1>4, <1>7 DEF Newest
<1>9. Counted(s)
  <2> SUFFICES ASSUME NEW p \in Orders PROVE Tallied(s, p)
    BY DEF Counted
  <2>1. Tallied(r, p) /\ For[p] \in Nodes
    BY WorkOrdersAssumption DEF Sound, Counted
  <2>2. CASE p # o
    <3>1. Of(s, For[p], p) = Of(r, For[p], p)
      <4>1. CASE For[p] = n
        <5>1. \A i \in 1 .. k : s.attempts[n][i].order = r.attempts[n][i].order
          BY <1>3, <1>4
        <5>2. s.attempts[n][k + 1].order # p
          BY <1>2, <1>3, <1>4, <2>2
        <5>3. \A i \in 1 .. k + 1 : i \in 1 .. k \/ i = k + 1
          BY <1>7
        <5>4. \A i \in 1 .. k : i \in 1 .. k + 1
          BY <1>7
        <5>5. \A i : i \in Of(s, n, p) <=> i \in Of(r, n, p)
          BY ONLY <1>7, <5>1, <5>2, <5>3, <5>4 DEF Of
        <5>6. QED
          BY <4>1, <5>5 DEF Of
      <4>2. CASE For[p] # n
        BY <1>4, <2>1, <4>2 DEF Of
      <4>3. QED
        BY <4>1, <4>2
    <3>2. \A i \in Of(r, For[p], p) : s.attempts[For[p]][i].status = r.attempts[For[p]][i].status
      <4>1. CASE For[p] = n
        <5>1. \A i \in 1 .. k : s.attempts[n][i].status = r.attempts[n][i].status
          BY <1>3, <1>4
        <5>2. QED
          BY <1>7, <4>1, <5>1 DEF Of
      <4>2. CASE For[p] # n
        BY <1>4, <2>1, <4>2
      <4>3. QED
        BY <4>1, <4>2
    <3>3. Won(s, p) = Won(r, p)
      BY <3>1, <3>2 DEF Won
    <3>4. Withdrawn(r, p) => Withdrawn(s, p)
      BY <3>1, <3>2, <3>3 DEF Withdrawn
    <3>5. QED
      BY <1>6, <2>1, <2>2, <3>1, <3>3, <3>4 DEF Tallied
  <2>3. CASE p = o
    <3>1. For[p] = n /\ r.order[p] = "authorized" /\ p # 0
      BY <1>1, <2>3, ZeroNoOrder
    <3>2. Of(s, n, p) = Of(r, n, p) \cup {k + 1}
      BY <1>2, <1>3, <1>4, <1>7, <2>3 DEF Of
    <3>3. k + 1 \notin Of(r, n, p)
      BY <1>7, OfFinite
    <3>4. Cardinality(Of(s, n, p)) = Cardinality(Of(r, n, p)) + 1
      BY <3>2, <3>3, OfFinite, FS_AddElement
    <3>5. Used(r, n, p) = Cardinality(Of(r, n, p))
      BY <3>1 DEF Used
    <3>6. ~(Cardinality(Of(r, n, p)) >= MaxAttempts)
      BY <2>3, <3>5 DEF Exhausted, o
    <3>7. Cardinality(Of(s, n, p)) <= MaxAttempts
      BY <3>4, <3>6, OfFinite, WorkOrdersAssumption
    <3>8. Won(r, p) = {}
      BY <2>1, <3>1 DEF Tallied
    <3>9. Won(s, p) = {}
      <4>1. \A i \in Of(r, n, p) : s.attempts[n][i].status # "succeeded"
        BY <1>3, <1>4, <1>7, <3>1, <3>8 DEF Of, Won
      <4>2. s.attempts[n][k + 1].status # "succeeded"
        BY <1>2, <1>3, <1>4
      <4>3. QED
        BY <3>1, <3>2, <4>1, <4>2 DEF Won
    <3>10. QED
      BY <1>6, <2>3, <3>1, <3>7, <3>9 DEF Tallied
  <2>4. QED
    BY <2>2, <2>3
<1>10. Follows(s)
  <2>1. ASSUME NEW p \in Orders, s.order[p] = "running", For[p] \notin Audits \cup s.rescoped
        PROVE  Newest(s, For[p]).order = p /\ s.status[For[p]] \in Engaged
    <3>1. CASE p = o
      BY <1>1, <1>4, <1>8, <2>1, <3>1, ZeroNoOrder DEF Engaged
    <3>2. CASE p # o
      <4>1. r.order[p] = "running" /\ For[p] \in Nodes
        BY <1>6, <2>1, <3>2, WorkOrdersAssumption
      <4>2. Newest(r, For[p]).order = p /\ r.status[For[p]] \in Engaged
        BY <1>4, <2>1, <4>1 DEF Sound, Follows
      <4>3. For[p] # n
        BY <4>2
      <4>4. QED
        BY <1>4, <4>1, <4>2, <4>3 DEF Newest
    <3>3. QED
      BY <3>1, <3>2
  <2>2. ASSUME NEW m \in Nodes, s.status[m] \in Engaged PROVE s.attempts[m] # <<>>
    BY <1>3, <1>4, <2>2 DEF Sound, Follows
  <2>3. ASSUME NEW m \in Nodes, s.status[m] \in Live, Newest(s, m).order # 0
        PROVE  s.order[Newest(s, m).order] = "running"
    <3>1. CASE m = n
      BY <1>1, <1>6, <1>8, <2>3, <3>1
    <3>2. CASE m # n
      <4>1. r.status[m] \in Live /\ Newest(s, m) = Newest(r, m)
        BY <1>4, <2>3, <3>2 DEF Newest
      <4>2. r.attempts[m] # <<>> /\ Newest(r, m).order \in Orders
        BY <2>3, <4>1, AttemptsTyped DEF Sound, Follows, Live, Engaged, Newest, Attempts
      <4>3. r.order[Newest(r, m).order] = "running"
        BY <2>3, <4>1, <4>2 DEF Sound, Follows
      <4>4. QED
        BY <1>6, <4>1, <4>2, <4>3
    <3>3. QED
      BY <3>1, <3>2
  <2>4. ASSUME NEW m \in Nodes, NEW i \in DOMAIN s.attempts[m], s.attempts[m][i].order # 0
        PROVE  For[s.attempts[m][i].order] = m
    <3>1. CASE m = n /\ i = k + 1
      BY <1>1, <1>2, <1>3, <1>4, <2>4, <3>1
    <3>2. CASE m = n /\ i # k + 1
      <4>1. i \in DOMAIN r.attempts[n] /\ s.attempts[n][i] = r.attempts[n][i]
        BY <1>3, <1>4, <1>7, <3>2
      <4>2. QED
        BY <2>4, <3>2, <4>1 DEF Sound, Follows
    <3>3. CASE m # n
      BY <1>4, <2>4, <3>3 DEF Sound, Follows
    <3>4. QED
      BY <3>1, <3>2, <3>3
  <2>5. QED
    BY <2>1, <2>2, <2>3, <2>4 DEF Follows
<1>11. QED
  BY <1>3, <1>4, <1>5, <1>9, <1>10 DEF Sound
-----------------------------------------------------------------------------
(* The inductive invariant                                                   *)

\* What is offered waits, what is busy runs (in the file too, but for a stale
\* write), and both end with their batch.
Batched ==
    /\ phase # "batch" => offered = {} /\ busy = {}
    /\ offered \cap busy = {}
    /\ \A n \in busy : run.status[n] = "running" /\ (overwritten \/ disk.status[n] = "running")
    /\ \A n \in offered : run.status[n] \in {"pending", "stale"}

\* A node in doubt waits for its orphan's time or for the read-back, unless its
\* scope has changed.
Held(r, n) == n \in r.rescoped \/ r.status[n] \in {"running", "needs_readback"}
Doubted == overwritten \/ \A n \in uncertain : Held(run, n) /\ Held(disk, n) /\ (n \in run.rescoped \/ n \notin busy)

Copied == Sound(disk) /\ \A p \in Operators : Sound(copy[p])

\* Without a session the run state is the one in the file.
Filed == ~Up => run = disk

IInv == TypeOK /\ Sound(run) /\ Copied /\ Filed /\ Batched /\ Doubted

LEMMA SeededSound == Seeded \in Runs /\ Sound(Seeded)
<1>1. <<>> \in Seq(Attempts)
  BY EmptySeq
<1>2. Seeded \in Runs
  BY <1>1 DEF Seeded, Runs, Statuses, OrderStatuses
<1>3. \A n \in Nodes : Seeded.attempts[n] = <<>> /\ Seeded.status[n] = "pending" /\ DOMAIN Seeded.attempts[n] = {}
  <2>1. DOMAIN <<>> = 1 .. 0
    BY <1>1, LenProperties, EmptySeq
  <2>2. QED
    BY <2>1 DEF Seeded
<1>4. \A o \in Orders : Seeded.order[o] = "absent"
  BY DEF Seeded
<1>5. Follows(Seeded)
  BY <1>3, <1>4 DEF Follows, Engaged, Live
<1>6. \A o \in Orders : Of(Seeded, For[o], o) = {} /\ Won(Seeded, o) = {}
  BY <1>3, WorkOrdersAssumption DEF Of, Won
<1>7. Counted(Seeded)
  BY <1>4, <1>6, FS_EmptySet, WorkOrdersAssumption DEF Counted, Tallied
<1>8. QED
  BY <1>2, <1>5, <1>7 DEF Sound

LEMMA InitInv == Init => IInv
<1> SUFFICES ASSUME Init PROVE IInv
  OBVIOUS
<1>1. TypeOK
  BY SeededSound DEF Init, TypeOK
<1>2. QED
  BY <1>1, SeededSound DEF Init, IInv, Copied, Filed, Batched, Doubted

(* A session writes a sound run state.                                       *)
LEMMA WrittenInv ==
    ASSUME IInv, NEW r \in Runs, Sound(r), Write(r), UNCHANGED operate,
           phase' \in {"down", "dead", "loop", "batch"}, offered' \subseteq Nodes, busy' \subseteq Nodes, changes' \in Nat,
           phase' # "batch" => offered' = {} /\ busy' = {},
           offered' \cap busy' = {},
           \A n \in busy' : r.status[n] = "running",
           \A n \in offered' : r.status[n] \in {"pending", "stale"},
           overwritten \/ \A n \in uncertain : Held(r, n) /\ (n \in r.rescoped \/ n \notin busy')
    PROVE  IInv'
<1>1. run' = r /\ disk' = r /\ uncertain' = uncertain \cup {n \in Effectful : r.status[n] = "needs_readback"}
  BY DEF Write
<1>2. TypeOK'
  BY <1>1, WorkOrdersAssumption DEF IInv, TypeOK, operate
<1>3. Copied' /\ Filed' /\ Batched'
  BY <1>1 DEF IInv, Copied, Filed, Batched, operate
<1>4. Doubted'
  BY <1>1 DEF Doubted, Held, operate
<1>5. QED
  BY <1>1, <1>2, <1>3, <1>4 DEF IInv

(* A status changes alone.                                                   *)
LEMMA StatusTyped ==
    ASSUME NEW r \in Runs, NEW f \in [Nodes -> Statuses], NEW s, s = [r EXCEPT !.status = f]
    PROVE  s \in Runs /\ s.status = f /\ s.attempts = r.attempts /\ s.order = r.order /\ s.rescoped = r.rescoped
BY DEF Runs

LEMMA ReopenedFields ==
    ASSUME NEW r \in Runs, NEW s, s = Reopened(r)
    PROVE  /\ s \in Runs /\ s.attempts = r.attempts /\ s.order = r.order /\ s.rescoped = r.rescoped
           /\ \A n \in Nodes : s.status[n] = r.status[n]
                               \/ (r.status[n] \in {"succeeded", "failed", "blocked"} /\ s.status[n] = "stale")
BY DEF Reopened, Runs, Statuses

LEMMA ReopenedSound == ASSUME NEW r \in Runs, Sound(r) PROVE Sound(Reopened(r))
<1>1. /\ Reopened(r) \in Runs /\ Reopened(r).attempts = r.attempts /\ Reopened(r).order = r.order
      /\ Reopened(r).rescoped = r.rescoped
      /\ \A n \in Nodes : \/ Reopened(r).status[n] = r.status[n]
                          \/ r.status[n] \in {"succeeded", "failed", "blocked"} /\ Reopened(r).status[n] = "stale"
  BY ReopenedFields
<1>2. QED
  BY <1>1, StatusOnly DEF Engaged

LEMMA EndedStatus ==
    ASSUME NEW r \in Runs, NEW n \in Nodes, NEW a, NEW st, NEW ord, NEW m \in Nodes
    PROVE  /\ Ended(r, n, a, st, ord).status[m] = IF m = n THEN st ELSE r.status[m]
           /\ Ended(r, n, a, st, ord).rescoped = r.rescoped
BY DEF Ended, Runs

LEMMA RetriedTyped == ASSUME NEW r, NEW n PROVE Retried(r, n) \in {"blocked", "stale"}
BY DEF Retried
-----------------------------------------------------------------------------
(* One lemma for each action                                                 *)

LEMMA EnterInv == ASSUME IInv, Enter PROVE IInv'
<1>1. PICK changed \in SUBSET Nodes :
        /\ changes' \in Nat
        /\ \E late \in SUBSET Running(Replanned(run, changed)) : Write(Reopened(Orphaned(Replanned(run, changed), late)))
  BY WorkOrdersAssumption DEF Enter, Changing, IInv, TypeOK
<1> DEFINE p == Replanned(run, changed)
<1>2. PICK late \in SUBSET Running(p) : Write(Reopened(Orphaned(p, late)))
  BY <1>1
<1> DEFINE q == Orphaned(p, late)
           r == Reopened(q)
<1>3. run \in Runs /\ Sound(run)
  BY DEF IInv, TypeOK
<1>4. /\ p \in Runs /\ Sound(p) /\ p.attempts = run.attempts /\ p.rescoped = run.rescoped
      /\ \A n \in Nodes : \/ p.status[n] = run.status[n] \/ p.status[n] = "needs_readback"
                          \/ n \in changed /\ (run.attempts[n] = <<>> \/ n \notin Effectful)
  BY <1>3, ReplannedSound
<1>5. q \in Runs /\ Sound(q) /\ q.rescoped = p.rescoped
  <2> HIDE DEF p
  <2>1. QED
    BY <1>2, <1>4, OrphanedSound
<1>6. \A n \in Nodes : q.status[n] = IF n \notin late THEN p.status[n]
                                    ELSE IF n \in Effectful THEN "needs_readback" ELSE "pending"
  <2> HIDE DEF p
  <2>1. QED
    BY <1>4 DEF Orphaned, OrphanedAs, Runs
<1>7. /\ r \in Runs /\ Sound(r) /\ r.rescoped = q.rescoped
      /\ \A n \in Nodes : r.status[n] = q.status[n]
                          \/ (q.status[n] \in {"succeeded", "failed", "blocked"} /\ r.status[n] = "stale")
  <2> HIDE DEF q
  <2>1. QED
    BY <1>5, ReopenedFields, ReopenedSound
<1>8. /\ phase \in {"down", "dead"} /\ phase' = "loop" /\ offered' = {} /\ busy' = {} /\ UNCHANGED operate
  BY DEF Enter, Up, IInv, TypeOK, Batched
<1>9. ASSUME NEW n \in uncertain, ~overwritten PROVE Held(r, n)
  <2>1. n \in Nodes /\ n \in Effectful /\ Held(run, n)
    BY <1>9, WorkOrdersAssumption DEF IInv, TypeOK, Doubted
  <2>2. CASE n \in run.rescoped
    BY <1>4, <1>5, <1>7, <2>2 DEF Held
  <2>3. CASE run.status[n] \in {"running", "needs_readback"}
    <3>1. run.attempts[n] # <<>>
      BY <1>3, <2>1, <2>3 DEF Sound, Follows, Engaged
    <3>2. p.status[n] \in {"running", "needs_readback"}
      BY <1>4, <2>1, <2>3, <3>1
    <3>3. q.status[n] \in {"running", "needs_readback"}
      BY <1>6, <2>1, <3>2
    <3>4. QED
      BY <1>7, <2>1, <3>3 DEF Held
  <2>4. QED
    BY <2>1, <2>2, <2>3 DEF Held
<1> HIDE DEF r
<1>10. QED
  BY <1>1, <1>2, <1>7, <1>8, <1>9, WrittenInv DEF r

LEMMA FrontierInv == ASSUME IInv, Frontier PROVE IInv'
<1>1. PICK changed \in SUBSET Changeable :
        \E needed \in SUBSET changed :
          /\ Changing(changed)
          /\ LET latest == Reopened(Rescoped(run, changed, needed))
                 eligible == {n \in Nodes : latest.status[n] \in {"pending", "stale"}}
             IN  \E batch \in SUBSET eligible : \E parked \in SUBSET (eligible \ batch) :
                   /\ Write([latest EXCEPT !.status = [n \in Nodes |-> IF n \in parked THEN "blocked" ELSE @[n]]])
                   /\ offered' = batch /\ phase' = IF batch = {} THEN "loop" ELSE "batch"
  BY DEF Frontier
<1>2. PICK needed \in SUBSET changed :
        /\ Changing(changed)
        /\ LET latest == Reopened(Rescoped(run, changed, needed))
               eligible == {n \in Nodes : latest.status[n] \in {"pending", "stale"}}
           IN  \E batch \in SUBSET eligible : \E parked \in SUBSET (eligible \ batch) :
                 /\ Write([latest EXCEPT !.status = [n \in Nodes |-> IF n \in parked THEN "blocked" ELSE @[n]]])
                 /\ offered' = batch /\ phase' = IF batch = {} THEN "loop" ELSE "batch"
  BY <1>1
<1>3. changed \in SUBSET Nodes /\ changes' \in Nat
  BY <1>2, WorkOrdersAssumption DEF Changing, IInv, TypeOK
<1> DEFINE p == Rescoped(run, changed, needed)
           q == Reopened(p)
           eligible == {n \in Nodes : q.status[n] \in {"pending", "stale"}}
<1>4. PICK batch \in SUBSET eligible :
        \E parked \in SUBSET (eligible \ batch) :
          /\ Write([q EXCEPT !.status = [n \in Nodes |-> IF n \in parked THEN "blocked" ELSE @[n]]])
          /\ offered' = batch /\ phase' = IF batch = {} THEN "loop" ELSE "batch"
  BY <1>2, Zenon
<1>5. PICK parked \in SUBSET (eligible \ batch) :
        /\ Write([q EXCEPT !.status = [n \in Nodes |-> IF n \in parked THEN "blocked" ELSE @[n]]])
        /\ offered' = batch /\ phase' = IF batch = {} THEN "loop" ELSE "batch"
  BY <1>4, Zenon
<1> DEFINE f == [n \in Nodes |-> IF n \in parked THEN "blocked" ELSE q.status[n]]
           r == [q EXCEPT !.status = f]
<1>6. run \in Runs /\ Sound(run) /\ busy = {} /\ busy' = {} /\ UNCHANGED operate
  BY DEF Frontier, IInv, TypeOK
<1>7. /\ p \in Runs /\ Sound(p) /\ p.rescoped = run.rescoped \cup changed
      /\ \A n \in Nodes : n \notin changed => p.status[n] = run.status[n]
  <2>1. p = Rescoped(run, changed, needed)
    OBVIOUS
  <2> HIDE DEF p
  <2>2. QED
    BY <1>3, <1>6, <2>1, RescopedSound, SMTT(60)
<1> HIDE DEF p
<1>8. /\ q \in Runs /\ Sound(q) /\ q.rescoped = p.rescoped
      /\ \A n \in Nodes : q.status[n] = p.status[n]
                          \/ (p.status[n] \in {"succeeded", "failed", "blocked"} /\ q.status[n] = "stale")
  BY <1>7, ReopenedFields, ReopenedSound
<1> HIDE DEF q
<1>9. f \in [Nodes -> Statuses]
  BY <1>8 DEF Runs, Statuses
<1> HIDE DEF f
<1>10. r \in Runs /\ r.status = f /\ r.attempts = q.attempts /\ r.order = q.order /\ r.rescoped = q.rescoped
  BY <1>8, <1>9, StatusTyped
<1>11. \A n \in Nodes : \/ n \notin parked /\ r.status[n] = q.status[n]
                        \/ n \in parked /\ r.status[n] = "blocked" /\ q.status[n] \in {"pending", "stale"}
  BY <1>10 DEF f
<1>12. Write(r)
  BY <1>5 DEF f
<1> HIDE DEF r
<1>13. Sound(r)
  BY <1>8, <1>10, <1>11, StatusOnly DEF Engaged
<1>14. \A n \in batch : r.status[n] \in {"pending", "stale"}
  BY <1>5, <1>11
<1>15. ASSUME NEW n \in uncertain, ~overwritten PROVE Held(r, n)
  <2>1. n \in Nodes /\ Held(run, n)
    BY <1>15, WorkOrdersAssumption DEF IInv, TypeOK, Doubted
  <2>2. CASE n \in run.rescoped \cup changed
    BY <1>7, <1>8, <1>10, <2>2 DEF Held
  <2>3. CASE n \notin changed /\ run.status[n] \in {"running", "needs_readback"}
    BY <1>7, <1>8, <1>11, <2>1, <2>3 DEF Held
  <2>4. QED
    BY <2>1, <2>2, <2>3 DEF Held
<1>16. offered' \subseteq Nodes /\ phase' \in {"down", "dead", "loop", "batch"} /\ (phase' # "batch" => offered' = {})
  BY <1>5
<1>17. QED
  BY <1>3, <1>4, <1>5, <1>6, <1>10, <1>12, <1>13, <1>14, <1>15, <1>16, WrittenInv

\* Whose effect is not in doubt, as far as a session knows.
Clear(n) == overwritten \/ n \in run.rescoped \/ n \notin uncertain

(* What the steps of a batch read of it.                                     *)
LEMMA OfferedWaits ==
    ASSUME IInv, NEW n \in offered
    PROVE  n \in Nodes /\ run.status[n] \in {"pending", "stale"} /\ n \notin busy /\ phase = "batch" /\ Clear(n)
BY DEF IInv, TypeOK, Batched, Doubted, Held, Clear

LEMMA BusyRuns ==
    ASSUME IInv, NEW n \in busy
    PROVE  n \in Nodes /\ run.status[n] = "running" /\ n \notin offered /\ phase = "batch" /\ Clear(n)
BY DEF IInv, TypeOK, Batched, Doubted, Clear

(* One node of a batch moves.                                                *)
LEMMA OneMoves ==
    ASSUME IInv, NEW n \in Nodes, Clear(n), NEW r \in Runs, Sound(r), Write(r), r.rescoped = run.rescoped,
           \A m \in Nodes : m # n => r.status[m] = run.status[m],
           UNCHANGED <<phase, operate, changes>>, offered' \subseteq offered,
           busy' \subseteq busy \cup Only(n), n \notin offered',
           n \in busy' => phase = "batch" /\ r.status[n] = "running"
    PROVE  IInv'
<1>1. /\ phase' = phase /\ changes' = changes /\ phase \in {"down", "dead", "loop", "batch"} /\ changes \in Nat
      /\ offered \subseteq Nodes /\ busy \subseteq Nodes /\ uncertain \subseteq Nodes
  BY WorkOrdersAssumption DEF IInv, TypeOK
<1>2. \A m \in busy' : m \in busy \/ m = n
  BY DEF Only
<1>3. overwritten \/ \A m \in uncertain : Held(r, m) /\ (m \in r.rescoped \/ m \notin busy')
  BY <1>1, <1>2 DEF IInv, Doubted, Held, Clear
<1>4. offered' \subseteq Nodes /\ busy' \subseteq Nodes
  BY <1>1, <1>2
<1>5. \A m \in busy' : r.status[m] = "running"
  BY <1>1, <1>2 DEF IInv, Batched
<1>6. \A m \in offered' : r.status[m] \in {"pending", "stale"}
  BY <1>1 DEF IInv, Batched
<1>7. (phase' # "batch" => offered' = {} /\ busy' = {}) /\ offered' \cap busy' = {}
  BY <1>1, <1>2 DEF IInv, Batched
<1>8. UNCHANGED operate
  OBVIOUS
<1>9. QED
  BY <1>1, <1>3, <1>4, <1>5, <1>6, <1>7, <1>8, WrittenInv

LEMMA ParkInv == ASSUME IInv, NEW n \in Nodes, Park(n) PROVE IInv'
<1> DEFINE f == [run.status EXCEPT ![n] = "blocked"]
           r == [run EXCEPT !.status = f]
<1>1. run \in Runs /\ Sound(run)
  BY DEF IInv, TypeOK
<1>2. f \in [Nodes -> Statuses] /\ f[n] = "blocked" /\ \A m \in Nodes : m # n => f[m] = run.status[m]
  BY <1>1 DEF Runs, Statuses
<1> HIDE DEF f
<1>3. r \in Runs /\ r.status = f /\ r.attempts = run.attempts /\ r.order = run.order /\ r.rescoped = run.rescoped
  BY <1>1, <1>2, StatusTyped
<1>4. Write(r) /\ UNCHANGED <<phase, busy, operate, changes>> /\ offered' = offered \ {n} /\ n \in offered
  BY DEF Park, f
<1>5. run.status[n] \in {"pending", "stale"} /\ n \notin busy /\ Clear(n)
  BY <1>4, OfferedWaits
<1> HIDE DEF r
<1>6. Sound(r)
  BY <1>1, <1>2, <1>3, <1>5, StatusOnly DEF Engaged
<1>7. QED
  BY <1>2, <1>3, <1>4, <1>5, <1>6, OneMoves DEF Only

LEMMA BeginInv == ASSUME IInv, NEW n \in Nodes, Begin(n) PROVE IInv'
<1> DEFINE r == Begun(run, n)
<1>1. run \in Runs /\ Sound(run)
  BY DEF IInv, TypeOK
<1>2. /\ ~Exhausted(run, n, Taken(run, n)) /\ Write(r) /\ n \in offered /\ offered' = offered \ {n}
      /\ busy' = busy \cup {n} /\ UNCHANGED <<phase, operate, changes>>
  BY DEF Begin, Begun
<1>3. run.status[n] \in {"pending", "stale"} /\ phase = "batch" /\ Clear(n)
  BY <1>2, OfferedWaits
<1>4. r \in Runs /\ Sound(r) /\ r.status[n] = "running" /\ r.rescoped = run.rescoped
      /\ \A m \in Nodes \ {n} : r.status[m] = run.status[m]
  <2>1. run.status[n] \notin Engaged
    BY <1>3 DEF Engaged
  <2>2. QED
    BY <1>1, <1>2, <2>1, BegunSound
<1> HIDE DEF r
<1>5. QED
  BY <1>2, <1>3, <1>4, OneMoves DEF Only

LEMMA BeginExhaustedInv == ASSUME IInv, NEW n \in Nodes, BeginExhausted(n) PROVE IInv'
<1> DEFINE r == [run EXCEPT !.status[n] = "blocked",
                            !.order = Moved(run, Taken(run, n), {"authorized"}, "exhausted")]
<1>1. run \in Runs /\ Sound(run)
  BY DEF IInv, TypeOK
<1>2. /\ Exhausted(run, n, Taken(run, n)) /\ Write(r) /\ n \in offered /\ offered' = offered \ {n}
      /\ UNCHANGED <<phase, busy, operate, changes>>
  BY DEF BeginExhausted
<1>3. run.status[n] \in {"pending", "stale"} /\ n \notin busy /\ Clear(n)
  BY <1>2, OfferedWaits
<1>4. \A m \in Nodes : m # n => r.status[m] = run.status[m]
  BY <1>1 DEF Runs
<1>5. r \in Runs /\ Sound(r) /\ r.rescoped = run.rescoped
  <2>1. run.status[n] \notin Engaged
    BY <1>3 DEF Engaged
  <2>2. QED
    BY <1>1, <1>2, <2>1, ExhaustedSound
<1> HIDE DEF r
<1>6. QED
  BY <1>2, <1>3, <1>4, <1>5, OneMoves DEF Only

(* An attempt that was at work, or whose result was judged, ends.            *)
LEMMA EndInv ==
    ASSUME IInv, NEW n \in Nodes, NEW a, NEW st, NEW ord, Write(Ended(run, n, a, st, ord)),
           Ended(run, n, a, st, ord) \in Runs, Sound(Ended(run, n, a, st, ord)), run.status[n] \in Live,
           Clear(n), UNCHANGED <<phase, offered, operate, changes>>,
           busy' = busy \ {n}
    PROVE  IInv'
<1> DEFINE r == Ended(run, n, a, st, ord)
<1>1. r.rescoped = run.rescoped /\ \A m \in Nodes : m # n => r.status[m] = run.status[m]
  BY EndedStatus DEF IInv, TypeOK
<1>2. n \notin offered
  BY DEF IInv, Batched, Live
<1> HIDE DEF r
<1>3. QED
  BY <1>1, <1>2, OneMoves DEF Only, r

LEMMA FailInv == ASSUME IInv, NEW n \in Nodes, Fail(n) PROVE IInv'
<1>1. n \in busy /\ busy' = busy \ {n} /\ UNCHANGED <<phase, offered, operate, changes>>
  BY DEF Fail, Returns
<1>2. run \in Runs /\ Sound(run) /\ run.status[n] \in Live /\ Clear(n)
  BY <1>1, BusyRuns DEF IInv, TypeOK, Live
<1> DEFINE ord == Restored(run, Newest(run, n).order)
<1>3. PICK st \in Statuses \ {"running", "unverified"} : Write(Ended(run, n, "failed", st, ord))
  BY RetriedTyped DEF Fail, Statuses
<1> HIDE DEF ord
<1>4. Ended(run, n, "failed", st, ord) \in Runs /\ Sound(Ended(run, n, "failed", st, ord))
  BY <1>2, EndedSound DEF ord
<1>5. QED
  BY <1>1, <1>2, <1>3, <1>4, EndInv

LEMMA LandInv == ASSUME IInv, NEW n \in Nodes, Land(n) PROVE IInv'
<1>1. n \in busy /\ busy' = busy \ {n} /\ UNCHANGED <<phase, offered, operate, changes>>
  BY DEF Land, Returns
<1>2. run \in Runs /\ Sound(run) /\ run.status[n] \in Live /\ Clear(n)
  BY <1>1, BusyRuns DEF IInv, TypeOK, Live
<1>3. CASE n \in Judged
  <2>1. Write(Ended(run, n, "blocked", "unverified", run.order))
    BY <1>3 DEF Land
  <2>2. /\ Ended(run, n, "blocked", "unverified", run.order) \in Runs
        /\ Sound(Ended(run, n, "blocked", "unverified", run.order))
    BY <1>2, EndedSound DEF Statuses, Engaged
  <2>3. QED
    BY <1>1, <1>2, <2>1, <2>2, EndInv
<1>4. CASE n \notin Judged
  <2> DEFINE ord == Proved(run, Newest(run, n).order)
  <2>1. Write(Ended(run, n, "succeeded", "succeeded", ord))
    BY <1>4 DEF Land
  <2>2. Ended(run, n, "succeeded", "succeeded", ord) \in Runs /\ Sound(Ended(run, n, "succeeded", "succeeded", ord))
    BY <1>2, ProvedSound
  <2> HIDE DEF ord
  <2>3. QED
    BY <1>1, <1>2, <2>1, <2>2, EndInv
<1>5. QED
  BY <1>3, <1>4

(* A result that is judged is of no node in doubt.                           *)
LEMMA VerifyingWaits ==
    ASSUME IInv, NEW n \in Nodes, Verifying(n)
    PROVE  /\ run \in Runs /\ Sound(run) /\ run.status[n] \in Live /\ Clear(n)
           /\ busy' = busy \ {n} /\ UNCHANGED <<phase, offered, operate, changes>>
<1>1. run.status[n] = "unverified" /\ n \notin busy /\ UNCHANGED <<session, operate, changes>>
  BY DEF Verifying
<1>2. Clear(n)
  BY <1>1 DEF IInv, Doubted, Held, Clear
<1>3. QED
  BY <1>1, <1>2 DEF IInv, TypeOK, Live, session

LEMMA ParkReadbackInv == ASSUME IInv, NEW n \in Nodes, ParkReadback(n) PROVE IInv'
<1> DEFINE own == Newest(run, n).order
           parked(ord) == Ended(run, n, "needs_readback", "needs_readback", ord)
<1>1. n \in Shared /\ (Returns(n) \/ Verifying(n))
  BY DEF ParkReadback
<1>2. /\ run \in Runs /\ Sound(run) /\ run.status[n] \in Live /\ Clear(n)
      /\ busy' = busy \ {n} /\ UNCHANGED <<phase, offered, operate, changes>>
  <2>1. CASE Returns(n)
    BY <2>1, BusyRuns DEF Returns, IInv, TypeOK, Live
  <2>2. CASE Verifying(n)
    BY <2>2, VerifyingWaits
  <2>3. QED
    BY <1>1, <2>1, <2>2
<1>3. PICK ord \in {run.order, Proved(run, own), Restored(run, own)} : Write(parked(ord))
  BY DEF ParkReadback
<1>4. parked(ord) \in Runs /\ Sound(parked(ord))
  <2>1. CASE ord = run.order \/ ord = Restored(run, own)
    BY <1>2, <2>1, EndedSound DEF Statuses, Engaged
  <2>2. CASE ord = Proved(run, own)
    BY <1>1, <1>2, <2>2, ProvedSound
  <2>3. QED
    BY <1>3, <2>1, <2>2
<1> HIDE DEF own
<1>5. QED
  BY <1>1, <1>2, <1>3, <1>4, EndInv

LEMMA AcceptInv == ASSUME IInv, NEW n \in Nodes, Accept(n) PROVE IInv'
<1> DEFINE ord == Proved(run, Newest(run, n).order)
<1>1. Verifying(n) /\ Write(Ended(run, n, "succeeded", "succeeded", ord))
  BY DEF Accept, Accepted
<1>2. Ended(run, n, "succeeded", "succeeded", ord) \in Runs /\ Sound(Ended(run, n, "succeeded", "succeeded", ord))
  BY <1>1, VerifyingWaits, ProvedSound
<1> HIDE DEF ord
<1>3. QED
  BY <1>1, <1>2, VerifyingWaits, EndInv

LEMMA RejectInv == ASSUME IInv, NEW n \in Nodes, Reject(n) PROVE IInv'
<1> DEFINE ord == Restored(run, Newest(run, n).order)
           st == IF n \in Effectful /\ ~Exhausted(run, n, 0) THEN "needs_readback" ELSE Retried(run, n)
<1>1. Verifying(n) /\ Write(Ended(run, n, "failed", st, ord))
  BY DEF Reject, Rejected, RejectedAs
<1>2. st \in Statuses \ {"running", "unverified"}
  BY RetriedTyped DEF Statuses
<1> HIDE DEF st, ord
<1>3. Ended(run, n, "failed", st, ord) \in Runs /\ Sound(Ended(run, n, "failed", st, ord))
  BY <1>1, <1>2, VerifyingWaits, EndedSound DEF ord
<1>4. QED
  BY <1>1, <1>3, VerifyingWaits, EndInv

LEMMA RejectEvidenceInv == ASSUME IInv, NEW n \in Nodes, RejectEvidence(n) PROVE IInv'
<1> DEFINE st == Retried(run, n)
<1>1. Verifying(n) /\ Write(Ended(run, n, "failed", st, run.order)) /\ n \in Audits
  BY DEF RejectEvidence
<1>2. st \in Statuses \ {"running", "unverified"}
  BY RetriedTyped DEF Statuses
<1> HIDE DEF st
<1>3. Ended(run, n, "failed", st, run.order) \in Runs /\ Sound(Ended(run, n, "failed", st, run.order))
  BY <1>1, <1>2, VerifyingWaits, EndedSound
<1>4. QED
  BY <1>1, <1>3, VerifyingWaits, EndInv

(* The steps of a session that write what it has.                            *)
LEMMA RewriteInv == ASSUME IInv, Heartbeat \/ Leave PROVE IInv'
<1>1. /\ Write(run) /\ run \in Runs /\ Sound(run) /\ UNCHANGED <<operate, changes>>
      /\ offered' = offered /\ busy' = busy /\ changes \in Nat /\ offered \subseteq Nodes /\ busy \subseteq Nodes
  BY DEF Heartbeat, Leave, session, IInv, TypeOK
<1>2. /\ phase' \in {"down", "dead", "loop", "batch"}
      /\ phase' # "batch" => offered' = {} /\ busy' = {}
  BY DEF Heartbeat, Leave, session, IInv, TypeOK, Batched
<1>3. /\ offered' \cap busy' = {}
      /\ \A n \in busy' : run.status[n] = "running"
      /\ \A n \in offered' : run.status[n] \in {"pending", "stale"}
      /\ overwritten \/ \A n \in uncertain : Held(run, n) /\ (n \in run.rescoped \/ n \notin busy')
  BY <1>1 DEF IInv, Batched, Doubted
<1>4. QED
  BY <1>1, <1>2, <1>3, WrittenInv

LEMMA BatchDoneInv == ASSUME IInv, BatchDone PROVE IInv'
<1>1. UNCHANGED <<state, offered, busy, operate, changes>> /\ phase = "batch" /\ phase' = "loop" /\ offered = {} /\ busy = {}
  BY DEF BatchDone
<1>2. QED
  BY <1>1 DEF IInv, TypeOK, Copied, Filed, Up, Batched, Doubted, Held, state, operate

(* What a session leaves is what it last wrote, and the work it was at is in *)
(* doubt from then on.                                                       *)
LEMMA DieInv == ASSUME IInv, Die PROVE IInv'
<1>1. /\ run' = disk /\ disk' = disk /\ phase' \in {"down", "dead"} /\ offered' = {} /\ busy' = {}
      /\ UNCHANGED <<operate, changes>> /\ uncertain' = uncertain \cup (busy \cap Effectful)
  BY DEF Die
<1>2. TypeOK'
  BY <1>1 DEF IInv, TypeOK, operate
<1>3. Doubted'
  <2> SUFFICES ASSUME ~overwritten, NEW n \in uncertain' PROVE Held(disk, n)
    BY <1>1 DEF Doubted, Held, operate
  <2>1. CASE n \in uncertain
    BY <2>1 DEF IInv, Doubted
  <2>2. CASE n \in busy
    BY <2>2 DEF IInv, Batched, Held
  <2>3. QED
    BY <1>1, <2>1, <2>2
<1>4. Sound(run)' /\ Copied' /\ Filed' /\ Batched'
  BY <1>1 DEF IInv, Copied, Filed, Batched, operate
<1>5. QED
  BY <1>2, <1>3, <1>4 DEF IInv

LEMMA LoadInv == ASSUME IInv, NEW p \in Operators, Load(p) PROVE IInv'
<1>1. UNCHANGED <<state, session, overwritten, changes>> /\ copy' = [copy EXCEPT ![p] = disk] /\ calls' \in Nat
      /\ loaded' \subseteq Operators
  BY DEF Load, IInv, TypeOK
<1>2. TypeOK'
  BY <1>1 DEF IInv, TypeOK, state, session
<1>3. Copied'
  BY <1>1 DEF IInv, TypeOK, Copied, state
<1>4. QED
  BY <1>1, <1>2, <1>3 DEF IInv, Filed, Up, Batched, Doubted, Held, state, session

(* The copy that is written back is sound, and if it is not what the file    *)
(* holds by then something is overwritten.                                   *)
LEMMA WritesTyped ==
    ASSUME IInv, NEW p \in Operators, Writes(p)
    PROVE  /\ copy[p] \in Runs /\ Sound(copy[p])
           /\ copy' \in [Operators -> Runs] /\ \A o \in Operators : Sound(copy'[o])
           /\ loaded' \subseteq Operators /\ calls' \in Nat /\ overwritten' \in BOOLEAN
           /\ ~overwritten' => ~overwritten /\ copy[p] = disk
           /\ UNCHANGED <<phase, offered, busy, changes>>
<1>1. /\ UNCHANGED <<session, changes, calls>> /\ loaded' = loaded \ {p} /\ copy' = [copy EXCEPT ![p] = Seeded]
      /\ overwritten' = (overwritten \/ copy[p] # disk)
  BY DEF Writes
<1>2. copy' \in [Operators -> Runs] /\ \A o \in Operators : Sound(copy'[o])
  BY <1>1, SeededSound DEF IInv, TypeOK, Copied
<1>3. QED
  BY <1>1, <1>2 DEF IInv, TypeOK, Copied, session

LEMMA CommitInv == ASSUME IInv, NEW p \in Operators, Commit(p) PROVE IInv'
<1>0. PICK o \in Orders : \E r \in {Noted(copy[p], o), Recorded(copy[p], o)} : Write(r)
  BY DEF Commit
<1>1. PICK r \in {Noted(copy[p], o), Recorded(copy[p], o)} : Write(r)
  BY <1>0
<1>2. /\ copy[p] \in Runs /\ Sound(copy[p]) /\ copy' \in [Operators -> Runs]
      /\ \A q \in Operators : Sound(copy'[q])
      /\ loaded' \subseteq Operators /\ calls' \in Nat /\ overwritten' \in BOOLEAN
      /\ ~overwritten' => ~overwritten /\ copy[p] = disk
      /\ UNCHANGED <<phase, offered, busy, changes>>
  BY WritesTyped DEF Commit
<1>3. r \in Runs /\ Sound(r) /\ r.status = copy[p].status /\ r.rescoped = copy[p].rescoped
  BY <1>2, OperatedSound
<1>4. phase = "down" /\ offered = {} /\ busy = {}
  BY DEF Commit, IInv, Batched
<1>5. run' = r /\ disk' = r /\ uncertain' = uncertain \cup {n \in Effectful : r.status[n] = "needs_readback"}
  BY <1>1 DEF Write
<1>6. TypeOK'
  BY <1>2, <1>3, <1>5 DEF IInv, TypeOK
<1>7. Doubted'
  BY <1>2, <1>3, <1>4, <1>5 DEF IInv, Doubted, Held
<1>8. Sound(run)' /\ Copied' /\ Filed' /\ Batched'
  BY <1>2, <1>3, <1>4, <1>5 DEF Copied, Filed, Batched
<1>9. QED
  BY <1>6, <1>7, <1>8 DEF IInv

(* What verify.ts has read waited for its judgment, so it was of no node in  *)
(* doubt, nor of one that a session works on.                                *)
LEMMA VerifyInv == ASSUME IInv, NEW p \in Operators, Verify(p) PROVE IInv'
<1>1. /\ copy[p] \in Runs /\ Sound(copy[p]) /\ copy' \in [Operators -> Runs]
      /\ \A q \in Operators : Sound(copy'[q])
      /\ loaded' \subseteq Operators /\ calls' \in Nat /\ overwritten' \in BOOLEAN
      /\ ~overwritten' => ~overwritten /\ copy[p] = disk
      /\ UNCHANGED <<phase, offered, busy, changes>>
  BY WritesTyped DEF Verify
<1>2. PICK n \in Nodes : copy[p].status[n] = "unverified" /\ disk' = Accepted(copy[p], n)
  BY DEF Verify
<1>3. /\ disk' \in Runs /\ Sound(disk') /\ disk'.rescoped = copy[p].rescoped
      /\ \A m \in Nodes : disk'.status[m] = IF m = n THEN "succeeded" ELSE copy[p].status[m]
  <2>1. disk' \in Runs /\ Sound(disk')
    BY <1>1, <1>2, ProvedSound DEF Accepted, Live
  <2>2. QED
    BY <1>1, <1>2, <2>1, EndedStatus DEF Accepted
<1>4. run' = (IF Up THEN run ELSE disk') /\ uncertain' = uncertain
  BY DEF Verify
<1>5. TypeOK'
  BY <1>1, <1>3, <1>4 DEF IInv, TypeOK
<1>6. Sound(run)' /\ Copied' /\ Filed'
  BY <1>1, <1>3, <1>4 DEF IInv, Copied, Filed, Up
<1>7. ~Up => offered = {} /\ busy = {}
  BY DEF Up, IInv, Batched
<1>8. \A m \in busy : overwritten' \/ disk'.status[m] = "running"
  BY <1>1, <1>2, <1>3 DEF IInv, TypeOK, Batched
<1>9. Batched'
  BY <1>1, <1>4, <1>7, <1>8 DEF IInv, Batched
<1>10. ASSUME ~overwritten', NEW m \in uncertain PROVE Held(disk', m)
  <2>1. m \in Nodes /\ Held(disk, m) /\ copy[p] = disk
    BY <1>1, <1>10, WorkOrdersAssumption DEF IInv, TypeOK, Doubted
  <2>2. QED
    BY <1>2, <1>3, <2>1 DEF Held
<1>11. Doubted'
  BY <1>1, <1>4, <1>7, <1>10 DEF IInv, Doubted, Held
<1>12. QED
  BY <1>5, <1>6, <1>9, <1>11 DEF IInv

LEMMA StepInv == IInv /\ [Next]_vars => IInv'
<1> SUFFICES ASSUME IInv, [Next]_vars PROVE IInv'
  OBVIOUS
<1>1. CASE Enter
  BY <1>1, EnterInv
<1>2. CASE Frontier
  BY <1>2, FrontierInv
<1>3. CASE BatchDone \/ Heartbeat \/ Leave \/ Die
  BY <1>3, BatchDoneInv, RewriteInv, DieInv
<1>4. ASSUME NEW n \in Nodes,
             \/ Park(n) \/ Begin(n) \/ BeginExhausted(n) \/ Fail(n) \/ ParkReadback(n) \/ Land(n)
             \/ Accept(n) \/ Reject(n) \/ RejectEvidence(n)
      PROVE  IInv'
  BY <1>4, ParkInv, BeginInv, BeginExhaustedInv, FailInv, ParkReadbackInv, LandInv, AcceptInv, RejectInv, RejectEvidenceInv
<1>5. ASSUME NEW p \in Operators, Load(p) \/ Commit(p) \/ Verify(p) PROVE IInv'
  BY <1>5, LoadInv, CommitInv, VerifyInv
<1>6. CASE UNCHANGED vars
  BY <1>6 DEF vars, state, session, operate, IInv, TypeOK, Copied, Filed, Up, Batched, Doubted, Held
<1>7. QED
  BY <1>1, <1>2, <1>3, <1>4, <1>5, <1>6 DEF Next

THEOREM Invariance == Spec => []IInv
BY InitInv, StepInv, PTL DEF Spec

(* The run state, in memory, in the file and in every copy that an operator  *)
(* has read, stays well formed.                                              *)
THEOREM TypeCorrect == Spec => []TypeOK
<1>1. IInv => TypeOK
  BY DEF IInv
<1>2. QED
  BY Invariance, <1>1, PTL

(* An order that runs is the order of its node's newest, unended attempt,    *)
(* unless the node is a design audit or its scope has changed, and a result  *)
(* that waits for a judgment still has its order running, so that recording  *)
(* the proof cannot throw (lifecycle.ts).                                    *)
THEOREM OrdersFollow == Spec => []OrderFollowsAttempt
<1>1. IInv => OrderFollowsAttempt
  BY WorkOrdersAssumption DEF IInv, Sound, Follows, OrderFollowsAttempt, Engaged, Live
<1>2. QED
  BY Invariance, <1>1, PTL

(* An order under observation was proved by one attempt of its own, or by    *)
(* its last, whose shared resource was found lost after that; and one that   *)
(* an attempt has proved is never worked on again.                           *)
THEOREM ProofOnce == Spec => []ProvedOnce
<1>1. IInv => ProvedOnce
  BY DEF IInv, Sound, Counted, Tallied, Won, Withdrawn, ProvedOnce
<1>2. QED
  BY Invariance, <1>1, PTL

(* No order gets more attempts than its node has, nor is given up before.    *)
THEOREM Bounded == Spec => []OrderBounded
<1>1. IInv => OrderBounded
  BY DEF IInv, Sound, Counted, Tallied, OrderBounded
<1>2. QED
  BY Invariance, <1>1, PTL

(* A blind repeat of work with an effect needs a change of its scope or a    *)
(* run state written back stale: nothing else that a session, the operating  *)
(* service or verify.ts does, in whatever order, makes one.                  *)
THEOREM BlindRetryExplained == Spec => []RetryExplained
<1>1. IInv => RetryExplained
  BY DEF IInv, Doubted, RetryExplained
<1>2. QED
  BY Invariance, <1>1, PTL
=============================================================================
