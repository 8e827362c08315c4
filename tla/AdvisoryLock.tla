---------------------------- MODULE AdvisoryLock ----------------------------
(***************************************************************************)
(* kernel/reducer/lock.ts: the advisory lock file beside business state,   *)
(* one file-system call per step.  A process is one incarnation of a CLI   *)
(* or session (its ownerSessionId is never reused).  The retry loop of     *)
(* acquireLock is a process that comes back to "idle" and starts again.    *)
(***************************************************************************)
EXTENDS Naturals

CONSTANTS Procs,        \* processes that call acquireLock, heartbeat, releaseLock
          Breakers,     \* those that pass --break-stale-verified
          Requesters,   \* interactive callers of requestInteractive
          Nobody,       \* no owner
          Free, Wedged, \* what Mutex calls an absent file and one nobody owns
          Ttl,          \* ttlSeconds, in clock units
          MaxTime,      \* bound on the clock
          Timely        \* TRUE: a live owner never lets its heartbeat go stale

ASSUME ProcsAssumption == /\ Nobody \notin Procs \cup Requesters
                          /\ Procs \cap Requesters = {}
                          /\ {Free, Wedged} \cap Procs = {} /\ Free # Wedged
ASSUME BreakersAssumption == Breakers \subseteq Procs
ASSUME TimeAssumption == Ttl \in Nat /\ MaxTime \in Nat /\ Timely \in BOOLEAN

VARIABLES file,     \* the lock file
          clock,    \* Date.now()
          pc,       \* where each process stands between two file-system calls
          copy,     \* the LockInfo each process read last
          stamp     \* the time each process took before its next write

lockVars == <<file, clock, pc, copy, stamp>>

Agents == Procs \cup Requesters

\* An "empty" file was created by openSync("wx") and not written yet: owner is
\* then the process that holds the descriptor, which no reader can see.
LockFile == [state : {"absent", "empty", "written"}, owner : Procs \cup {Nobody},
             heartbeatAt : Nat, pending : BOOLEAN]

Absent == [state |-> "absent", owner |-> Nobody, heartbeatAt |-> 0, pending |-> FALSE]

Empty(p) == [state |-> "empty", owner |-> p, heartbeatAt |-> 0, pending |-> FALSE]

Written(p, now) == [state |-> "written", owner |-> p, heartbeatAt |-> now, pending |-> FALSE]

\* readLock: an absent and an empty file are both "no lock" to a reader.
Readable == file.state = "written"

IsStaleAtTtl(info, now) == now >= info.heartbeatAt + Ttl

IsStale(info, now) == now > info.heartbeatAt + Ttl

\* The processes that acquireLock has answered ok (or will, without looking again).
Owning == {"creating", "held", "beating", "yielding", "releasing"}

Owns(p) == pc[p] \in Owning

LockInit ==
    /\ file = Absent
    /\ clock = 0
    /\ pc = [a \in Agents |-> "idle"]
    /\ copy = [a \in Agents |-> Absent]
    /\ stamp = [a \in Agents |-> 0]

Goto(a, label) == pc' = [pc EXCEPT ![a] = label]
-----------------------------------------------------------------------------
(* acquireLock: attemptOnce *)

\* Not exclusive: openSync(lockPath, "w").
TryCreateOverwriting(p, next) ==
    /\ file' = Empty(p) /\ Goto(p, "creating")
    /\ stamp' = [stamp EXCEPT ![p] = clock]
    /\ UNCHANGED <<clock, copy>>

\* tryAcquireFresh's openSync(lockPath, "wx"); `next` is where EEXIST leads.
TryCreate(p, next) ==
    /\ IF file.state = "absent"
         THEN file' = Empty(p) /\ Goto(p, "creating")
         ELSE file' = file /\ Goto(p, next)
    /\ stamp' = [stamp EXCEPT ![p] = clock]
    /\ UNCHANGED <<clock, copy>>

Attempt(p) == pc[p] = "idle" /\ TryCreate(p, "looking")

\* The second creation, after the holder vanished or its stale file was removed.
Retry(p) == pc[p] = "retrying" /\ TryCreate(p, "idle")

\* The write goes through the descriptor: a file created since is not touched.
WriteFresh(p) ==
    /\ pc[p] = "creating"
    /\ file' = IF file = Empty(p) THEN Written(p, stamp[p]) ELSE file
    /\ Goto(p, "held")
    /\ UNCHANGED <<clock, copy, stamp>>

\* Breaks a stale lock although nobody passed the flag.
LookWithoutFlag(p) ==
    /\ pc[p] = "looking"
    /\ Goto(p, IF ~Readable THEN "retrying" ELSE IF IsStale(file, clock) THEN "verifying" ELSE "idle")
    /\ copy' = [copy EXCEPT ![p] = file]
    /\ UNCHANGED <<file, clock, stamp>>

\* Read the holder: vanished, alive, stale without the flag, or stale with it.
Look(p) ==
    /\ pc[p] = "looking"
    /\ \/ ~Readable /\ Goto(p, "retrying") /\ UNCHANGED copy
       \/ Readable /\ ~(IsStale(file, clock) /\ p \in Breakers) /\ Goto(p, "idle") /\ UNCHANGED copy
       \/ /\ Readable /\ IsStale(file, clock) /\ p \in Breakers
          /\ Goto(p, "verifying")
          /\ copy' = [copy EXCEPT ![p] = file]
    /\ UNCHANGED <<file, clock, stamp>>

\* The read-back after the delay: break only a heartbeat that has not moved.
ReadBack(p) ==
    /\ pc[p] = "verifying"
    /\ \/ ~Readable /\ Goto(p, "retrying")
       \/ /\ Readable
          /\ IF file.heartbeatAt # copy[p].heartbeatAt \/ ~IsStale(file, clock)
               THEN Goto(p, "idle") ELSE Goto(p, "breaking")
    /\ UNCHANGED <<file, clock, copy, stamp>>

\* unlinkSync(lockPath) throws ENOENT when the file is gone: the call ends there.
Break(p) ==
    /\ pc[p] = "breaking"
    /\ IF file.state = "absent" THEN Goto(p, "idle") ELSE Goto(p, "retrying")
    /\ file' = Absent
    /\ UNCHANGED <<clock, copy, stamp>>
-----------------------------------------------------------------------------
(* heartbeat, checkYield and releaseLock: read and check the owner, then act *)

ReadOwn(p, next) ==
    /\ pc[p] = "held"
    /\ IF Readable /\ file.owner = p
         THEN Goto(p, next) /\ copy' = [copy EXCEPT ![p] = file]
         ELSE Goto(p, "idle") /\ UNCHANGED copy
    /\ stamp' = [stamp EXCEPT ![p] = clock]
    /\ UNCHANGED <<file, clock>>

HeartbeatRead(p) == ReadOwn(p, "beating")

\* writeLockAtomic renames over whatever is there now.
HeartbeatWrite(p) ==
    /\ pc[p] = "beating"
    /\ file' = [copy[p] EXCEPT !.heartbeatAt = stamp[p]]
    /\ Goto(p, "held")
    /\ UNCHANGED <<clock, copy, stamp>>

\* The dispatch boundary: a pending interactive request makes the holder release.
CheckYield(p) ==
    /\ pc[p] = "held"
    /\ Goto(p, IF ~(Readable /\ file.owner = p) THEN "idle"
               ELSE IF file.pending THEN "yielding" ELSE "held")
    /\ UNCHANGED <<file, clock, copy, stamp>>

ReleaseRead(p) ==
    /\ pc[p] \in {"held", "yielding"}
    /\ Goto(p, IF Readable /\ file.owner = p THEN "releasing" ELSE "idle")
    /\ UNCHANGED <<file, clock, copy, stamp>>

ReleaseUnlink(p) ==
    /\ pc[p] = "releasing"
    /\ file' = Absent
    /\ Goto(p, "idle")
    /\ UNCHANGED <<clock, copy, stamp>>
-----------------------------------------------------------------------------
(* requestInteractive: read, then rename a copy with the flag over the file *)

RequestRead(r) ==
    /\ pc[r] = "idle"
    /\ Readable
    /\ copy' = [copy EXCEPT ![r] = file]
    /\ Goto(r, "requesting")
    /\ UNCHANGED <<file, clock, stamp>>

RequestWrite(r) ==
    /\ pc[r] = "requesting"
    /\ file' = [copy[r] EXCEPT !.pending = TRUE]
    /\ Goto(r, "idle")
    /\ UNCHANGED <<clock, copy, stamp>>
-----------------------------------------------------------------------------
(* The environment *)

Crash(p) ==
    /\ pc[p] \notin {"idle", "dead"}
    /\ Goto(p, "dead")
    /\ UNCHANGED <<file, clock, copy, stamp>>

\* With Timely, no live owner is overtaken by its own heartbeat.
Tick ==
    /\ clock < MaxTime
    /\ Timely => \A p \in Procs : Owns(p) =>
          /\ file.owner = p => file.state = "empty" \/ clock < file.heartbeatAt + Ttl
          /\ pc[p] \in {"creating", "beating"} => clock < stamp[p] + Ttl
    /\ clock' = clock + 1
    /\ UNCHANGED <<file, pc, copy, stamp>>

Acquiring(p) == Attempt(p) \/ Retry(p) \/ WriteFresh(p) \/ Look(p) \/ ReadBack(p) \/ Break(p)

Holding(p) == HeartbeatRead(p) \/ HeartbeatWrite(p) \/ CheckYield(p)
              \/ ReleaseRead(p) \/ ReleaseUnlink(p)

LockNext == \/ \E p \in Procs : Acquiring(p) \/ Holding(p) \/ Crash(p)
            \/ \E r \in Requesters : RequestRead(r) \/ RequestWrite(r)
            \/ Tick

LockSpec == LockInit /\ [][LockNext]_lockVars
-----------------------------------------------------------------------------
(* Properties *)

TypeOK == /\ file \in LockFile
          /\ clock \in Nat
          /\ pc \in [Agents -> {"idle", "looking", "retrying", "verifying", "breaking", "creating",
                                "held", "beating", "yielding", "releasing", "requesting", "dead"}]
          /\ copy \in [Agents -> LockFile]
          /\ stamp \in [Agents -> Nat]

(* Two processes never both hold the lock (tryAcquireFresh is "the actual    *)
(* mutual-exclusion gate"), whatever heartbeats, requests, releases and      *)
(* crashes come between the file-system calls.                               *)
MutualExclusion == \A p, q \in Procs : Owns(p) /\ Owns(q) => p = q

(* lock.ts:8 - a lock whose owner is alive and whose heartbeat is recent is  *)
(* never removed by a process that breaks stale locks.                       *)
LiveLockNeverBroken ==
    [][\A p \in Procs : Break(p) =>
         file.state = "absent" \/ ~Owns(file.owner) \/ (Readable /\ clock > file.heartbeatAt + Ttl)]_lockVars

(* The lock is Mutex!Spec when nobody passes breakStale: an owner that died  *)
(* leaves it taken for good.                                                 *)
lock == IF \E p \in Procs : Owns(p) THEN CHOOSE p \in Procs : Owns(p)
        ELSE IF file.state = "absent" THEN Free ELSE Wedged

M == INSTANCE Mutex

ImplementsMutex == M!Spec
=============================================================================
