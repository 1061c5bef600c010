-------------------------- MODULE TokenCacheProofs --------------------------
(* Proofs about TokenCache, for every set of processes, keys and tokens,    *)
(* every number of retries, and however many processes die, however many    *)
(* accesses fail and however slow the holders of the lock are.              *)
EXTENDS TokenCache, FiniteSetTheorems, TLAPS

File == [Keys -> Tokens \cup {NoToken}]

Typed ==
    /\ TypeOK
    /\ op \in [Processes -> Menu \cup {NoOperation}]
    /\ json_data \in [Processes -> File]
    /\ lock = Absent \/ lock \in [owner : Processes, stale : BOOLEAN]
    /\ everStale \in BOOLEAN /\ crashes \in Nat /\ faults \in Nat /\ denials \in Nat
    /\ \A p \in Processes : pc[p] \in Inside \cup {"stat", "break", "mkdir"} => op[p] \in Menu

\* While no directory has been too old, nobody is about to break one, and
\* whoever is inside made the directory that is there.
Fresh ==
    ~everStale =>
        /\ ~lock.stale
        /\ \A p \in Processes : pc[p] # "break"
        /\ \A p \in Processes : pc[p] \in Inside => lock.owner = p

LockInv == Typed /\ Fresh /\ LockReleased

\* What a process has read is what the file still holds when it writes.
ReadIsCurrent ==
    ~everStale /\ crashes = 0 /\ faults = 0 =>
        /\ tokens = wanted
        /\ torn => \E p \in Processes : pc[p] = "write"
        /\ \A p \in Processes : pc[p] \in {"truncate", "write"} => json_data[p] = tokens

(* What store and remove write is a file again.                             *)
LEMMA AppliedType ==
    ASSUME NEW o \in Menu, NEW ts \in File
    PROVE  Applied(o, ts) \in File
BY MenuAssumption DEF Applied, File

(* The initial state has the type and holds no lock.                        *)
LEMMA LockInit == Init => LockInv
<1> SUFFICES ASSUME Init PROVE LockInv
  OBVIOUS
<1> USE DEF Init
<1>1. torn \in BOOLEAN /\ everStale \in BOOLEAN /\ lock = Absent /\ lock.stale \in BOOLEAN
      /\ ~lock.stale
  BY Zenon DEF Absent
<1>2. pc \in [Processes -> States] /\ \A p \in Processes : pc[p] = "idle"
  BY DEF States
<1>3. lock.owner = "nobody"
  BY DEF Absent
<1>4. attempt \in [Processes -> 0..(MaxRetries - 1)] /\ ops \in 0..MaxOps
  BY BoundAssumption
<1>5. tokens \in File /\ json_data \in [Processes -> File]
  BY DEF Empty, File
<1>6. Typed
  BY <1>1, <1>2, <1>3, <1>4, <1>5 DEF Typed, TypeOK, File, Inside
<1>7. Fresh /\ LockReleased
  BY <1>1, <1>2 DEF Fresh, LockReleased, Inside
<1> QED
  BY <1>6, <1>7 DEF LockInv

(* Every step of a process and of the environment keeps the types.          *)
LEMMA TypedStep == Typed /\ [Next]_vars => Typed'
<1> SUFFICES ASSUME Typed, [Next]_vars PROVE Typed'
  OBVIOUS
<1> USE DEF Typed, TypeOK
<1>e. Empty \in File
  BY DEF Empty, File
<1>a. Absent.owner = "nobody" /\ Absent.stale \in BOOLEAN
  BY Zenon DEF Absent
<1>d. ASSUME NEW p \in Processes, Denied(p),
             UNCHANGED <<file, ops, crashes, faults, everStale, wanted>>
      PROVE  Typed'
  BY <1>d, <1>e, BoundAssumption DEF Denied, Return, Goto, file, States, Inside
<1>1. ASSUME NEW p \in Processes, NEW o \in Menu, Begin(p, o) PROVE Typed'
  BY <1>1, BoundAssumption DEF Begin, Goto, file, States, Inside
<1>2. ASSUME NEW p \in Processes, Stat(p) PROVE Typed'
  <2>1. CASE Denied(p)
    BY <1>2, <1>d, <2>1 DEF Stat
  <2>2. CASE ~Denied(p)
    BY <1>2, <2>2 DEF Stat, Goto, file, States, Inside
  <2> QED
    BY <2>1, <2>2
<1>3. ASSUME NEW p \in Processes, Break(p) PROVE Typed'
  <2>1. CASE Denied(p)
    BY <1>3, <1>d, <2>1 DEF Break
  <2>2. CASE ~Denied(p)
    <3>1. lock' = Absent /\ pc' = [pc EXCEPT ![p] = "mkdir"] /\ pc[p] = "break"
          /\ UNCHANGED <<op, attempt, json_data, file, bounds, everStale>>
      BY <1>3, <2>2 DEF Break, Goto, bounds
    <3> QED
      BY <3>1, <1>a DEF file, bounds, States, Inside
  <2> QED
    BY <2>1, <2>2
<1>4. ASSUME NEW p \in Processes, Mkdir(p) PROVE Typed'
  <2> USE DEF file
  <2>1. CASE pc' = [pc EXCEPT ![p] = "read"] /\ lock' = [owner |-> p, stale |-> FALSE]
             /\ UNCHANGED <<op, attempt, json_data, denials>>
    <3>1. lock'.owner \in Processes /\ lock'.stale \in BOOLEAN
          /\ lock' \in [owner : Processes, stale : BOOLEAN]
      BY <2>1, Zenon
    <3>2. pc' \in [Processes -> States]
      BY <2>1 DEF States, Inside
    <3> QED
      BY <1>4, <2>1, <3>1, <3>2 DEF Mkdir, Inside
  <2>2. CASE attempt[p] + 1 < MaxRetries
             /\ attempt' = [attempt EXCEPT ![p] = attempt[p] + 1]
             /\ UNCHANGED <<pc, op, json_data, lock, denials>>
    BY <1>4, <2>2, BoundAssumption DEF Mkdir, Inside
  <2>3. CASE Return(p) /\ UNCHANGED <<lock, denials>>
    BY <1>4, <2>3, <1>e, BoundAssumption DEF Mkdir, Return, Goto, States, Inside
  <2>4. CASE Denied(p)
    BY <1>4, <1>d, <2>4 DEF Mkdir
  <2> QED
    BY <1>4, <2>1, <2>2, <2>3, <2>4 DEF Mkdir, Goto
<1>5. ASSUME NEW p \in Processes, Read(p) PROVE Typed'
  <2>1. json_data' \in [Processes -> File]
    BY <1>5, <1>e DEF Read, File
  <2> QED
    BY <1>5, <2>1 DEF Read, Goto, file, States, Inside
<1>6. ASSUME NEW p \in Processes, Truncate(p) PROVE Typed'
  <2>1. torn' \in BOOLEAN
    BY <1>6, Zenon DEF Truncate
  <2> QED
    BY <1>6, <2>1 DEF Truncate, Goto, States, Inside
<1>7. ASSUME NEW p \in Processes, Write(p) PROVE Typed'
  <2>1. op[p] \in Menu /\ json_data[p] \in File
    BY <1>7 DEF Write, Inside
  <2>2. Applied(op[p], json_data[p]) \in File
    BY <2>1, AppliedType
  <2>3. tokens' \in File /\ faults' \in Nat
    BY <1>7, <2>2 DEF Write, file, File
  <2>5. torn' \in BOOLEAN
    BY <1>7, Zenon DEF Write, file
  <2>4. pc' \in [Processes -> States]
    BY <1>7 DEF Write, Goto, States, Inside
  <2> QED
    BY <1>7, <2>3, <2>4, <2>5 DEF Write, Goto, File, Inside
<1>8. ASSUME NEW p \in Processes, Exit(p) PROVE Typed'
  <2>1. CASE Denied(p)
    BY <1>8, <1>d, <2>1 DEF Exit
  <2>2. CASE ~Denied(p)
    <3>1. lock' = Absent /\ Return(p) /\ UNCHANGED <<file, bounds, everStale>>
      BY <1>8, <2>2 DEF Exit, bounds
    <3> QED
      BY <3>1, <1>a, <1>e, BoundAssumption DEF Return, Goto, file, bounds, States, Inside
  <2> QED
    BY <2>1, <2>2
<1>9. ASSUME NEW p \in Processes, Crash(p) PROVE Typed'
  BY <1>9, <1>e, BoundAssumption DEF Crash, Goto, file, States, Inside
<1>10. CASE Age
  BY <1>10 DEF Age, file, bounds, Inside
<1>11. CASE UNCHANGED vars
  BY <1>11 DEF vars, file, bounds, Inside
<1> QED
  BY <1>1, <1>2, <1>3, <1>4, <1>5, <1>6, <1>7, <1>8, <1>9, <1>10, <1>11
     DEF Next, Step

(* Every step keeps the lock with its live holder, and, while no directory  *)
(* has been too old, keeps everybody else outside.                          *)
LEMMA LockStep == LockInv /\ [Next]_vars => LockInv'
<1> SUFFICES ASSUME LockInv, [Next]_vars PROVE Fresh' /\ LockReleased'
  BY TypedStep DEF LockInv
<1> USE DEF LockInv, Typed, TypeOK, Fresh, LockReleased, Alive, Goto
<1>1. ASSUME NEW p \in Processes, NEW o \in Menu, Begin(p, o) PROVE Fresh' /\ LockReleased'
  BY <1>1 DEF Begin, States, Inside
<1>2. ASSUME NEW p \in Processes, Stat(p) PROVE Fresh' /\ LockReleased'
  BY <1>2 DEF Stat, Denied, Return, States, Inside
<1>3. ASSUME NEW p \in Processes, Break(p) PROVE Fresh' /\ LockReleased'
  BY <1>3 DEF Break, Denied, Return, Inside
<1>4. ASSUME NEW p \in Processes, Mkdir(p) PROVE Fresh' /\ LockReleased'
  BY <1>4, ProcessAssumption DEF Mkdir, Denied, Return, States, Inside, Absent
<1>5. ASSUME NEW p \in Processes, Read(p) PROVE Fresh' /\ LockReleased'
  BY <1>5 DEF Read, States, Inside
<1>6. ASSUME NEW p \in Processes, Truncate(p) PROVE Fresh' /\ LockReleased'
  BY <1>6 DEF Truncate, States, Inside
<1>7. ASSUME NEW p \in Processes, Write(p) PROVE Fresh' /\ LockReleased'
  BY <1>7 DEF Write, States, Inside
<1>8. ASSUME NEW p \in Processes, Exit(p) PROVE Fresh' /\ LockReleased'
  BY <1>8 DEF Exit, Denied, Return, States, Inside, Absent
<1>9. ASSUME NEW p \in Processes, Crash(p) PROVE Fresh' /\ LockReleased'
  BY <1>9 DEF Crash, States, Inside
<1>10. CASE Age
  BY <1>10 DEF Age, bounds, Absent
<1>11. CASE UNCHANGED vars
  BY <1>11 DEF vars, bounds
<1> QED
  BY <1>1, <1>2, <1>3, <1>4, <1>5, <1>6, <1>7, <1>8, <1>9, <1>10, <1>11
     DEF Next, Step

(* At most one process is inside when all that are made the one directory.  *)
LEMMA AtMostOneHolder ==
    ASSUME LockInv, ~everStale
    PROVE  Cardinality(Holders) <= 1
<1>1. Holders \subseteq {lock.owner}
  BY DEF Holders, LockInv, Fresh
<1>2. IsFiniteSet({lock.owner}) /\ Cardinality({lock.owner}) = 1
  BY FS_Singleton
<1> QED
  BY <1>1, <1>2, FS_Subset, FS_CardinalityType

(* FileLock: as long as no directory gets older than the limit, one process *)
(* at most is between __enter__ and __exit__, in the directory it made; and *)
(* a live process never leaves its directory behind while rmdir works.      *)
THEOREM LockIsSound == Spec => []LockSound
<1>1. LockInv => LockSound
  BY AtMostOneHolder DEF LockInv, Typed, LockSound, ExclusiveWhileFresh, Fresh, Holders
<1> QED
  BY <1>1, LockInit, LockStep, PTL DEF Spec

(* store and remove: what was read under the lock is still in the file when *)
(* it is written, so no token that another process stored is lost.          *)
LEMMA ReadStep == LockInv /\ ReadIsCurrent /\ [Next]_vars => ReadIsCurrent'
<1> SUFFICES ASSUME LockInv, ReadIsCurrent, [Next]_vars,
                    ~everStale', crashes' = 0, faults' = 0
             PROVE  /\ tokens' = wanted'
                    /\ torn' => \E p \in Processes : pc'[p] = "write"
                    /\ \A p \in Processes :
                         pc'[p] \in {"truncate", "write"} => json_data'[p] = tokens'
  BY DEF ReadIsCurrent
<1>0. ~everStale /\ crashes = 0 /\ faults = 0
  BY DEF Next, Step, vars, file, bounds, Begin, Stat, Break, Mkdir, Read, Truncate, Write,
         Exit, Age, Crash, LockInv, Typed
<1>a. /\ tokens = wanted
      /\ torn => \E p \in Processes : pc[p] = "write"
      /\ \A p \in Processes : pc[p] \in {"truncate", "write"} => json_data[p] = tokens
  BY <1>0 DEF ReadIsCurrent
<1>b. \A p, q \in Processes : pc[p] \in Inside /\ pc[q] \in Inside => p = q
  BY <1>0 DEF LockInv, Fresh
<1>c. pc \in [Processes -> States] /\ json_data \in [Processes -> File] /\ faults \in Nat
      /\ crashes \in Nat
  BY DEF LockInv, Typed, TypeOK
<1> USE <1>0, <1>a, <1>b, <1>c DEF Goto, Inside
<1> DEFINE Goal == /\ tokens' = wanted'
                   /\ torn' => \E p \in Processes : pc'[p] = "write"
                   /\ \A p \in Processes :
                         pc'[p] \in {"truncate", "write"} => json_data'[p] = tokens'
<1>1. ASSUME NEW p \in Processes, NEW o \in Menu, Begin(p, o) PROVE Goal
  BY <1>1 DEF Begin, file
<1>2. ASSUME NEW p \in Processes, Stat(p) PROVE Goal
  BY <1>2 DEF Stat, Denied, Return, file
<1>3. ASSUME NEW p \in Processes, Break(p) PROVE Goal
  BY <1>3 DEF Break, Denied, Return, file
<1>4. ASSUME NEW p \in Processes, Mkdir(p) PROVE Goal
  BY <1>4 DEF Mkdir, Denied, Return, file
<1>5. ASSUME NEW p \in Processes, Read(p) PROVE Goal
  BY <1>5 DEF Read, file
<1>6. ASSUME NEW p \in Processes, Truncate(p) PROVE Goal
  BY <1>6 DEF Truncate
<1>7. ASSUME NEW p \in Processes, Write(p) PROVE Goal
  BY <1>7 DEF Write, file
<1>8. ASSUME NEW p \in Processes, Exit(p) PROVE Goal
  BY <1>8 DEF Exit, Denied, Return, file
<1>9. ASSUME NEW p \in Processes, Crash(p) PROVE Goal
  BY <1>9 DEF Crash, file
<1>10. CASE Age
  BY <1>10 DEF Age, file
<1>11. CASE UNCHANGED vars
  BY <1>11 DEF vars, file
<1> QED
  BY <1>1, <1>2, <1>3, <1>4, <1>5, <1>6, <1>7, <1>8, <1>9, <1>10, <1>11
     DEF Next, Step

(* FileTokenCache: as long as no directory gets too old, no process dies    *)
(* and no access fails, the file holds the effect of every store and remove *)
(* in the order in which they were written.                                 *)
THEOREM NoTokenIsLost == Spec => []NoTokenLost
<1>1. Init => ReadIsCurrent
  BY DEF Init, ReadIsCurrent
<1>2. ReadIsCurrent => NoTokenLost
  BY DEF ReadIsCurrent, NoTokenLost
<1> QED
  BY <1>1, <1>2, LockInit, LockStep, ReadStep, PTL DEF Spec
=============================================================================
