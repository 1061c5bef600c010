----------------------------- MODULE TokenCache -----------------------------
(***************************************************************************)
(* FileTokenCache: the credential file that all processes of a user share,  *)
(* under FileLock, a lock that is a directory and that is taken to be       *)
(* abandoned when it is older than STALE_LOCK_AGE_SECONDS.                  *)
(*                                                                         *)
(* Every system call on the directory or on the file is one step.  A        *)
(* process may die between two steps; `open` truncates the file before it   *)
(* is written.                                                              *)
(***************************************************************************)
EXTENDS Integers, FiniteSets

CONSTANTS
    Processes, Keys, Tokens,
    Menu,           \* the operations: records [name, key, token]
    MaxRetries,     \* MAX_RETRIES
    MaxOps,         \* bound on the operations begun
    MaxCrashes,     \* bound on the processes that die
    MaxFaults,      \* bound on the calls on the file and the directory that fail
    SlowHolders     \* whether a live process may hold the lock for longer than the limit

NoToken == "none"
Absent == [owner |-> "nobody", stale |-> FALSE]

ASSUME ProcessAssumption == "nobody" \notin Processes
ASSUME MenuAssumption ==
    Menu \subseteq [name : {"store", "retrieve", "remove"},
                    key : Keys, token : Tokens \cup {NoToken}]
ASSUME BoundAssumption == MaxRetries \in Nat \ {0} /\ MaxOps \in Nat

VARIABLES
    pc,             \* per process, see States
    op,             \* per process: [name, key, token]
    attempt,        \* per process: attempts of mkdir that failed
    json_data,      \* per process: the tokens it has read
    lock,           \* the lock directory: Absent or [owner (history), stale]
    tokens,         \* the tokens in the file
    torn,           \* whether the file was truncated and not written yet
    ops, crashes,   \* history: counters for the bounds
    faults,         \* history: reads and writes of the file that failed
    denials,        \* history: calls on the lock directory that failed
    everStale,      \* history: some lock directory has been older than the limit
    wanted          \* history: what the file holds if every operation took place alone

file    == <<tokens, torn>>
bounds  == <<ops, crashes, faults, denials>>
vars    == <<pc, op, attempt, json_data, lock, file, bounds, everStale, wanted>>

NoOperation == [name |-> "none", key |-> "none", token |-> NoToken]
Empty == [k \in Keys |-> NoToken]
Inside == {"read", "truncate", "write", "exit"}
States == {"idle", "stat", "break", "mkdir", "dead"} \cup Inside
Alive(p) == pc[p] # "dead"

Init ==
    /\ pc = [p \in Processes |-> "idle"]
    /\ op = [p \in Processes |-> NoOperation]
    /\ attempt = [p \in Processes |-> 0]
    /\ json_data = [p \in Processes |-> Empty]
    /\ lock = Absent
    /\ tokens = Empty /\ torn = FALSE
    /\ ops = 0 /\ crashes = 0 /\ faults = 0 /\ denials = 0
    /\ everStale = FALSE /\ wanted = Empty

Goto(p, s) == pc' = [pc EXCEPT ![p] = s]

\* The call returns; its local variables are gone.
Return(p) ==
    /\ Goto(p, "idle")
    /\ op' = [op EXCEPT ![p] = NoOperation]
    /\ attempt' = [attempt EXCEPT ![p] = 0]
    /\ json_data' = [json_data EXCEPT ![p] = Empty]

MayFail == faults + denials < MaxFaults

-----------------------------------------------------------------------------
(* FileLock.__enter__ and __exit__.                                         *)

\* stat, rmdir or mkdir fails, and not because the directory is there or is not:
\* the call raises.
Denied(p) ==
    /\ MayFail /\ denials' = denials + 1
    /\ Return(p)
    /\ UNCHANGED lock

\* A process calls store, retrieve or remove; the directory is valid.
Begin(p, o) ==
    /\ pc[p] = "idle" /\ ops < MaxOps
    /\ Goto(p, "stat")
    /\ op' = [op EXCEPT ![p] = o]
    /\ ops' = ops + 1
    /\ UNCHANGED <<attempt, json_data, lock, file, crashes, faults, denials, everStale,
                   wanted>>

StatIgnoresAge(p) ==
    /\ pc[p] = "stat"
    /\ Goto(p, "mkdir")
    /\ UNCHANGED <<op, attempt, json_data, lock, file, bounds, everStale, wanted>>

\* The age of the directory is compared once, before the first attempt.
Stat(p) ==
    /\ pc[p] = "stat"
    /\ \/ /\ Goto(p, IF lock.stale THEN "break" ELSE "mkdir")
          /\ UNCHANGED <<op, attempt, json_data, lock, denials>>
       \/ Denied(p)
    /\ UNCHANGED <<file, ops, crashes, faults, everStale, wanted>>

\* rmdir of whatever directory has that name by now.
Break(p) ==
    /\ pc[p] = "break"
    /\ \/ /\ lock' = Absent
          /\ Goto(p, "mkdir")
          /\ UNCHANGED <<op, attempt, json_data, denials>>
       \/ Denied(p)
    /\ UNCHANGED <<file, ops, crashes, faults, everStale, wanted>>

MkdirExistOk(p) ==
    /\ pc[p] = "mkdir"
    /\ lock' = IF lock = Absent THEN [owner |-> p, stale |-> FALSE] ELSE lock
    /\ Goto(p, "read")
    /\ UNCHANGED <<op, attempt, json_data, file, bounds, everStale, wanted>>

\* mkdir succeeds when there is no directory; else the process sleeps and
\* tries again, and raises FileLockError after MAX_RETRIES attempts.
Mkdir(p) ==
    /\ pc[p] = "mkdir"
    /\ \/ /\ lock = Absent
          /\ lock' = [owner |-> p, stale |-> FALSE]
          /\ Goto(p, "read")
          /\ UNCHANGED <<op, attempt, json_data, denials>>
       \/ /\ lock # Absent /\ attempt[p] + 1 < MaxRetries
          /\ attempt' = [attempt EXCEPT ![p] = attempt[p] + 1]
          /\ UNCHANGED <<pc, op, json_data, lock, denials>>
       \/ /\ lock # Absent /\ attempt[p] + 1 >= MaxRetries
          /\ Return(p)
          /\ UNCHANGED <<lock, denials>>
       \/ Denied(p)
    /\ UNCHANGED <<file, ops, crashes, faults, everStale, wanted>>

\* __exit__, also after an exception: rmdir, whoever made the directory.
Exit(p) ==
    /\ pc[p] = "exit"
    /\ \/ lock' = Absent /\ Return(p) /\ UNCHANGED denials
       \/ Denied(p)
    /\ UNCHANGED <<file, ops, crashes, faults, everStale, wanted>>

-----------------------------------------------------------------------------
(* The file.                                                                *)

\* What store and remove do to the tokens.
Applied(o, ts) ==
    CASE o.name = "store"  -> [ts EXCEPT ![o.key] = o.token]
      [] o.name = "remove" -> [ts EXCEPT ![o.key] = NoToken]
      [] OTHER             -> ts

ReadKeepsOld(p) ==
    /\ pc[p] = "read"
    /\ Goto(p, IF op[p].name = "retrieve" THEN "exit" ELSE "truncate")
    /\ UNCHANGED <<op, attempt, json_data, lock, file, bounds, everStale, wanted>>

\* _read_cache_file: a file that cannot be decoded, or cannot be read, counts
\* as one without tokens.  A file with the wrong permissions raises.
Read(p) ==
    /\ pc[p] = "read"
    /\ \/ /\ json_data' = [json_data EXCEPT ![p] = IF torn THEN Empty ELSE tokens]
          /\ Goto(p, IF op[p].name = "retrieve" THEN "exit" ELSE "truncate")
          /\ UNCHANGED faults
       \/ /\ MayFail /\ faults' = faults + 1
          /\ \/ json_data' = [json_data EXCEPT ![p] = Empty]
                /\ Goto(p, IF op[p].name = "retrieve" THEN "exit" ELSE "truncate")
             \/ Goto(p, "exit") /\ UNCHANGED json_data
    /\ UNCHANGED <<op, attempt, lock, file, ops, crashes, denials, everStale, wanted>>

\* os.open with O_TRUNC in _write_cache_file, or its failure.
Truncate(p) ==
    /\ pc[p] = "truncate"
    /\ \/ torn' = TRUE /\ Goto(p, "write") /\ UNCHANGED faults
       \/ MayFail /\ faults' = faults + 1 /\ Goto(p, "exit") /\ UNCHANGED torn
    /\ UNCHANGED <<op, attempt, json_data, lock, tokens, ops, crashes, denials, everStale,
                   wanted>>

\* os.write, or its failure, which leaves the file truncated.
Write(p) ==
    /\ pc[p] = "write"
    /\ Goto(p, "exit")
    /\ \/ /\ tokens' = Applied(op[p], json_data[p]) /\ torn' = FALSE
          /\ wanted' = Applied(op[p], wanted)
          /\ UNCHANGED faults
       \/ /\ MayFail /\ faults' = faults + 1
          /\ UNCHANGED <<file, wanted>>
    /\ UNCHANGED <<op, attempt, json_data, lock, ops, crashes, denials, everStale>>

-----------------------------------------------------------------------------
(* The environment.                                                         *)

\* Time passes: the lock of a dead process, of a slow one, or of one that could not
\* take its directory away, gets too old.
Age ==
    /\ lock # Absent /\ ~lock.stale
    /\ SlowHolders \/ ~Alive(lock.owner) \/ pc[lock.owner] \notin Inside
    /\ lock' = [lock EXCEPT !.stale = TRUE]
    /\ everStale' = TRUE
    /\ UNCHANGED <<pc, op, attempt, json_data, file, bounds, wanted>>

Crash(p) ==
    /\ Alive(p) /\ pc[p] # "idle" /\ crashes < MaxCrashes
    /\ Goto(p, "dead")
    /\ op' = [op EXCEPT ![p] = NoOperation] /\ attempt' = [attempt EXCEPT ![p] = 0]
    /\ json_data' = [json_data EXCEPT ![p] = Empty]
    /\ crashes' = crashes + 1
    /\ UNCHANGED <<lock, file, ops, faults, denials, everStale, wanted>>

Step(p) ==
    Stat(p) \/ Break(p) \/ Mkdir(p) \/ Read(p) \/ Truncate(p) \/ Write(p) \/ Exit(p)

Next ==
    \/ \E p \in Processes :
         \/ \E o \in Menu : Begin(p, o)
         \/ Step(p) \/ Crash(p)
    \/ Age

\* A process that is alive goes on: no step waits for another process, and the
\* sleeps between attempts end.
Spec == Init /\ [][Next]_vars /\ \A p \in Processes : WF_vars(Step(p))

-----------------------------------------------------------------------------
TypeOK ==
    /\ pc \in [Processes -> States]
    /\ attempt \in [Processes -> 0..(MaxRetries - 1)]
    /\ lock.owner \in Processes \cup {"nobody"} /\ lock.stale \in BOOLEAN
    /\ tokens \in [Keys -> Tokens \cup {NoToken}]
    /\ torn \in BOOLEAN /\ ops \in 0..MaxOps

Holders == {p \in Processes : pc[p] \in Inside}

\* As long as no lock gets older than the limit, at most one process is
\* between __enter__ and __exit__, and the directory is its own.
ExclusiveWhileFresh ==
    ~everStale => /\ Cardinality(Holders) <= 1
                  /\ \A p \in Holders : lock.owner = p

\* "Uses file locks to prevent concurrent access corruption": no two processes
\* are inside at once, however an earlier one died.
NoConcurrentAccess == Cardinality(Holders) <= 1

\* A live process leaves no lock behind, whatever failed while it held it, unless the
\* rmdir of __exit__ itself failed.
LockReleased ==
    denials = 0 /\ lock # Absent /\ Alive(lock.owner) => pc[lock.owner] \in Inside

\* As long as no lock gets too old, no process dies and no access fails, the
\* file holds the effect of every store and remove in the order in which they
\* were written: none is lost between another's read and write.
NoTokenLost ==
    ~everStale /\ crashes = 0 /\ faults = 0 =>
        /\ tokens = wanted
        /\ torn => \E p \in Processes : pc[p] = "write"

\* store, retrieve and remove end, with or without the lock.
EveryOperationEnds ==
    \A p \in Processes : (pc[p] # "idle") ~> (pc[p] \in {"idle", "dead"})

\* A process that meets the lock of a dead process once it is too old takes it
\* away, unless it may not: a crash does not lock everybody out for ever.
DeadLockBroken ==
    \A p \in Processes :
        (pc[p] = "stat" /\ lock.stale) ~> (~lock.stale \/ ~Alive(p) \/ denials > 0)

\* The directory is a lock: its holder is alone as long as it is not too slow, and gives it back.
LockSound == TypeOK /\ ExclusiveWhileFresh /\ LockReleased

\* The lock blocks nobody for ever: operations end, and a dead process's lock is taken away.
LockNeverBlocks == EveryOperationEnds /\ DeadLockBroken
=============================================================================
