-------------------------- MODULE QueryContextCache --------------------------
(***************************************************************************)
(* _query_context_cache.py: the per-connection cache of query context      *)
(* elements (QCEs).  A response's "queryContext" is merged element by      *)
(* element by deserialize_json_dict, which holds _lock for the whole call; *)
(* Connection.close() calls clear_cache without that lock, and clear_cache *)
(* empties the four containers one after the other.                        *)
(*                                                                         *)
(* The four containers are the fields of one record.  A Python dict is a   *)
(* function on the set of its keys.  The SortedSet is the sequence of its  *)
(* elements in order (equal priorities stay in insertion order).  The      *)
(* opaque context string is left out: nothing in the cache looks at it.    *)
(***************************************************************************)
EXTENDS Integers, Sequences, FiniteSets, SequencesExt

CONSTANTS
    Ids,          \* identifiers of query context elements
    Priorities,   \* 0 is the highest priority
    Timestamps,   \* read timestamps
    Capacity,     \* Connection.query_context_cache_size
    Malformed,    \* an entry whose id, timestamp or priority is no integer
    Responses,    \* the "entries" lists the server may send
    MaxElements   \* bound: no merge starts on a larger cache

QCE == [id : Ids, read_timestamp : Timestamps, priority : Priorities]

(* The server names an id and a priority at most once in one response.     *)
WellFormed(m) ==
    \A i, j \in DOMAIN m :
        i # j /\ m[i] # Malformed /\ m[j] # Malformed
            => m[i].id # m[j].id /\ m[i].priority # m[j].priority

ASSUME ParametersAssumption ==
    /\ Priorities \subseteq Nat
    /\ Timestamps \subseteq Nat
    /\ Capacity \in Nat \ {0}
    /\ MaxElements \in Nat /\ MaxElements >= Capacity
    /\ Malformed \notin QCE
    /\ Responses \subseteq {m \in Seq(QCE \cup {Malformed}) : WellFormed(m)}

VARIABLES
    cache,    \* the record of the four containers
    pc,       \* where the thread that holds _lock is; "free": nobody holds it
    entries,  \* the entries it has still to insert
    closing,  \* how many containers Connection.close() has emptied (of 4)
    raised    \* trim_cache has let an exception out to cmd_query

vars == <<cache, pc, entries, closing, raised>>

EmptyDict == [k \in {} |-> k]
EmptyCache == [id_map |-> EmptyDict, priority_map |-> EmptyDict,
               intermediate_priority_map |-> EmptyDict, tree_set |-> <<>>]

Put(f, k, v) == [x \in DOMAIN f \cup {k} |-> IF x = k THEN v ELSE f[x]]
Pop(f, k) == [x \in DOMAIN f \ {k} |-> f[x]]
Elements(s) == {s[i] : i \in DOMAIN s}

-----------------------------------------------------------------------------
(* SortedSet: add after the last element of no larger priority value,      *)
(* unless the element is a member; remove wherever it is.                  *)
Position(s, qce) ==
    Cardinality({j \in 1..Len(s) : s[j].priority <= qce.priority}) + 1

TreeAdd(s, qce) ==
    IF qce \in Elements(s) THEN s ELSE InsertAt(s, Position(s, qce), qce)

TreeRemove(s, qce) == RemoveAt(s, CHOOSE i \in 1..Len(s) : s[i] = qce)

add_qce(c, qce) ==
    [c EXCEPT !.tree_set = TreeAdd(c.tree_set, qce),
              !.id_map = Put(c.id_map, qce.id, qce),
              !.intermediate_priority_map =
                  Put(c.intermediate_priority_map, qce.priority, qce)]

Bug_remove_keeps_id(c, qce) ==
    [c EXCEPT !.priority_map = Pop(c.priority_map, qce.priority),
              !.tree_set = TreeRemove(c.tree_set, qce)]

remove_qce(c, qce) ==
    [c EXCEPT !.id_map = Pop(c.id_map, qce.id),
              !.priority_map = Pop(c.priority_map, qce.priority),
              !.tree_set = TreeRemove(c.tree_set, qce)]

(* One of the two dict.pop calls or the SortedSet.remove finds no such key *)
remove_raises(c, qce) ==
    \/ qce.id \notin DOMAIN c.id_map
    \/ qce.priority \notin DOMAIN c.priority_map
    \/ qce \notin Elements(c.tree_set)

(* What the raising call has already taken out.                            *)
remove_partly(c, qce) ==
    IF qce.id \notin DOMAIN c.id_map THEN c
    ELSE [c EXCEPT !.id_map = Pop(c.id_map, qce.id),
                   !.priority_map = Pop(c.priority_map, qce.priority)]

(* The element an entry displaces: the one of its id when the entry is     *)
(* newer, else, for a new id, the one of its priority in priority_map.     *)
displaced(c, e) ==
    IF e.id \in DOMAIN c.id_map THEN {c.id_map[e.id]}
    ELSE IF e.priority \in DOMAIN c.priority_map
         THEN {c.priority_map[e.priority]} ELSE {}

Bug_stale(c, e) ==
    /\ e.id \in DOMAIN c.id_map
    /\ e = c.id_map[e.id]

stale(c, e) ==
    /\ e.id \in DOMAIN c.id_map
    /\ LET qce == c.id_map[e.id] IN
        ~ \/ e.read_timestamp > qce.read_timestamp
          \/ e.read_timestamp = qce.read_timestamp /\ e.priority # qce.priority

insert_raises(c, e) ==
    ~stale(c, e) /\ \E old \in displaced(c, e) : remove_raises(c, old)

(* The field checks of deserialize_json_dict raise, or insert does.        *)
entry_fails(c, e) == IF e = Malformed THEN TRUE ELSE insert_raises(c, e)

insert(c, e) ==
    IF stale(c, e) THEN c
    ELSE IF displaced(c, e) = {} THEN add_qce(c, e)
    ELSE add_qce(remove_qce(c, CHOOSE old \in displaced(c, e) : TRUE), e)

sync_priority_map(c) ==
    LET new == c.intermediate_priority_map IN
    [c EXCEPT !.priority_map =
                  [p \in DOMAIN c.priority_map \cup DOMAIN new |->
                      IF p \in DOMAIN new THEN new[p] ELSE c.priority_map[p]],
              !.intermediate_priority_map = EmptyDict]

(* serialize_to_dict: the elements a request carries to the server.        *)
serialize_to_dict(c) == c.tree_set

-----------------------------------------------------------------------------
Init ==
    /\ cache = EmptyCache
    /\ pc = "free"
    /\ entries = <<>>
    /\ closing = 0
    /\ raised = FALSE

(* deserialize_json_dict of None or {}.                                    *)
DeserializeNothing ==
    /\ pc = "free"
    /\ cache' = EmptyCache
    /\ UNCHANGED <<pc, entries, closing, raised>>

(* A merge that starts after close() has begun works on a cache that is    *)
(* not read again and is left out; one that is under way goes on.          *)
DeserializeBegin(m) ==
    /\ pc = "free" /\ closing = 0
    /\ Len(cache.tree_set) <= MaxElements
    /\ pc' = "insert"
    /\ entries' = m
    /\ UNCHANGED <<cache, closing, raised>>

InsertEntry ==
    /\ pc = "insert" /\ entries # <<>>
    /\ ~entry_fails(cache, Head(entries))
    /\ cache' = insert(cache, Head(entries))
    /\ entries' = Tail(entries)
    /\ UNCHANGED <<pc, closing, raised>>

(* except Exception: clear_cache().                                        *)
InsertFails ==
    /\ pc = "insert" /\ entries # <<>>
    /\ entry_fails(cache, Head(entries))
    /\ cache' = EmptyCache
    /\ entries' = <<>>
    /\ pc' = "trim"
    /\ UNCHANGED <<closing, raised>>

SyncPriorityMap ==
    /\ pc = "insert" /\ entries = <<>>
    /\ cache' = sync_priority_map(cache)
    /\ pc' = "trim"
    /\ UNCHANGED <<entries, closing, raised>>

Bug_TrimRemove ==
    /\ pc = "trim" /\ Len(cache.tree_set) > Capacity
    /\ ~remove_raises(cache, Head(cache.tree_set))
    /\ cache' = remove_qce(cache, Head(cache.tree_set))
    /\ UNCHANGED <<pc, entries, closing, raised>>

(* One turn of trim_cache's loop.                                          *)
TrimRemove ==
    /\ pc = "trim" /\ Len(cache.tree_set) > Capacity
    /\ ~remove_raises(cache, Last(cache.tree_set))
    /\ cache' = remove_qce(cache, Last(cache.tree_set))
    /\ UNCHANGED <<pc, entries, closing, raised>>

Bug_TrimRaises ==
    /\ pc = "trim" /\ Len(cache.tree_set) > Capacity
    /\ remove_raises(cache, Last(cache.tree_set))
    /\ cache' = remove_partly(cache, Last(cache.tree_set))
    /\ raised' = TRUE
    /\ UNCHANGED <<pc, entries, closing>>

(* trim_cache runs outside deserialize_json_dict's try.                    *)
TrimRaises ==
    /\ pc = "trim" /\ Len(cache.tree_set) > Capacity
    /\ remove_raises(cache, Last(cache.tree_set))
    /\ cache' = remove_partly(cache, Last(cache.tree_set))
    /\ raised' = TRUE
    /\ pc' = "free"
    /\ UNCHANGED <<entries, closing>>

Bug_Release ==
    /\ pc = "trim" /\ Len(cache.tree_set) <= Capacity + 1
    /\ pc' = "free"
    /\ UNCHANGED <<cache, entries, closing, raised>>

Release ==
    /\ pc = "trim" /\ Len(cache.tree_set) <= Capacity
    /\ pc' = "free"
    /\ UNCHANGED <<cache, entries, closing, raised>>

(* Connection.close(): clear_cache with no lock, one container at a time.  *)
ClearContainer ==
    /\ closing < 4
    /\ closing' = closing + 1
    /\ cache' = CASE closing = 0 -> [cache EXCEPT !.id_map = EmptyDict]
                  [] closing = 1 -> [cache EXCEPT !.priority_map = EmptyDict]
                  [] closing = 2 -> [cache EXCEPT !.tree_set = <<>>]
                  [] OTHER -> [cache EXCEPT
                                 !.intermediate_priority_map = EmptyDict]
    /\ UNCHANGED <<pc, entries, raised>>

LockHolder ==
    InsertEntry \/ InsertFails \/ SyncPriorityMap
        \/ TrimRemove \/ TrimRaises \/ Release

Next ==
    \/ DeserializeNothing
    \/ \E m \in Responses : DeserializeBegin(m)
    \/ LockHolder
    \/ ClearContainer

(* The thread inside deserialize_json_dict keeps running.                  *)
Spec == Init /\ [][Next]_vars /\ WF_vars(LockHolder)

-----------------------------------------------------------------------------
PartialMap(f, S) == DOMAIN f \subseteq S /\ f \in [DOMAIN f -> QCE]

CacheType(c) ==
    /\ c \in [id_map : {c.id_map}, priority_map : {c.priority_map},
              intermediate_priority_map : {c.intermediate_priority_map},
              tree_set : {c.tree_set}]
    /\ PartialMap(c.id_map, Ids)
    /\ \A i \in DOMAIN c.id_map : c.id_map[i].id = i
    /\ PartialMap(c.priority_map, Priorities)
    /\ PartialMap(c.intermediate_priority_map, Priorities)
    /\ c.tree_set \in Seq(QCE)

(* Every index maps keys of its kind to elements, the id index each id to  *)
(* an element of that id.                                                  *)
TypeOK ==
    /\ CacheType(cache)
    /\ pc \in {"free", "insert", "trim"}
    /\ entries \in Seq(QCE \cup {Malformed})
    /\ closing \in 0..4
    /\ raised \in BOOLEAN

(* close() has not begun and trim_cache has not raised.                    *)
Undisturbed == closing = 0 /\ ~raised

TreeConsistent(c) ==
    LET tree == serialize_to_dict(c) IN
    /\ Elements(tree) = {c.id_map[i] : i \in DOMAIN c.id_map}
    /\ \A i \in DOMAIN c.id_map : c.id_map[i].id = i
    /\ \A i, j \in DOMAIN tree : i # j => tree[i].id # tree[j].id

Live(c, m) ==
    \A p \in DOMAIN m : /\ m[p].priority = p
                        /\ m[p].id \in DOMAIN c.id_map
                        /\ c.id_map[m[p].id] = m[p]

(* insert and trim_cache keep the id index and the sorted set in step: the *)
(* set holds exactly the indexed elements, each once, each under its own   *)
(* id.  So a request never carries two elements of one id to the server.   *)
TreeMatchesIdMap == Undisturbed => TreeConsistent(cache)

(* The priority index never holds an element that has been removed, so     *)
(* the element that insert displaces by its priority is one of the cache.  *)
PriorityMapLive == Undisturbed => Live(cache, cache.priority_map)

(* Whenever the lock is free the cache is within its capacity.             *)
WithinCapacity ==
    pc = "free" /\ ~raised => Len(cache.tree_set) <= Capacity

(* However late a response arrives, merging it never takes an element the  *)
(* cache goes on holding back to an older read timestamp.                  *)
TimestampsNeverRegress ==
    [][\A i \in DOMAIN cache.id_map \cap DOMAIN cache'.id_map :
          cache'.id_map[i].read_timestamp >= cache.id_map[i].read_timestamp]_vars

(* trim_cache never evicts the element of highest priority, which every    *)
(* later request has to carry.                                             *)
TrimKeepsMainElement ==
    [][pc = "trim" /\ cache.tree_set # <<>> /\ closing' = closing
          => cache'.tree_set # <<>> /\ Head(cache'.tree_set) = Head(cache.tree_set)]_vars

(* A merge ends and gives the lock back, whatever the response, the        *)
(* exceptions on the way and a concurrent close().                         *)
MergeEnds == pc # "free" ~> pc = "free"

(* trim_cache, which runs outside the try block, never raises.             *)
TrimNeverRaises == closing = 0 => ~raised

(* The indexes of the cache agree with each other after any sequence of    *)
(* inserts, displacements by id and by priority, trims and failures.       *)
CacheConsistent == TypeOK /\ TreeMatchesIdMap /\ PriorityMapLive
=============================================================================
