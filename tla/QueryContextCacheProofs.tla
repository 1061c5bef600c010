----------------------- MODULE QueryContextCacheProofs -----------------------
(* Proofs about QueryContextCache, for every set of ids, priorities and    *)
(* timestamps, every capacity and every set of well-formed responses.      *)
EXTENDS QueryContextCache, FiniteSetTheorems, TLAPS

(* The position a SortedSet gives a new element is one of its positions.   *)
LEMMA PositionInRange ==
    ASSUME NEW s \in Seq(QCE), NEW e \in QCE
    PROVE  Position(s, e) \in 1..Len(s) + 1
<1> DEFINE J == {j \in 1..Len(s) : s[j].priority <= e.priority}
<1>0. 1 \in Int /\ Len(s) \in Int /\ Len(s) >= 0
  OBVIOUS
<1>1. IsFiniteSet(1..Len(s)) /\ Cardinality(1..Len(s)) = Len(s)
  <2>1. /\ IsFiniteSet(1..Len(s))
        /\ Cardinality(1..Len(s)) = IF 1 > Len(s) THEN 0 ELSE Len(s) - 1 + 1
    BY <1>0, FS_Interval, Zenon
  <2> QED
    BY <1>0, <2>1
<1>2. IsFiniteSet(J) /\ Cardinality(J) <= Len(s)
  BY <1>1, FS_Subset
<1>3. Cardinality(J) \in Nat
  BY <1>2, FS_CardinalityType
<1> QED
  BY <1>2, <1>3 DEF Position

(* SortedSet.add puts an element that is no member in one place, and moves *)
(* the ones behind it.                                                     *)
LEMMA TreeAddShape ==
    ASSUME NEW s \in Seq(QCE), NEW e \in QCE, e \notin Elements(s)
    PROVE  LET t == TreeAdd(s, e) IN
           \E k \in 1..Len(s) + 1 :
              /\ t \in Seq(QCE)
              /\ Len(t) = Len(s) + 1
              /\ \A i \in 1..Len(t) :
                    t[i] = IF i < k THEN s[i] ELSE IF i = k THEN e ELSE s[i - 1]
<1> DEFINE k == Position(s, e)
           t == InsertAt(s, k, e)
<1>1. k \in 1..Len(s) + 1
  BY PositionInRange
<1> HIDE DEF k
<1>2. /\ t \in Seq(QCE)
      /\ Len(t) = Len(s) + 1
      /\ \A i \in 1..Len(t) :
            t[i] = IF i < k THEN s[i] ELSE IF i = k THEN e ELSE s[i - 1]
  <2> DEFINE a == SubSeq(s, 1, k - 1)
             b == SubSeq(s, k, Len(s))
  <2>1. /\ a \in Seq(QCE) /\ Len(a) = k - 1
        /\ \A i \in 1..k - 1 : a[i] = s[i]
    BY <1>1
  <2>2. /\ b \in Seq(QCE) /\ Len(b) = Len(s) - k + 1
        /\ \A i \in 1..Len(s) - k + 1 : b[i] = s[k + i - 1]
    BY <1>1
  <2> DEFINE c == a \o <<e>>
  <2>3. t = c \o b
    BY DEF InsertAt
  <2> HIDE DEF a, b, t
  <2>4. /\ c \in Seq(QCE) /\ Len(c) = k
        /\ \A i \in 1..k : c[i] = IF i < k THEN s[i] ELSE e
    BY <1>1, <2>1
  <2> HIDE DEF c
  <2>5. t \in Seq(QCE) /\ Len(t) = Len(s) + 1
    <3>0. c \in Seq(QCE) /\ b \in Seq(QCE)
      BY <2>2, <2>4
    <3>1. t \in Seq(QCE) /\ Len(t) = Len(c) + Len(b)
      BY <2>3, <3>0
    <3> QED
      BY <1>1, <2>2, <2>4, <3>1
  <2>6. \A i \in 1..Len(t) : t[i] = IF i <= k THEN c[i] ELSE b[i - k]
    BY <1>1, <2>2, <2>3, <2>4, <2>5
  <2>7. \A i \in 1..Len(t) : i > k => b[i - k] = s[i - 1]
    BY <1>1, <2>2, <2>5
  <2> QED
    BY <1>1, <2>4, <2>5, <2>6, <2>7
<1>3. TreeAdd(s, e) = t
  BY DEF TreeAdd, k
<1> HIDE DEF t
<1> QED
  BY <1>1, <1>2, <1>3

(* SortedSet.add of an element that is no member adds it and nothing else. *)
LEMMA TreeAddElements ==
    ASSUME NEW s \in Seq(QCE), NEW e \in QCE, e \notin Elements(s)
    PROVE  /\ TreeAdd(s, e) \in Seq(QCE)
           /\ Elements(TreeAdd(s, e)) = Elements(s) \cup {e}
           /\ (\A i, j \in DOMAIN s : i # j => s[i].id # s[j].id)
              /\ (\A i \in DOMAIN s : s[i].id # e.id)
              => \A i, j \in DOMAIN TreeAdd(s, e) :
                    i # j => TreeAdd(s, e)[i].id # TreeAdd(s, e)[j].id
<1> DEFINE t == TreeAdd(s, e)
<1>1. PICK k \in 1..Len(s) + 1 :
        /\ t \in Seq(QCE)
        /\ Len(t) = Len(s) + 1
        /\ \A i \in 1..Len(t) :
              t[i] = IF i < k THEN s[i] ELSE IF i = k THEN e ELSE s[i - 1]
  BY TreeAddShape
<1> HIDE DEF t
<1>2. /\ t \in Seq(QCE)
      /\ Len(t) = Len(s) + 1
      /\ \A i \in 1..Len(t) :
            t[i] = IF i < k THEN s[i] ELSE IF i = k THEN e ELSE s[i - 1]
  BY <1>1
<1>4. Elements(t) \subseteq Elements(s) \cup {e}
  BY <1>1, <1>2 DEF Elements
<1>5. \A i \in DOMAIN s : s[i] \in Elements(t)
  <2> TAKE i \in DOMAIN s
  <2>1. CASE i < k
    BY <2>1, <1>1, <1>2 DEF Elements
  <2>2. CASE i >= k
    <3>1. i + 1 \in DOMAIN t /\ t[i + 1] = s[i]
      BY <2>2, <1>1, <1>2
    <3> QED
      BY <3>1 DEF Elements
  <2> QED
    BY <2>1, <2>2, <1>1
<1>6. e \in Elements(t)
  BY <1>1, <1>2 DEF Elements
<1>7. Elements(t) = Elements(s) \cup {e}
  BY <1>4, <1>5, <1>6 DEF Elements
<1>8. ASSUME \A i, j \in DOMAIN s : i # j => s[i].id # s[j].id,
             \A i \in DOMAIN s : s[i].id # e.id
      PROVE  \A i, j \in DOMAIN t : i # j => t[i].id # t[j].id
  <2> DEFINE from(i) == IF i < k THEN i ELSE i - 1
  <2>1. \A i \in DOMAIN t : i # k => from(i) \in DOMAIN s /\ t[i] = s[from(i)]
    BY <1>1, <1>2
  <2>2. \A i, j \in DOMAIN t : i # j /\ i # k /\ j # k => from(i) # from(j)
    BY <1>1, <1>2
  <2>3. t[k] = e
    BY <1>1, <1>2
  <2> HIDE DEF from
  <2> QED
    BY <2>1, <2>2, <2>3, <1>8
<1> QED
  BY <1>2, <1>7, <1>8 DEF t

(* SortedSet.remove takes an element out of one place.                     *)
LEMMA TreeRemoveShape ==
    ASSUME NEW s \in Seq(QCE), NEW e \in Elements(s)
    PROVE  LET t == TreeRemove(s, e) IN
           \E k \in 1..Len(s) :
              /\ s[k] = e
              /\ t \in Seq(QCE)
              /\ Len(t) = Len(s) - 1
              /\ \A i \in 1..Len(t) : t[i] = IF i < k THEN s[i] ELSE s[i + 1]
<1> DEFINE k == CHOOSE i \in 1..Len(s) : s[i] = e
           t == RemoveAt(s, k)
<1>1. k \in 1..Len(s) /\ s[k] = e
  BY DEF Elements
<1> HIDE DEF k
<1>2. /\ t \in Seq(QCE)
      /\ Len(t) = Len(s) - 1
      /\ \A i \in 1..Len(t) : t[i] = IF i < k THEN s[i] ELSE s[i + 1]
  <2> DEFINE a == SubSeq(s, 1, k - 1)
             b == SubSeq(s, k + 1, Len(s))
  <2>1. /\ a \in Seq(QCE) /\ Len(a) = k - 1
        /\ \A i \in 1..k - 1 : a[i] = s[i]
    BY <1>1
  <2>2. /\ b \in Seq(QCE) /\ Len(b) = Len(s) - k
        /\ \A i \in 1..Len(s) - k : b[i] = s[k + i]
    BY <1>1
  <2>3. t = a \o b
    BY DEF RemoveAt
  <2> HIDE DEF a, b, t
  <2>4. t \in Seq(QCE) /\ Len(t) = Len(s) - 1
    BY <1>1, <2>1, <2>2, <2>3
  <2>5. \A i \in 1..Len(t) : t[i] = IF i < k THEN a[i] ELSE b[i - k + 1]
    BY <1>1, <2>1, <2>2, <2>3, <2>4
  <2>6. \A i \in 1..Len(t) : i >= k => b[i - k + 1] = s[i + 1]
    <3> SUFFICES ASSUME NEW i \in 1..Len(t), i >= k
                 PROVE  b[i - k + 1] = s[i + 1]
      OBVIOUS
    <3>1. i - k + 1 \in 1..Len(s) - k /\ k + (i - k + 1) = i + 1
      BY <1>1, <2>4
    <3> QED
      BY <2>2, <3>1
  <2> QED
    BY <1>1, <2>1, <2>4, <2>5, <2>6
<1>3. TreeRemove(s, e) = t
  BY DEF TreeRemove, k
<1> HIDE DEF t
<1> QED
  BY <1>1, <1>2, <1>3

(* SortedSet.remove of an element that occurs once takes out that element. *)
LEMMA TreeRemoveElements ==
    ASSUME NEW s \in Seq(QCE), NEW e \in Elements(s)
    PROVE  /\ TreeRemove(s, e) \in Seq(QCE)
           /\ (\A i, j \in DOMAIN s : i # j => s[i].id # s[j].id)
              => /\ Elements(TreeRemove(s, e)) = Elements(s) \ {e}
                 /\ \A i, j \in DOMAIN TreeRemove(s, e) :
                    i # j => TreeRemove(s, e)[i].id # TreeRemove(s, e)[j].id
<1> DEFINE t == TreeRemove(s, e)
<1>0. PICK k \in 1..Len(s) :
        /\ s[k] = e
        /\ t \in Seq(QCE)
        /\ Len(t) = Len(s) - 1
        /\ \A i \in 1..Len(t) : t[i] = IF i < k THEN s[i] ELSE s[i + 1]
  BY TreeRemoveShape
<1> HIDE DEF t
<1>1. k \in 1..Len(s) /\ s[k] = e
  BY <1>0
<1>2. /\ t \in Seq(QCE)
      /\ Len(t) = Len(s) - 1
      /\ \A i \in 1..Len(t) : t[i] = IF i < k THEN s[i] ELSE s[i + 1]
  BY <1>0
<1>4. ASSUME \A i, j \in DOMAIN s : i # j => s[i].id # s[j].id
      PROVE  /\ Elements(t) = Elements(s) \ {e}
             /\ \A i, j \in DOMAIN t : i # j => t[i].id # t[j].id
  <2>1. Elements(t) \subseteq Elements(s) \ {e}
    <3> SUFFICES ASSUME NEW i \in DOMAIN t
                 PROVE  t[i] \in Elements(s) /\ t[i] # e
      BY DEF Elements
    <3>1. CASE i < k
      BY <3>1, <1>1, <1>2, <1>4 DEF Elements
    <3>2. CASE i >= k
      <4>1. i + 1 \in DOMAIN s /\ i + 1 # k /\ t[i] = s[i + 1]
        BY <3>2, <1>1, <1>2
      <4> QED
        BY <4>1, <1>1, <1>4 DEF Elements
    <3> QED
      BY <3>1, <3>2, <1>1, <1>2
  <2>2. \A i \in DOMAIN s : i # k => s[i] \in Elements(t)
    <3> SUFFICES ASSUME NEW i \in DOMAIN s, i # k
                 PROVE  s[i] \in Elements(t)
      OBVIOUS
    <3>1. CASE i < k
      BY <3>1, <1>1, <1>2 DEF Elements
    <3>2. CASE i > k
      <4>1. i - 1 \in DOMAIN t /\ t[i - 1] = s[i]
        BY <3>2, <1>1, <1>2
      <4> QED
        BY <4>1 DEF Elements
    <3> QED
      BY <3>1, <3>2, <1>1
  <2>3. \A i, j \in DOMAIN t : i # j => t[i].id # t[j].id
    <3> DEFINE from(i) == IF i < k THEN i ELSE i + 1
    <3>1. \A i \in DOMAIN t : from(i) \in DOMAIN s /\ t[i] = s[from(i)]
      BY <1>1, <1>2
    <3>2. \A i, j \in DOMAIN t : i # j => from(i) # from(j)
      BY <1>1, <1>2
    <3> HIDE DEF from
    <3> QED
      BY <3>1, <3>2, <1>4
  <2> QED
    BY <2>1, <2>2, <2>3, <1>1 DEF Elements
<1> QED
  BY <1>2, <1>4 DEF t

-----------------------------------------------------------------------------
(* _remove_qce of an element the id index holds keeps the containers in    *)
(* step, and leaves no element of that id in the priority index.           *)
LEMMA RemoveConsistent ==
    ASSUME NEW c, CacheType(c), TreeConsistent(c), Live(c, c.priority_map),
           NEW q \in QCE, ~remove_raises(c, q), c.id_map[q.id] = q
    PROVE  LET d == remove_qce(c, q) IN
           /\ CacheType(d)
           /\ TreeConsistent(d)
           /\ Live(d, d.priority_map)
           /\ DOMAIN d.id_map = DOMAIN c.id_map \ {q.id}
           /\ \A p \in DOMAIN d.priority_map : d.priority_map[p].id # q.id
           /\ DOMAIN d.priority_map \subseteq DOMAIN c.priority_map
           /\ \A p \in DOMAIN d.priority_map :
                 d.priority_map[p] = c.priority_map[p]
           /\ d.intermediate_priority_map = c.intermediate_priority_map
           /\ (\A p \in DOMAIN c.intermediate_priority_map :
                  c.intermediate_priority_map[p].id # q.id)
              /\ Live(c, c.intermediate_priority_map)
              => Live(d, c.intermediate_priority_map)
<1> DEFINE d == remove_qce(c, q)
<1>1. q.id \in DOMAIN c.id_map /\ q \in Elements(c.tree_set)
  BY DEF remove_raises
<1>2. c.tree_set \in Seq(QCE)
  BY DEF CacheType
<1>3. /\ d.id_map = Pop(c.id_map, q.id)
      /\ d.priority_map = Pop(c.priority_map, q.priority)
      /\ d.intermediate_priority_map = c.intermediate_priority_map
      /\ d.tree_set = TreeRemove(c.tree_set, q)
      /\ d \in [id_map : {d.id_map}, priority_map : {d.priority_map},
                intermediate_priority_map : {d.intermediate_priority_map},
                tree_set : {d.tree_set}]
  BY DEF remove_qce, CacheType
<1> HIDE DEF d
<1>4. \A i, j \in DOMAIN c.tree_set :
          i # j => c.tree_set[i].id # c.tree_set[j].id
  BY DEF TreeConsistent, serialize_to_dict
<1>5. /\ d.tree_set \in Seq(QCE)
      /\ Elements(d.tree_set) = Elements(c.tree_set) \ {q}
      /\ \A i, j \in DOMAIN d.tree_set :
            i # j => d.tree_set[i].id # d.tree_set[j].id
  BY <1>1, <1>2, <1>3, <1>4, TreeRemoveElements
<1>6. /\ DOMAIN d.id_map = DOMAIN c.id_map \ {q.id}
      /\ \A i \in DOMAIN d.id_map : d.id_map[i] = c.id_map[i]
      /\ DOMAIN d.priority_map = DOMAIN c.priority_map \ {q.priority}
      /\ \A p \in DOMAIN d.priority_map : d.priority_map[p] = c.priority_map[p]
  BY <1>3 DEF Pop
<1>7. CacheType(d)
  BY <1>3, <1>5 DEF CacheType, PartialMap, Pop
<1>8. TreeConsistent(d)
  <2>1. \A i \in DOMAIN d.id_map : d.id_map[i].id = i
    BY <1>6 DEF TreeConsistent
  <2>2. Elements(d.tree_set) = {d.id_map[i] : i \in DOMAIN d.id_map}
    BY <1>5, <1>6 DEF TreeConsistent, serialize_to_dict
  <2> QED
    BY <1>5, <2>1, <2>2 DEF TreeConsistent, serialize_to_dict
<1>9. \A p \in DOMAIN d.priority_map : d.priority_map[p].id # q.id
  BY <1>6 DEF Live
<1>10. Live(d, d.priority_map)
  BY <1>6, <1>9 DEF Live
<1>11. ASSUME \A p \in DOMAIN c.intermediate_priority_map :
                c.intermediate_priority_map[p].id # q.id,
              Live(c, c.intermediate_priority_map)
       PROVE  Live(d, c.intermediate_priority_map)
  BY <1>6, <1>11 DEF Live
<1> QED
  BY <1>3, <1>6, <1>7, <1>8, <1>9, <1>10, <1>11 DEF d

(* _add_qce of an element of a new id keeps the containers in step.        *)
LEMMA AddConsistent ==
    ASSUME NEW c, CacheType(c), TreeConsistent(c), Live(c, c.priority_map),
           Live(c, c.intermediate_priority_map),
           NEW e \in QCE, e.id \notin DOMAIN c.id_map
    PROVE  LET d == add_qce(c, e) IN
           /\ CacheType(d)
           /\ TreeConsistent(d)
           /\ Live(d, d.priority_map)
           /\ Live(d, d.intermediate_priority_map)
           /\ d.priority_map = c.priority_map
           /\ d.intermediate_priority_map =
                 Put(c.intermediate_priority_map, e.priority, e)
<1> DEFINE d == add_qce(c, e)
<1>1. /\ d.id_map = Put(c.id_map, e.id, e)
      /\ d.priority_map = c.priority_map
      /\ d.intermediate_priority_map =
            Put(c.intermediate_priority_map, e.priority, e)
      /\ d.tree_set = TreeAdd(c.tree_set, e)
      /\ d \in [id_map : {d.id_map}, priority_map : {d.priority_map},
                intermediate_priority_map : {d.intermediate_priority_map},
                tree_set : {d.tree_set}]
  BY DEF add_qce, CacheType
<1> HIDE DEF d
<1>2. c.tree_set \in Seq(QCE)
  BY DEF CacheType
<1>3. \A i \in DOMAIN c.tree_set : c.tree_set[i].id # e.id
  BY DEF TreeConsistent, serialize_to_dict, Elements
<1>4. e \notin Elements(c.tree_set)
  BY <1>3 DEF Elements
<1>5. \A i, j \in DOMAIN c.tree_set :
          i # j => c.tree_set[i].id # c.tree_set[j].id
  BY DEF TreeConsistent, serialize_to_dict
<1>6. /\ d.tree_set \in Seq(QCE)
      /\ Elements(d.tree_set) = Elements(c.tree_set) \cup {e}
      /\ \A i, j \in DOMAIN d.tree_set :
            i # j => d.tree_set[i].id # d.tree_set[j].id
  BY <1>1, <1>2, <1>3, <1>4, <1>5, TreeAddElements
<1>7. /\ DOMAIN d.id_map = DOMAIN c.id_map \cup {e.id}
      /\ d.id_map[e.id] = e
      /\ \A i \in DOMAIN c.id_map : d.id_map[i] = c.id_map[i]
  BY <1>1 DEF Put
<1>8. CacheType(d)
  <2>1. e.id \in Ids /\ e.priority \in Priorities
    BY DEF QCE
  <2> QED
    BY <2>1, <1>1, <1>6 DEF CacheType, PartialMap, Put
<1>9. TreeConsistent(d)
  <2>1. \A i \in DOMAIN d.id_map : d.id_map[i].id = i
    BY <1>7 DEF TreeConsistent
  <2>2. Elements(d.tree_set) = {d.id_map[i] : i \in DOMAIN d.id_map}
    BY <1>6, <1>7 DEF TreeConsistent, serialize_to_dict
  <2> QED
    BY <1>6, <2>1, <2>2 DEF TreeConsistent, serialize_to_dict
<1>10. Live(d, d.priority_map)
  BY <1>1, <1>7 DEF Live
<1>11. Live(d, d.intermediate_priority_map)
  BY <1>1, <1>7 DEF Live, Put
<1> QED
  BY <1>1, <1>8, <1>9, <1>10, <1>11 DEF d

-----------------------------------------------------------------------------
(* What a merge keeps about the elements of its round: they are live, none *)
(* has the id of an element of the priority index or of an entry to come.  *)
Apart(c) ==
    \A p \in DOMAIN c.priority_map, q \in DOMAIN c.intermediate_priority_map :
        c.priority_map[p].id # c.intermediate_priority_map[q].id

NewTo(e, c) ==
    \A q \in DOMAIN c.intermediate_priority_map :
        c.intermediate_priority_map[q].id # e.id

Sound(c) ==
    /\ CacheType(c)
    /\ TreeConsistent(c)
    /\ Live(c, c.priority_map)
    /\ Live(c, c.intermediate_priority_map)
    /\ Apart(c)

(* An insert that does not raise keeps the cache sound, and the elements   *)
(* of the round are the earlier ones and perhaps the one just inserted.    *)
LEMMA InsertSound ==
    ASSUME NEW c, Sound(c), NEW e \in QCE, NewTo(e, c), ~insert_raises(c, e)
    PROVE  /\ Sound(insert(c, e))
           /\ \A f \in QCE : f.id # e.id /\ NewTo(f, c) => NewTo(f, insert(c, e))
<1> DEFINE d == insert(c, e)
<1>1. CASE stale(c, e)
  BY <1>1 DEF insert
<1>2. ASSUME ~stale(c, e), NEW x, Sound(x), NewTo(e, x),
             x.intermediate_priority_map = c.intermediate_priority_map,
             e.id \notin DOMAIN x.id_map, d = add_qce(x, e)
      PROVE  /\ Sound(d)
             /\ \A f \in QCE : f.id # e.id /\ NewTo(f, c) => NewTo(f, d)
  <2>1. /\ CacheType(d) /\ TreeConsistent(d)
        /\ Live(d, d.priority_map) /\ Live(d, d.intermediate_priority_map)
        /\ d.priority_map = x.priority_map
        /\ d.intermediate_priority_map =
              Put(x.intermediate_priority_map, e.priority, e)
    BY <1>2, AddConsistent DEF Sound
  <2> HIDE DEF d
  <2>2. \A p \in DOMAIN x.priority_map : x.priority_map[p].id # e.id
    BY <1>2 DEF Sound, Live
  <2>3. Apart(d)
    BY <1>2, <2>1, <2>2 DEF Sound, Apart, Put
  <2>4. \A f \in QCE : f.id # e.id /\ NewTo(f, c) => NewTo(f, d)
    BY <1>2, <2>1 DEF NewTo, Put
  <2> QED
    BY <2>1, <2>3, <2>4 DEF Sound
<1>3. CASE ~stale(c, e) /\ displaced(c, e) = {}
  <2>1. e.id \notin DOMAIN c.id_map
    BY <1>3 DEF displaced
  <2>2. d = add_qce(c, e)
    BY <1>3 DEF insert
  <2> QED
    BY <1>2, <1>3, <2>1, <2>2
<1>4. ASSUME ~stale(c, e), NEW old \in displaced(c, e)
      PROVE  /\ Sound(d)
             /\ \A f \in QCE : f.id # e.id /\ NewTo(f, c) => NewTo(f, d)
  <2> DEFINE x == remove_qce(c, old)
  <2>1. /\ old \in QCE
        /\ ~remove_raises(c, old)
        /\ c.id_map[old.id] = old
        /\ displaced(c, e) = {old}
    BY <1>4 DEF displaced, insert_raises, Sound, Live, TreeConsistent,
                CacheType, PartialMap
  <2>2. NewTo(old, c)
    <3>1. CASE e.id \in DOMAIN c.id_map
      BY <1>4, <3>1 DEF displaced, NewTo, Sound, TreeConsistent
    <3>2. CASE e.id \notin DOMAIN c.id_map
      BY <1>4, <3>2 DEF displaced, NewTo, Sound, Apart
    <3> QED
      BY <3>1, <3>2
  <2>3. /\ CacheType(x) /\ TreeConsistent(x) /\ Live(x, x.priority_map)
        /\ DOMAIN x.id_map = DOMAIN c.id_map \ {old.id}
        /\ DOMAIN x.priority_map \subseteq DOMAIN c.priority_map
        /\ \A p \in DOMAIN x.priority_map : x.priority_map[p] = c.priority_map[p]
        /\ x.intermediate_priority_map = c.intermediate_priority_map
        /\ Live(x, c.intermediate_priority_map)
    BY <2>1, <2>2, RemoveConsistent DEF Sound, NewTo
  <2>4. d = add_qce(x, e)
    BY <1>4, <2>1 DEF insert
  <2> HIDE DEF x, d
  <2>5. Sound(x) /\ NewTo(e, x)
    BY <2>3 DEF Sound, Apart, NewTo
  <2>6. e.id \notin DOMAIN x.id_map
    BY <1>4, <2>1, <2>3 DEF displaced, Sound, TreeConsistent
  <2> QED
    BY <1>2, <1>4, <2>3, <2>4, <2>5, <2>6
<1> QED
  BY <1>1, <1>3, <1>4

-----------------------------------------------------------------------------
(* Every operation on the cache returns a well-typed cache, also when      *)
(* close() or an exception has left the containers out of step.            *)
LEMMA OperationTypes ==
    ASSUME NEW c, CacheType(c)
    PROVE  /\ \A e \in QCE : CacheType(add_qce(c, e))
           /\ \A q \in QCE : ~remove_raises(c, q) => CacheType(remove_qce(c, q))
           /\ \A q \in QCE : CacheType(remove_partly(c, q))
           /\ CacheType(sync_priority_map(c))
           /\ CacheType(EmptyCache)
<1>1. \A e \in QCE : CacheType(add_qce(c, e))
  <2> TAKE e \in QCE
  <2>1. TreeAdd(c.tree_set, e) \in Seq(QCE)
    BY TreeAddElements DEF CacheType, TreeAdd
  <2>2. e.id \in Ids /\ e.priority \in Priorities
    BY DEF QCE
  <2> QED
    BY <2>1, <2>2 DEF CacheType, add_qce, PartialMap, Put
<1>2. ASSUME NEW q \in QCE, ~remove_raises(c, q)
      PROVE  CacheType(remove_qce(c, q))
  <2>1. TreeRemove(c.tree_set, q) \in Seq(QCE)
    BY <1>2, TreeRemoveElements DEF CacheType, remove_raises
  <2> QED
    BY <2>1 DEF CacheType, remove_qce, PartialMap, Pop
<1>3. \A q \in QCE : CacheType(remove_partly(c, q))
  BY DEF CacheType, remove_partly, PartialMap, Pop
<1>4. CacheType(sync_priority_map(c))
  BY DEF CacheType, sync_priority_map, PartialMap, EmptyDict
<1>5. CacheType(EmptyCache)
  BY DEF CacheType, EmptyCache, PartialMap, EmptyDict
<1> QED
  BY <1>1, <1>2, <1>3, <1>4, <1>5

(* insert returns a well-typed cache.                                      *)
LEMMA InsertType ==
    ASSUME NEW c, CacheType(c), NEW e \in QCE, ~insert_raises(c, e)
    PROVE  CacheType(insert(c, e))
<1>1. CASE stale(c, e) \/ displaced(c, e) = {}
  BY <1>1, OperationTypes DEF insert
<1>2. ASSUME ~stale(c, e), NEW old \in displaced(c, e)
      PROVE  CacheType(insert(c, e))
  <2>1. old \in QCE /\ ~remove_raises(c, old) /\ displaced(c, e) = {old}
    BY <1>2 DEF displaced, insert_raises, CacheType, PartialMap
  <2>2. CacheType(remove_qce(c, old))
    BY <2>1, OperationTypes
  <2>3. insert(c, e) = add_qce(remove_qce(c, old), e)
    BY <1>2, <2>1 DEF insert
  <2> QED
    BY <2>2, <2>3, OperationTypes
<1> QED
  BY <1>1, <1>2

(* The containers keep their types through every merge, exception and      *)
(* concurrent close().                                                     *)
THEOREM TypeCorrect == Spec => []TypeOK
<1>1. Init => TypeOK
  <2>1. CacheType(EmptyCache)
    BY DEF CacheType, EmptyCache, EmptyDict, PartialMap
  <2>2. <<>> \in Seq(QCE \cup {Malformed}) /\ FALSE \in BOOLEAN /\ 0 \in 0..4
    OBVIOUS
  <2> QED
    BY <2>1, <2>2 DEF Init, TypeOK
<1>2. TypeOK /\ [Next]_vars => TypeOK'
  <2> SUFFICES ASSUME TypeOK, [Next]_vars PROVE TypeOK'
    OBVIOUS
  <2>0. CacheType(cache) /\ entries \in Seq(QCE \cup {Malformed})
    BY DEF TypeOK
  <2>1. CASE DeserializeNothing
    BY <2>0, <2>1, OperationTypes DEF DeserializeNothing, TypeOK
  <2>2. ASSUME NEW m \in Responses, DeserializeBegin(m) PROVE TypeOK'
    BY <2>2, ParametersAssumption DEF DeserializeBegin, TypeOK
  <2>3. CASE InsertEntry
    <3>1. Head(entries) \in QCE /\ ~insert_raises(cache, Head(entries))
      BY <2>0, <2>3 DEF InsertEntry, entry_fails
    <3>2. Tail(entries) \in Seq(QCE \cup {Malformed})
      BY <2>0, <2>3 DEF InsertEntry
    <3>3. CacheType(cache')
      BY <2>0, <2>3, <3>1, InsertType DEF InsertEntry
    <3> QED
      BY <2>3, <3>2, <3>3 DEF InsertEntry, TypeOK
  <2>4. CASE InsertFails
    BY <2>0, <2>4, OperationTypes DEF InsertFails, TypeOK
  <2>5. CASE SyncPriorityMap
    BY <2>0, <2>5, OperationTypes DEF SyncPriorityMap, TypeOK
  <2>6. CASE TrimRemove \/ TrimRaises
    <3>1. Last(cache.tree_set) \in QCE
      BY <2>6, ParametersAssumption
      DEF TrimRemove, TrimRaises, Last, CacheType, TypeOK
    <3>2. CacheType(cache')
      BY <2>0, <2>6, <3>1, OperationTypes DEF TrimRemove, TrimRaises
    <3> QED
      BY <2>6, <3>2 DEF TrimRemove, TrimRaises, TypeOK
  <2>7. CASE Release
    BY <2>7 DEF Release, TypeOK
  <2>8. CASE ClearContainer
    <3>1. CacheType(cache')
      BY <2>0, <2>8 DEF ClearContainer, CacheType, PartialMap, EmptyDict
    <3> QED
      BY <2>8, <3>1 DEF ClearContainer, TypeOK
  <2>9. CASE UNCHANGED vars
    BY <2>9 DEF vars, TypeOK
  <2> QED
    BY <2>1, <2>2, <2>3, <2>4, <2>5, <2>6, <2>7, <2>8, <2>9 DEF Next, LockHolder
<1> QED
  BY <1>1, <1>2, PTL DEF Spec

-----------------------------------------------------------------------------
(* The inductive strengthening: outside a round of inserts the             *)
(* intermediate index is empty, and the entries still to be inserted have  *)
(* ids that are new to the round.                                          *)
MergeInv ==
    Undisturbed =>
        /\ Sound(cache)
        /\ pc # "insert" => DOMAIN cache.intermediate_priority_map = {}
        /\ WellFormed(entries)
        /\ \A i \in DOMAIN entries :
              entries[i] # Malformed => NewTo(entries[i], cache)

(* A sound cache that syncs or drops its round stays sound.                *)
LEMMA SyncSound ==
    ASSUME NEW c, Sound(c)
    PROVE  /\ Sound(sync_priority_map(c))
           /\ DOMAIN sync_priority_map(c).intermediate_priority_map = {}
           /\ Sound(EmptyCache)
           /\ DOMAIN EmptyCache.intermediate_priority_map = {}
<1> DEFINE d == sync_priority_map(c)
<1>1. CacheType(c)
  BY DEF Sound
<1>2. /\ d.id_map = c.id_map
      /\ d.tree_set = c.tree_set
      /\ d.intermediate_priority_map = EmptyDict
      /\ DOMAIN d.priority_map =
            DOMAIN c.priority_map \cup DOMAIN c.intermediate_priority_map
      /\ \A p \in DOMAIN d.priority_map :
            d.priority_map[p] = IF p \in DOMAIN c.intermediate_priority_map
                                THEN c.intermediate_priority_map[p]
                                ELSE c.priority_map[p]
  BY <1>1 DEF sync_priority_map, CacheType
<1>3. CacheType(d) /\ CacheType(EmptyCache)
  BY <1>1, OperationTypes
<1> HIDE DEF d
<1>4. Sound(d)
  BY <1>2, <1>3
  DEF Sound, TreeConsistent, serialize_to_dict, Live, Apart, EmptyDict
<1>5. Sound(EmptyCache)
  <2>1. Elements(<<>>) = {}
    BY DEF Elements
  <2> QED
    BY <1>3, <2>1
    DEF Sound, TreeConsistent, serialize_to_dict, Live, Apart, EmptyDict, EmptyCache
<1> QED
  BY <1>2, <1>4, <1>5 DEF d, EmptyDict, EmptyCache

(* The strengthening is preserved by every step of the merging thread, of  *)
(* a new merge and of close().                                             *)
LEMMA MergeStep == TypeOK /\ MergeInv /\ [Next]_vars => MergeInv'
<1> SUFFICES ASSUME TypeOK, MergeInv, [Next]_vars, Undisturbed'
             PROVE  /\ Sound(cache')
                    /\ pc' # "insert"
                       => DOMAIN cache'.intermediate_priority_map = {}
                    /\ WellFormed(entries')
                    /\ \A i \in DOMAIN entries' :
                         entries'[i] # Malformed => NewTo(entries'[i], cache')
  BY DEF MergeInv
<1>0. entries \in Seq(QCE \cup {Malformed})
  BY DEF TypeOK
<1>1. /\ Undisturbed
      /\ ~ClearContainer
      /\ ~TrimRaises
  BY DEF Undisturbed, Next, LockHolder, vars, TypeOK, DeserializeNothing,
         DeserializeBegin, InsertEntry, InsertFails, SyncPriorityMap,
         TrimRemove, TrimRaises, Release, ClearContainer
<1>2. /\ Sound(cache)
      /\ pc # "insert" => DOMAIN cache.intermediate_priority_map = {}
      /\ WellFormed(entries)
      /\ \A i \in DOMAIN entries :
            entries[i] # Malformed => NewTo(entries[i], cache)
  BY <1>1 DEF MergeInv
<1>3. CASE DeserializeNothing
  <2>1. cache' = EmptyCache /\ entries' = entries
    BY <1>3 DEF DeserializeNothing
  <2>2. \A e : NewTo(e, EmptyCache)
    BY DEF NewTo, EmptyCache, EmptyDict
  <2> QED
    BY <1>2, <2>1, <2>2, SyncSound
<1>4. ASSUME NEW m \in Responses, DeserializeBegin(m)
      PROVE  /\ Sound(cache') /\ pc' = "insert" /\ WellFormed(entries')
             /\ \A i \in DOMAIN entries' : NewTo(entries'[i], cache')
  <2>1. /\ pc = "free" /\ pc' = "insert" /\ cache' = cache
        /\ entries' = m /\ WellFormed(m)
    BY <1>4, ParametersAssumption DEF DeserializeBegin
  <2> QED
    BY <1>2, <2>1 DEF NewTo
<1>5. CASE InsertEntry
  <2> DEFINE e == Head(entries)
  <2>1. /\ e \in QCE /\ e # Malformed /\ ~insert_raises(cache, e)
        /\ pc = "insert" /\ pc' = "insert"
        /\ cache' = insert(cache, e)
    BY <1>0, <1>5, ParametersAssumption DEF InsertEntry, entry_fails
  <2>2. /\ entries' = Tail(entries) /\ entries # <<>>
        /\ e = entries[1] /\ 1 \in DOMAIN entries
        /\ \A i \in DOMAIN entries' :
              /\ i + 1 \in DOMAIN entries
              /\ i + 1 # 1
              /\ entries'[i] = entries[i + 1]
              /\ entries'[i] \in QCE \cup {Malformed}
    BY <1>0, <1>5 DEF InsertEntry
  <2>3. NewTo(e, cache)
    BY <1>2, <2>1, <2>2
  <2>4. /\ Sound(cache')
        /\ \A f \in QCE : f.id # e.id /\ NewTo(f, cache) => NewTo(f, cache')
    BY <1>2, <2>1, <2>3, InsertSound
  <2>5. WellFormed(entries')
    <3> SUFFICES ASSUME NEW i \in DOMAIN entries', NEW j \in DOMAIN entries',
                        i # j, entries'[i] # Malformed, entries'[j] # Malformed
                 PROVE  entries'[i].id # entries'[j].id
                        /\ entries'[i].priority # entries'[j].priority
      BY DEF WellFormed
    <3>1. i + 1 # j + 1
      BY <1>0, <2>2
    <3> QED
      BY <1>2, <2>2, <3>1 DEF WellFormed
  <2>6. \A i \in DOMAIN entries' :
           entries'[i] # Malformed => NewTo(entries'[i], cache')
    <3> SUFFICES ASSUME NEW i \in DOMAIN entries', entries'[i] # Malformed
                 PROVE  NewTo(entries'[i], cache')
      OBVIOUS
    <3>1. entries'[i].id # e.id
      BY <1>2, <2>1, <2>2 DEF WellFormed
    <3>2. NewTo(entries'[i], cache) /\ entries'[i] \in QCE
      BY <1>2, <2>2
    <3> QED
      BY <2>4, <3>1, <3>2
  <2> QED
    BY <2>1, <2>4, <2>5, <2>6
<1>6. CASE InsertFails
  <2>1. cache' = EmptyCache /\ entries' = <<>>
    BY <1>6 DEF InsertFails
  <2> QED
    BY <1>2, <2>1, SyncSound DEF WellFormed
<1>7. CASE SyncPriorityMap
  <2>1. cache' = sync_priority_map(cache) /\ entries' = <<>>
    BY <1>7 DEF SyncPriorityMap
  <2> QED
    BY <1>2, <2>1, SyncSound DEF WellFormed
<1>8. CASE TrimRemove
  <2> DEFINE q == Last(cache.tree_set)
  <2>1. /\ cache' = remove_qce(cache, q) /\ ~remove_raises(cache, q)
        /\ entries' = entries /\ pc = "trim" /\ pc' = "trim"
    BY <1>8 DEF TrimRemove
  <2>2. q \in QCE /\ q \in Elements(cache.tree_set)
    BY <1>8, ParametersAssumption
    DEF TrimRemove, Last, CacheType, TypeOK, Elements
  <2>3. cache.id_map[q.id] = q
    BY <1>2, <2>2 DEF Sound, TreeConsistent, serialize_to_dict
  <2> HIDE DEF q
  <2>4. DOMAIN cache.intermediate_priority_map = {}
    BY <1>2, <2>1
  <2>5. /\ CacheType(cache') /\ TreeConsistent(cache')
        /\ Live(cache', cache'.priority_map)
        /\ cache'.intermediate_priority_map = cache.intermediate_priority_map
    BY <1>2, <2>1, <2>2, <2>3, RemoveConsistent DEF Sound
  <2> QED
    BY <1>2, <2>1, <2>4, <2>5 DEF Sound, Live, Apart, NewTo
<1>9. CASE Release \/ UNCHANGED vars
  <2>1. cache' = cache /\ entries' = entries
    BY <1>9 DEF Release, vars
  <2>2. pc' # "insert" => pc # "insert"
    BY <1>9 DEF Release, vars
  <2> QED
    BY <1>2, <2>1, <2>2
<1> QED
  BY <1>1, <1>3, <1>4, <1>5, <1>6, <1>7, <1>8, <1>9 DEF Next, LockHolder

(* The id index, the sorted set and the priority index stay in step, and   *)
(* well typed.                                                             *)
THEOREM IndexesAgree == Spec => []CacheConsistent
<1>1. Init => MergeInv
  <2>1. /\ CacheType(EmptyCache) /\ Elements(<<>>) = {}
    BY DEF CacheType, EmptyCache, EmptyDict, PartialMap, Elements
  <2> QED
    BY <2>1 DEF Init, MergeInv, Sound, TreeConsistent, serialize_to_dict,
         Live, Apart, WellFormed, EmptyCache, EmptyDict
<1>2. TypeOK /\ MergeInv => CacheConsistent
  BY DEF MergeInv, Sound, TreeMatchesIdMap, PriorityMapLive, CacheConsistent
<1> QED
  BY <1>1, <1>2, MergeStep, TypeCorrect, PTL DEF Spec

-----------------------------------------------------------------------------
(* A merge never takes an element back to an older read timestamp.         *)
THEOREM NeverRegress == Spec => TimestampsNeverRegress
<1> DEFINE Forward ==
        \A i \in DOMAIN cache.id_map \cap DOMAIN cache'.id_map :
            cache'.id_map[i].read_timestamp >= cache.id_map[i].read_timestamp
<1>1. TypeOK /\ [Next]_vars => [Forward]_vars
  <2> SUFFICES ASSUME TypeOK, Next PROVE Forward
    OBVIOUS
  <2>0. /\ CacheType(cache) /\ entries \in Seq(QCE \cup {Malformed})
        /\ \A i \in DOMAIN cache.id_map : cache.id_map[i].read_timestamp \in Nat
    BY ParametersAssumption DEF TypeOK, CacheType, PartialMap, QCE
  <2>1. ASSUME DOMAIN cache'.id_map \subseteq DOMAIN cache.id_map,
               \A i \in DOMAIN cache'.id_map : cache'.id_map[i] = cache.id_map[i]
        PROVE  Forward
    BY <2>0, <2>1
  <2>2. CASE DeserializeNothing \/ InsertFails
    <3>1. DOMAIN cache'.id_map = {}
      BY <2>2 DEF DeserializeNothing, InsertFails, EmptyCache, EmptyDict
    <3> QED
      BY <3>1
  <2>3. CASE Release \/ \E m \in Responses : DeserializeBegin(m)
    BY <2>1, <2>3 DEF Release, DeserializeBegin
  <2>4. CASE InsertEntry
    <3> DEFINE e == Head(entries)
    <3>1. e \in QCE /\ ~insert_raises(cache, e) /\ cache' = insert(cache, e)
      BY <2>0, <2>4 DEF InsertEntry, entry_fails
    <3> HIDE DEF e
    <3>2. CASE stale(cache, e)
      BY <2>1, <3>1, <3>2 DEF insert
    <3>3. CASE ~stale(cache, e) /\ displaced(cache, e) = {}
      <4>1. /\ cache'.id_map = Put(cache.id_map, e.id, e)
            /\ e.id \notin DOMAIN cache.id_map
        BY <2>0, <3>1, <3>3 DEF insert, add_qce, CacheType, displaced
      <4> QED
        BY <2>0, <4>1 DEF Put
    <3>4. ASSUME ~stale(cache, e), NEW old \in displaced(cache, e)
          PROVE  Forward
      <4> DEFINE x == remove_qce(cache, old)
      <4>1. /\ old \in QCE /\ ~remove_raises(cache, old)
            /\ displaced(cache, e) = {old}
        BY <2>0, <3>1, <3>4 DEF displaced, insert_raises, CacheType, PartialMap
      <4>2. cache' = add_qce(x, e)
        BY <3>1, <3>4, <4>1 DEF insert
      <4>3. CacheType(x) /\ x.id_map = Pop(cache.id_map, old.id)
        BY <2>0, <4>1, OperationTypes DEF remove_qce, CacheType
      <4> HIDE DEF x
      <4>4. cache'.id_map = Put(Pop(cache.id_map, old.id), e.id, e)
        BY <3>1, <4>2, <4>3 DEF add_qce, CacheType
      <4>5. \A i \in DOMAIN cache.id_map \cap DOMAIN cache'.id_map :
               i # e.id => cache'.id_map[i] = cache.id_map[i]
        BY <4>4 DEF Put, Pop
      <4>6. cache'.id_map[e.id] = e
        BY <4>4 DEF Put
      <4>7. e.id \in DOMAIN cache.id_map
              => e.read_timestamp >= cache.id_map[e.id].read_timestamp
        <5>1. e.read_timestamp \in Nat
          BY <3>1, ParametersAssumption DEF QCE
        <5> QED
          BY <2>0, <3>4, <5>1 DEF stale
      <4> QED
        BY <2>0, <4>5, <4>6, <4>7
    <3> QED
      BY <3>2, <3>3, <3>4
  <2>5. CASE SyncPriorityMap
    BY <2>0, <2>1, <2>5 DEF SyncPriorityMap, sync_priority_map, CacheType
  <2>6. CASE TrimRemove
    <3>1. cache'.id_map = Pop(cache.id_map, Last(cache.tree_set).id)
      BY <2>0, <2>6 DEF TrimRemove, remove_qce, CacheType
    <3> QED
      BY <2>1, <3>1 DEF Pop
  <2>7. CASE TrimRaises
    <3>1. \/ cache'.id_map = cache.id_map
          \/ cache'.id_map = Pop(cache.id_map, Last(cache.tree_set).id)
      BY <2>0, <2>7 DEF TrimRaises, remove_partly, CacheType
    <3> QED
      BY <2>1, <3>1 DEF Pop
  <2>8. CASE ClearContainer
    <3>1. cache'.id_map = cache.id_map \/ cache'.id_map = EmptyDict
      BY <2>0, <2>8 DEF ClearContainer, CacheType
    <3> QED
      BY <2>1, <3>1 DEF EmptyDict
  <2> QED
    BY <2>2, <2>3, <2>4, <2>5, <2>6, <2>7, <2>8 DEF Next, LockHolder
<1> QED
  BY <1>1, TypeCorrect, PTL DEF Spec, TimestampsNeverRegress

-----------------------------------------------------------------------------
(* A merge that trim_cache ends normally leaves at most Capacity elements. *)
THEOREM CapacityKept == Spec => []WithinCapacity
<1>1. Init => WithinCapacity
  <2>1. Len(EmptyCache.tree_set) = 0 /\ 0 <= Capacity
    BY ParametersAssumption DEF EmptyCache
  <2> QED
    BY <2>1 DEF Init, WithinCapacity
<1>2. TypeOK /\ WithinCapacity /\ [Next]_vars => WithinCapacity'
  <2> SUFFICES ASSUME TypeOK, WithinCapacity, [Next]_vars, pc' = "free", ~raised'
               PROVE  Len(cache'.tree_set) <= Capacity
    BY DEF WithinCapacity
  <2>0. CacheType(cache)
    BY DEF TypeOK
  <2>1. CASE DeserializeNothing
    BY <2>1, ParametersAssumption DEF DeserializeNothing, EmptyCache
  <2>2. CASE Release
    BY <2>2 DEF Release
  <2>3. CASE ClearContainer
    <3>1. cache'.tree_set = cache.tree_set \/ cache'.tree_set = <<>>
      BY <2>0, <2>3 DEF ClearContainer, CacheType
    <3>2. pc = "free" /\ ~raised
      BY <2>3 DEF ClearContainer
    <3> QED
      BY <3>1, <3>2, ParametersAssumption DEF WithinCapacity
  <2>4. CASE UNCHANGED vars
    BY <2>4 DEF vars, WithinCapacity
  <2> QED
    BY <2>1, <2>2, <2>3, <2>4 DEF Next, LockHolder, DeserializeBegin,
       InsertEntry, InsertFails, SyncPriorityMap, TrimRemove, TrimRaises
<1> QED
  BY <1>1, <1>2, TypeCorrect, PTL DEF Spec

-----------------------------------------------------------------------------
\* No element is in the sorted set twice.
Distinct(s) == \A i, j \in DOMAIN s : i # j => s[i] # s[j]
TreeIsSet == Distinct(cache.tree_set)

(* SortedSet.add and SortedSet.remove keep the elements distinct, whatever *)
(* has become of the two dicts.                                            *)
LEMMA TreeDistinct ==
    ASSUME NEW s \in Seq(QCE), Distinct(s), NEW e \in QCE
    PROVE  /\ Distinct(TreeAdd(s, e))
           /\ e \in Elements(s) => Distinct(TreeRemove(s, e))
<1>1. CASE e \in Elements(s)
  <2> DEFINE t == TreeRemove(s, e)
  <2>1. PICK k \in 1..Len(s) :
          /\ t \in Seq(QCE)
          /\ Len(t) = Len(s) - 1
          /\ \A i \in 1..Len(t) : t[i] = IF i < k THEN s[i] ELSE s[i + 1]
    BY <1>1, TreeRemoveShape
  <2> HIDE DEF t
  <2> DEFINE from(i) == IF i < k THEN i ELSE i + 1
  <2>2. \A i \in DOMAIN t : from(i) \in DOMAIN s /\ t[i] = s[from(i)]
    BY <2>1
  <2>3. \A i, j \in DOMAIN t : i # j => from(i) # from(j)
    BY <2>1
  <2> HIDE DEF from
  <2>4. Distinct(t)
    BY <2>2, <2>3 DEF Distinct
  <2> QED
    BY <1>1, <2>4 DEF t, TreeAdd
<1>2. CASE e \notin Elements(s)
  <2> DEFINE t == TreeAdd(s, e)
  <2>1. PICK k \in 1..Len(s) + 1 :
          /\ t \in Seq(QCE)
          /\ Len(t) = Len(s) + 1
          /\ \A i \in 1..Len(t) :
                t[i] = IF i < k THEN s[i] ELSE IF i = k THEN e ELSE s[i - 1]
    BY <1>2, TreeAddShape
  <2> HIDE DEF t
  <2> DEFINE from(i) == IF i < k THEN i ELSE i - 1
  <2>2. \A i \in DOMAIN t : i # k => from(i) \in DOMAIN s /\ t[i] = s[from(i)]
    BY <2>1
  <2>3. \A i, j \in DOMAIN t : i # j /\ i # k /\ j # k => from(i) # from(j)
    BY <2>1
  <2>4. t[k] = e /\ \A i \in DOMAIN s : s[i] # e
    BY <1>2, <2>1 DEF Elements
  <2> HIDE DEF from
  <2>5. Distinct(t)
    BY <2>2, <2>3, <2>4 DEF Distinct
  <2> QED
    BY <1>2, <2>5 DEF t
<1> QED
  BY <1>1, <1>2

(* No step puts an element into the sorted set a second time, also after   *)
(* close() or an exception has left the containers out of step.            *)
LEMMA DistinctStep == TypeOK /\ TreeIsSet /\ [Next]_vars => TreeIsSet'
<1> SUFFICES ASSUME TypeOK, Distinct(cache.tree_set), [Next]_vars
             PROVE  Distinct(cache'.tree_set)
  BY DEF TreeIsSet
<1>0. CacheType(cache) /\ cache.tree_set \in Seq(QCE)
  BY DEF TypeOK, CacheType
<1>1. Distinct(<<>>)
  BY DEF Distinct
<1>2. CASE DeserializeNothing \/ InsertFails
  BY <1>1, <1>2 DEF DeserializeNothing, InsertFails, EmptyCache
<1>3. CASE InsertEntry
  <2> DEFINE e == Head(entries)
  <2>1. e \in QCE /\ ~insert_raises(cache, e) /\ cache' = insert(cache, e)
    BY <1>3 DEF InsertEntry, entry_fails, TypeOK
  <2> HIDE DEF e
  <2>2. CASE stale(cache, e)
    BY <2>1, <2>2 DEF insert
  <2>3. CASE ~stale(cache, e) /\ displaced(cache, e) = {}
    <3>1. cache'.tree_set = TreeAdd(cache.tree_set, e)
      BY <1>0, <2>1, <2>3 DEF insert, add_qce, CacheType
    <3> QED
      BY <1>0, <2>1, <3>1, TreeDistinct
  <2>4. ASSUME ~stale(cache, e), NEW old \in displaced(cache, e)
        PROVE  Distinct(cache'.tree_set)
    <3>1. old \in QCE /\ ~remove_raises(cache, old) /\ displaced(cache, e) = {old}
      BY <1>0, <2>1, <2>4 DEF displaced, insert_raises, CacheType, PartialMap
    <3>2. old \in Elements(cache.tree_set)
      BY <3>1 DEF remove_raises
    <3> DEFINE r == TreeRemove(cache.tree_set, old)
    <3>3. cache'.tree_set = TreeAdd(r, e)
      BY <1>0, <2>1, <2>4, <3>1 DEF insert, add_qce, remove_qce, CacheType
    <3>4. r \in Seq(QCE) /\ Distinct(r)
      BY <1>0, <3>1, <3>2, TreeRemoveElements, TreeDistinct
    <3> HIDE DEF r
    <3> QED
      BY <2>1, <3>3, <3>4, TreeDistinct
  <2> QED
    BY <2>2, <2>3, <2>4
<1>4. CASE TrimRemove
  <2> DEFINE q == Last(cache.tree_set)
  <2>1. q \in QCE
    BY <1>0, <1>4, ParametersAssumption DEF TrimRemove, Last
  <2> HIDE DEF q
  <2>2. /\ q \in Elements(cache.tree_set)
        /\ cache'.tree_set = TreeRemove(cache.tree_set, q)
    BY <1>0, <1>4 DEF TrimRemove, remove_raises, remove_qce, CacheType, q
  <2> QED
    BY <1>0, <2>1, <2>2, TreeDistinct
<1>5. CASE SyncPriorityMap \/ TrimRaises
  BY <1>0, <1>5 DEF SyncPriorityMap, sync_priority_map, TrimRaises, remove_partly, CacheType
<1>6. CASE ClearContainer
  <2>1. cache'.tree_set = cache.tree_set \/ cache'.tree_set = <<>>
    BY <1>0, <1>6 DEF ClearContainer, CacheType
  <2> QED
    BY <1>1, <2>1
<1> QED
  BY <1>2, <1>3, <1>4, <1>5, <1>6 DEF Next, LockHolder, DeserializeBegin, Release, vars

(* trim_cache never evicts the element of highest priority, for every      *)
(* capacity: it removes the last element of a set that holds two at least, *)
(* and the two are different because no element is in the set twice.       *)
THEOREM MainElementKept == Spec => TrimKeepsMainElement
<1>1. Init => TreeIsSet
  BY DEF Init, EmptyCache, Distinct, TreeIsSet
<1>2. ASSUME TypeOK, Distinct(cache.tree_set), [Next]_vars,
             pc = "trim", cache.tree_set # <<>>, closing' = closing
      PROVE  cache'.tree_set # <<>> /\ Head(cache'.tree_set) = Head(cache.tree_set)
  <2>0. CacheType(cache) /\ cache.tree_set \in Seq(QCE) /\ closing \in 0..4
    BY <1>2 DEF TypeOK, CacheType
  <2>1. CASE TrimRemove
    <3> DEFINE s == cache.tree_set
               t == cache'.tree_set
    <3>1. /\ Len(s) > Capacity /\ Capacity \in Nat \ {0} /\ Last(s) \in Elements(s)
          /\ t = TreeRemove(s, Last(s))
      BY <2>0, <2>1, ParametersAssumption
         DEF TrimRemove, remove_raises, remove_qce, CacheType
    <3>2. s \in Seq(QCE) /\ Distinct(s)
      BY <1>2, <2>0
    <3> HIDE DEF s, t
    <3>3. PICK k \in 1..Len(s) :
            /\ s[k] = Last(s)
            /\ t \in Seq(QCE)
            /\ Len(t) = Len(s) - 1
            /\ \A i \in 1..Len(t) : t[i] = IF i < k THEN s[i] ELSE s[i + 1]
      BY <3>1, <3>2, TreeRemoveShape
    <3>4. Len(s) \in Nat /\ Len(s) >= 2 /\ s[k] = s[Len(s)]
      BY <3>1, <3>2, <3>3 DEF Last
    <3>5. k = Len(s)
      BY <3>2, <3>4 DEF Distinct
    <3>6. 1 \in 1..Len(t) /\ t[1] = s[1]
      BY <3>3, <3>4, <3>5
    <3>7. t # <<>> /\ s # <<>> /\ Head(t) = t[1] /\ Head(s) = s[1]
      BY <3>2, <3>3, <3>4
    <3> QED
      BY <3>6, <3>7 DEF s, t
  <2>2. CASE TrimRaises
    <3>1. cache'.tree_set = cache.tree_set
      BY <2>0, <2>2 DEF TrimRaises, remove_partly, CacheType
    <3> QED
      BY <1>2, <3>1
  <2>3. CASE Release \/ UNCHANGED vars
    BY <1>2, <2>3 DEF Release, vars
  <2>4. ~ClearContainer
    BY <1>2, <2>0 DEF ClearContainer
  <2> QED
    BY <1>2, <2>1, <2>2, <2>3, <2>4 DEF Next, LockHolder, DeserializeNothing,
       DeserializeBegin, InsertEntry, InsertFails, SyncPriorityMap
<1>3. TypeOK /\ TreeIsSet /\ [Next]_vars =>
        [pc = "trim" /\ cache.tree_set # <<>> /\ closing' = closing
          => cache'.tree_set # <<>> /\ Head(cache'.tree_set) = Head(cache.tree_set)]_vars
  BY <1>2 DEF TreeIsSet
<1> QED
  BY <1>1, <1>3, DistinctStep, TypeCorrect, PTL DEF Spec, TrimKeepsMainElement
=============================================================================
