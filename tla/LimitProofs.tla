----------------------------- MODULE LimitProofs -----------------------------
(***************************************************************************)
(* Proofs about the two limits, of the play history (PlayHistory) and of   *)
(* the requests in a window (RateLimit), and about the composition of both *)
(* with Library (MCLibrary): for any number of users, tasks and callers,   *)
(* any cap and any limit.                                                  *)
(***************************************************************************)
EXTENDS MCLibrary, LibraryProofs, FiniteSetTheorems

-----------------------------------------------------------------------------
(* Finite sets of naturals *)

(* A set of naturals has a least element.                                   *)
LEMMA Least ==
    ASSUME NEW S \in SUBSET Nat, S # {}
    PROVE  \E n \in S : \A m \in S : n <= m
<1>1. PICK n \in S : \A m \in S : ~(<<m, n>> \in OpToRel(<, Nat))
  BY NatLessThanWellFounded, WFMin
<1>2. ASSUME NEW m \in S
      PROVE  n <= m
  <2>1. m \in Nat /\ n \in Nat
    OBVIOUS
  <2>2. ~(m < n)
    BY <1>1, <2>1 DEF OpToRel
  <2> QED
    BY <2>1, <2>2
<1> QED
  BY <1>2

(* Any events are finitely many.                                            *)
LEMMA EventsFinite ==
    ASSUME NEW S \in SUBSET Plays
    PROVE  IsFiniteSet(S) /\ Cardinality(S) \in Nat
<1>1. IsFiniteSet(Plays)
  BY FS_Interval, PlayHistoryAssumption DEF Plays
<1> QED
  BY <1>1, FS_Subset, FS_CardinalityType

(* Oldest takes at most n events: the number of older ones tells the events *)
(* it takes apart.                                                          *)
LEMMA OldestAtMost ==
    ASSUME NEW S \in SUBSET Plays, NEW n \in Nat
    PROVE  Cardinality(Oldest(S, n)) <= n
<1> DEFINE older(e) == {f \in S : f < e}
           T == Oldest(S, n)
           rank == [e \in T |-> Cardinality(older(e))]
<1>0. \A e \in S : e \in Nat
  BY PlayHistoryAssumption DEF Plays
<1>1. T \subseteq S /\ \A e \in S : older(e) \in SUBSET Plays
  BY DEF Oldest
<1>2. \A e \in T : Cardinality(older(e)) \in Nat /\ Cardinality(older(e)) < n
  BY <1>1, EventsFinite DEF Oldest
<1>3. rank \in [T -> 0..(n - 1)]
  BY <1>2
<1>4. ASSUME NEW a \in T, NEW b \in T, a < b
      PROVE  rank[a] < rank[b]
  <2>1. a \in Nat /\ b \in Nat /\ a \in S
    BY <1>0, <1>1
  <2>2. older(a) \subseteq older(b) /\ a \in older(b) /\ a \notin older(a)
    BY <1>1, <1>4, <2>1 DEF Plays
  <2>3. IsFiniteSet(older(b)) /\ IsFiniteSet(older(a))
    BY <1>1, EventsFinite
  <2>4. Cardinality(older(a)) <= Cardinality(older(b)) /\ Cardinality(older(a)) # Cardinality(older(b))
    BY <2>2, <2>3, FS_Subset
  <2> QED
    BY <1>2, <2>4
<1>5. ASSUME NEW a \in T, NEW b \in T, rank[a] = rank[b]
      PROVE  a = b
  <2>1. a \in Nat /\ b \in Nat
    BY <1>0, <1>1
  <2>2. ~(a < b) /\ ~(b < a)
    BY <1>2, <1>4, <1>5
  <2> QED
    BY <2>1, <2>2
<1>6. rank \in Injection(T, 0..(n - 1))
  BY <1>3, <1>5 DEF Injection, IsInjective
<1>7. IsFiniteSet(0..(n - 1)) /\ Cardinality(0..(n - 1)) = n
  BY FS_Interval
<1> QED
  BY <1>6, <1>7, FS_Injection

(* ... and leaves no more than it has to.                                   *)
LEMMA OldestLeaves ==
    ASSUME NEW S \in SUBSET Plays, NEW n \in Nat
    PROVE  /\ Cardinality(S \ Oldest(S, n)) >= Cardinality(S) - n
           /\ \/ S \ Oldest(S, n) = {}
              \/ Cardinality(S \ Oldest(S, n)) = Cardinality(S) - n
<1> DEFINE T == Oldest(S, n)
<1>1. T \in SUBSET S /\ S \ T \in SUBSET Plays /\ T \in SUBSET Plays
  BY DEF Oldest
<1>2. Cardinality(S \ T) = Cardinality(S) - Cardinality(T)
  <2>1. S \cap T = T
    BY <1>1
  <2> QED
    BY <2>1, EventsFinite, FS_Difference
<1>3. Cardinality(T) <= n /\ Cardinality(T) \in Nat /\ Cardinality(S) \in Nat
  BY <1>1, OldestAtMost, EventsFinite
<1>4. ASSUME S \ T # {}
      PROVE  Cardinality(T) >= n
  <2>1. S \ T \subseteq Nat
    BY <1>1 DEF Plays
  <2>2. PICK e \in S \ T : \A m \in S \ T : e <= m
    BY <1>4, <2>1, Least
  <2>3. {f \in S : f < e} \in SUBSET T
    BY <2>1, <2>2, <1>1 DEF Plays
  <2>4. Cardinality({f \in S : f < e}) <= Cardinality(T)
    BY <1>1, <2>3, EventsFinite, FS_Subset
  <2>5. ~(Cardinality({f \in S : f < e}) < n)
    BY <2>2 DEF Oldest
  <2>6. Cardinality({f \in S : f < e}) \in Nat
    BY <1>1, EventsFinite
  <2> QED
    BY <1>3, <2>4, <2>5, <2>6
<1> QED
  BY <1>2, <1>3, <1>4

(* What it leaves is newer than what it takes.                              *)
LEMMA LeftIsNewer ==
    ASSUME NEW S \in SUBSET Plays, NEW n \in Nat,
           NEW e \in Oldest(S, n), NEW f \in S \ Oldest(S, n)
    PROVE  f > e
<1> DEFINE older(x) == {g \in S : g < x}
<1>1. e \in Nat /\ f \in Nat /\ e # f /\ S \subseteq Nat
  BY PlayHistoryAssumption DEF Oldest, Plays
<1>2. /\ Cardinality(older(e)) < n /\ ~(Cardinality(older(f)) < n)
      /\ IsFiniteSet(older(e)) /\ Cardinality(older(e)) \in Nat /\ Cardinality(older(f)) \in Nat
  BY EventsFinite DEF Oldest
<1>3. ASSUME f < e PROVE FALSE
  <2>1. \A g \in S : g \in Nat /\ (g < f => g < e)
    BY <1>1, <1>3
  <2>2. older(f) \subseteq older(e)
    BY <2>1
  <2>3. Cardinality(older(f)) <= Cardinality(older(e))
    BY <1>2, <2>2, FS_Subset
  <2> HIDE DEF older
  <2> QED
    BY <1>2, <2>3
<1> QED
  BY <1>1, <1>3

-----------------------------------------------------------------------------
(* The play history *)

(* The plays recorded since h counted are pending plays of its user, and    *)
(* those of them that have counted since saw the plays before them.         *)
RecordedFits(h) ==
    task[h].pc \in {"select", "delete"} =>
        /\ task[h].user \in Users
        /\ h \notin since[h].recorded
        /\ since[h].recorded \subseteq Pending(task[h].user)
        /\ \A g \in since[h].recorded :
              task[g].pc \in {"select", "delete"} =>
                  since[g].recorded \subseteq since[h].recorded

(* What h is about to leave: no more than the cap, the plays recorded since *)
(* it counted and those interrupted; no less than the cap, unless somebody  *)
(* else deleted events since.                                               *)
LeavesEnough(h) ==
    LET ev == events[task[h].user]
        more == Cardinality(since[h].recorded) + unpruned[task[h].user]
    IN
    /\ task[h].pc = "select" =>
          /\ ~task[h].job => Cardinality(ev) <= Cap + task[h].excess + more
          /\ ~since[h].cut => Cardinality(ev) >= Cap + task[h].excess
    /\ task[h].pc = "delete" =>
          /\ ~task[h].job => Cardinality(ev \ task[h].victims) <= Cap + more
          /\ ~since[h].cut => Cardinality(ev \ task[h].victims) >= Cap

HistoryInv ==
    /\ HistoryTypeOK
    /\ \A h \in Tasks : /\ task[h].pc \in {"insert", "count"} => task[h].user \in Users
                        /\ task[h].pc = "next" => task[h].job
                        /\ task[h].pc = "insert" => task[h].play \in Plays /\ ~task[h].job
    /\ \A u \in Users : unpruned[u] <= deaths
    /\ \A h \in Tasks : RecordedFits(h) /\ LeavesEnough(h)
    /\ CapHolds

LEMMA FreeFits == Free \in Task /\ Free.pc = "idle" /\ Free.user = NoUser /\ ~Free.job
  BY PlayHistoryAssumption DEF Free, Task

LEMMA HistoryInitInv == HistoryInit => HistoryInv
<1> SUFFICES ASSUME HistoryInit PROVE HistoryInv
  OBVIOUS
<1>1. HistoryTypeOK
  BY FreeFits, PlayHistoryAssumption DEF HistoryInit, HistoryTypeOK, Since
<1>2. \A h \in Tasks : task[h].pc = "idle"
  BY FreeFits DEF HistoryInit
<1>3. CapHolds
  <2> SUFFICES ASSUME NEW u \in Users
               PROVE  Cardinality(events[u]) <= Cap + Cardinality(Pending(u)) + unpruned[u]
    BY DEF CapHolds
  <2>1. Pending(u) = {}
    BY <1>2 DEF Pending
  <2>2. Cardinality(events[u]) = 0 /\ Cardinality(Pending(u)) = 0 /\ unpruned[u] = 0
    BY <2>1, FS_EmptySet DEF HistoryInit
  <2> QED
    BY <2>2, PlayHistoryAssumption
<1>4. \A u \in Users : unpruned[u] <= deaths
  BY DEF HistoryInit
<1> QED
  BY <1>1, <1>2, <1>3, <1>4 DEF HistoryInv, RecordedFits, LeavesEnough

(* Numbers: sets of events and of tasks are finite.                         *)
LEMMA TasksFinite ==
    ASSUME NEW S \in SUBSET Tasks
    PROVE  IsFiniteSet(S) /\ Cardinality(S) \in Nat
  BY FS_Subset, FS_CardinalityType, PlayHistoryAssumption

LEMMA Fewer ==
    ASSUME NEW S, NEW T, S \subseteq T,
           T \in SUBSET Tasks \/ T \in SUBSET Plays
    PROVE  Cardinality(S) <= Cardinality(T)
  BY FS_Subset, TasksFinite, EventsFinite

(* Task h ends its prune, or dies: events of u go, h is no more among the   *)
(* plays recorded since another counted.  Those that counted on h have      *)
(* what h left, a history within the cap, or an interrupted play instead.   *)
LEMMA LeaveStep ==
    ASSUME HistoryInv, NEW h \in Tasks, NEW r \in Task, r.pc \in {"idle", "next"},
           r.pc = "next" => r.job,
           task' = [task EXCEPT ![h] = r],
           NEW u \in Users \cup {NoUser}, NEW dead \in SUBSET Plays,
           events' \in [Users -> SUBSET Plays],
           \A v \in Users : events'[v] = IF v = u THEN events[v] \ dead ELSE events[v],
           since' = Deleted(h, u, dead),
           begun' = begun, deaths' \in 0..MaxDeaths,
           unpruned' \in [Users -> 0..MaxDeaths],
           \A v \in Users : unpruned'[v] >= unpruned[v] /\ unpruned'[v] <= deaths',
           \A v \in Users :
               \/ h \notin Pending(v)
               \/ unpruned'[v] = unpruned[v] + 1
               \/ Cardinality(events'[v]) <= Cap
               \/ /\ task[h].pc = "delete"
                  /\ Cardinality(events'[v]) <=
                        Cap + Cardinality(since[h].recorded) + unpruned[v]
    PROVE  HistoryInv'
<1> USE DEF HistoryTypeOK
<1>0. HistoryTypeOK /\ CapHolds /\ \A g \in Tasks : RecordedFits(g) /\ LeavesEnough(g)
  BY DEF HistoryInv
<1>1. \A g \in Tasks : /\ since'[g].recorded = IF g = h THEN {} ELSE since[g].recorded \ {h}
                       /\ g # h => since'[g].cut = (since[g].cut \/ (dead # {} /\ Pruning(g, u)))
  BY <1>0 DEF Deleted, Since
<1>2. since' \in [Tasks -> Since]
  <2>1. \A g \in Tasks : since[g].recorded \in SUBSET Tasks /\ since[g].cut \in BOOLEAN
    BY <1>0 DEF Since
  <2>2. \A g \in Tasks :
           [cut |-> g # h /\ (since[g].cut \/ (dead # {} /\ Pruning(g, u))),
            recorded |-> IF g = h THEN {} ELSE since[g].recorded \ {h}] \in Since
    <3> SUFFICES ASSUME NEW g \in Tasks
                 PROVE [cut |-> g # h /\ (since[g].cut \/ (dead # {} /\ Pruning(g, u))),
                        recorded |-> IF g = h THEN {} ELSE since[g].recorded \ {h}] \in Since
      OBVIOUS
    <3>1. (g # h /\ (since[g].cut \/ (dead # {} /\ Pruning(g, u)))) \in BOOLEAN
      OBVIOUS
    <3>2. (IF g = h THEN {} ELSE since[g].recorded \ {h}) \in SUBSET Tasks
      BY <2>1
    <3> QED
      BY <3>1, <3>2 DEF Since
  <2> QED
    BY <2>2 DEF Deleted
<1>3. HistoryTypeOK'
  BY <1>0, <1>2
<1>4. \A v \in Users : Pending(v)' = Pending(v) \ {h}
  BY <1>0 DEF Pending
<1>5. \A g \in Tasks : g # h => task'[g] = task[g]
  BY <1>0
<1>6. task'[h] = r
  BY <1>0
<1>7. ASSUME NEW g \in Tasks PROVE RecordedFits(g)'
  <2>1. CASE g = h
    BY <1>6, <2>1 DEF RecordedFits
  <2>2. CASE g # h /\ task[g].pc \in {"select", "delete"}
    <3>1. /\ task'[g] = task[g]
          /\ since'[g].recorded = since[g].recorded \ {h}
          /\ task[g].user \in Users
          /\ g \notin since[g].recorded
          /\ since[g].recorded \subseteq Pending(task[g].user)
      BY <1>0, <1>1, <1>5, <2>2 DEF RecordedFits
    <3>2. since'[g].recorded \subseteq Pending(task[g].user)'
      BY <1>4, <3>1
    <3>3. ASSUME NEW x \in since'[g].recorded, task'[x].pc \in {"select", "delete"}
          PROVE  since'[x].recorded \subseteq since'[g].recorded
      <4>1. x \in since[g].recorded /\ x # h /\ x \in Tasks
        BY <3>1, <3>3 DEF Pending
      <4>2. task'[x] = task[x] /\ since'[x].recorded = since[x].recorded \ {h}
        BY <1>1, <1>5, <4>1
      <4>3. since[x].recorded \subseteq since[g].recorded
        BY <1>0, <2>2, <3>3, <4>1, <4>2 DEF RecordedFits
      <4> QED
        BY <3>1, <4>2, <4>3
    <3> QED
      BY <3>1, <3>2, <3>3 DEF RecordedFits
  <2>3. CASE g # h /\ task[g].pc \notin {"select", "delete"}
    BY <1>5, <2>3 DEF RecordedFits
  <2> QED
    BY <2>1, <2>2, <2>3
<1>8. ASSUME NEW v \in Users
      PROVE  /\ events'[v] \in SUBSET Plays /\ events[v] \in SUBSET Plays
             /\ events'[v] \subseteq events[v]
             /\ Cardinality(events'[v]) <= Cardinality(events[v])
             /\ Cardinality(events'[v]) \in Nat /\ Cardinality(events[v]) \in Nat
             /\ unpruned[v] \in Nat /\ unpruned'[v] \in Nat
  <2>1. events'[v] \in SUBSET Plays /\ events[v] \in SUBSET Plays /\ events'[v] \subseteq events[v]
    BY <1>0
  <2> QED
    BY <2>1, <1>0, Fewer, EventsFinite, PlayHistoryAssumption
<1>9. ASSUME NEW v \in Users, NEW S \in SUBSET Tasks,
             h \in S => since[h].recorded \subseteq S \/ task[h].pc # "delete",
             NEW n \in Nat, NEW kept, kept \subseteq events'[v],
             Cardinality(kept) <= n + Cap + Cardinality(S) + unpruned[v],
             h \in S => h \in Pending(v)
      PROVE  Cardinality(kept) <= n + Cap + Cardinality(S \ {h}) + unpruned'[v]
  <2>1. /\ Cardinality(kept) <= Cardinality(events'[v])
        /\ Cardinality(kept) \in Nat
    BY <1>8, <1>9, Fewer, EventsFinite
  <2>2. /\ IsFiniteSet(S) /\ Cardinality(S) \in Nat /\ Cardinality(S \ {h}) \in Nat
        /\ Cardinality(S \ {h}) = IF h \in S THEN Cardinality(S) - 1 ELSE Cardinality(S)
    BY TasksFinite, FS_RemoveElement
  <2>3. CASE h \notin S
    BY <2>1, <2>2, <2>3, <1>8, <1>9, PlayHistoryAssumption
  <2>4. CASE h \in S
    <3>1. CASE unpruned'[v] = unpruned[v] + 1
      BY <2>1, <2>2, <2>4, <3>1, <1>8, <1>9, PlayHistoryAssumption
    <3>2. CASE Cardinality(events'[v]) <= Cap
      BY <2>1, <2>2, <3>2, <1>8, PlayHistoryAssumption
    <3>3. CASE /\ task[h].pc = "delete"
               /\ Cardinality(events'[v]) <= Cap + Cardinality(since[h].recorded) + unpruned[v]
      <4>1. since[h].recorded \subseteq S \ {h}
        BY <1>0, <1>9, <2>4, <3>3 DEF RecordedFits
      <4>2. /\ Cardinality(since[h].recorded) <= Cardinality(S \ {h})
            /\ Cardinality(since[h].recorded) \in Nat
        BY <4>1, Fewer, TasksFinite
      <4> QED
        BY <2>1, <2>2, <3>3, <4>2, <1>8, PlayHistoryAssumption
    <3> QED
      BY <1>9, <2>4, <3>1, <3>2, <3>3
  <2> QED
    BY <2>3, <2>4
<1>10. CapHolds'
  <2> SUFFICES ASSUME NEW v \in Users
               PROVE  Cardinality(events'[v]) <= Cap + Cardinality(Pending(v)') + unpruned'[v]
    BY DEF CapHolds
  <2>1. Pending(v) \in SUBSET Tasks
    BY DEF Pending
  <2>2. Cardinality(events'[v]) <= 0 + Cap + Cardinality(Pending(v)) + unpruned[v]
    BY <1>0, <1>8, <2>1, TasksFinite, PlayHistoryAssumption DEF CapHolds
  <2>3. h \in Pending(v) => task[h].user = v
    BY DEF Pending
  <2>4. h \in Pending(v) => since[h].recorded \subseteq Pending(v) \/ task[h].pc # "delete"
    BY <1>0, <2>3 DEF RecordedFits
  <2>5. Cardinality(events'[v]) <= 0 + Cap + Cardinality(Pending(v) \ {h}) + unpruned'[v]
    BY <1>9, <2>1, <2>2, <2>4
  <2>6. Cardinality(Pending(v) \ {h}) \in Nat /\ Pending(v)' = Pending(v) \ {h}
    BY <1>4, <2>1, TasksFinite
  <2> QED
    BY <1>8, <2>5, <2>6, PlayHistoryAssumption
<1>11. ASSUME NEW g \in Tasks PROVE LeavesEnough(g)'
  <2> DEFINE v == task[g].user
             R == since[g].recorded
  <2>1. CASE g = h
    BY <1>6, <2>1 DEF LeavesEnough
  <2>2. CASE g # h /\ task[g].pc \in {"select", "delete"}
    <3>1. /\ v \in Users /\ R \in SUBSET Tasks /\ R \subseteq Pending(v)
          /\ task'[g] = task[g] /\ since'[g].recorded = R \ {h}
          /\ Pruning(g, v)
      BY <1>0, <1>1, <1>5, <2>2 DEF RecordedFits, Since, Pruning
    <3>2. h \in R => (since[h].recorded \subseteq R \/ task[h].pc # "delete")
      BY <1>0, <2>2 DEF RecordedFits
    <3>3. task[g].excess \in Nat
      BY <1>0, PlayHistoryAssumption DEF Task
    <3>4. ASSUME NEW n \in Nat, NEW kept, kept \subseteq events'[v],
                 Cardinality(kept) <= n + Cap + Cardinality(R) + unpruned[v]
          PROVE  Cardinality(kept) <= n + Cap + Cardinality(R \ {h}) + unpruned'[v]
      <4>1. CASE h \in R
        <5>1. h \in Pending(v)
          BY <3>1, <4>1
        <5> HIDE DEF v, R
        <5> QED
          BY <1>9, <3>1, <3>2, <3>4, <5>1
      <4>2. CASE h \notin R
        <5>1. R \ {h} = R /\ Cardinality(R) \in Nat /\ Cardinality(kept) \in Nat
          BY <1>8, <3>1, <3>4, <4>2, TasksFinite, EventsFinite
        <5>2. /\ Cardinality(R \ {h}) = Cardinality(R)
              /\ unpruned'[v] >= unpruned[v] /\ unpruned[v] \in Nat /\ unpruned'[v] \in Nat
          BY <1>8, <3>1, <5>1
        <5> HIDE DEF v, R
        <5> QED
          BY <3>4, <5>1, <5>2, PlayHistoryAssumption
      <4> QED
        BY <4>1, <4>2
    <3>5. /\ Cardinality(R) \in Nat /\ Cardinality(R \ {h}) \in Nat
          /\ Cap \in Nat
          /\ unpruned[v] \in Nat /\ unpruned'[v] \in Nat
          /\ Cardinality(events'[v]) \in Nat /\ Cardinality(events'[v]) <= Cardinality(events[v])
          /\ Cardinality(events[v]) \in Nat
      BY <1>8, <3>1, TasksFinite, PlayHistoryAssumption
    <3>7. ASSUME task[g].pc = "delete", ~task[g].job
          PROVE  Cardinality(events'[v] \ task[g].victims)
                    <= Cap + (Cardinality(R \ {h}) + unpruned'[v])
      <4>1. events'[v] \ task[g].victims \subseteq events[v] \ task[g].victims
        BY <1>8, <3>1
      <4>2. /\ Cardinality(events'[v] \ task[g].victims) <=
                  Cardinality(events[v] \ task[g].victims)
            /\ Cardinality(events'[v] \ task[g].victims) \in Nat
            /\ Cardinality(events[v] \ task[g].victims) \in Nat
        BY <1>8, <3>1, <4>1, Fewer, EventsFinite
      <4>3. Cardinality(events[v] \ task[g].victims) <= Cap + (Cardinality(R) + unpruned[v])
        BY <1>0, <3>7 DEF LeavesEnough
      <4>4. Cardinality(events'[v] \ task[g].victims) <= 0 + Cap + Cardinality(R) + unpruned[v]
        BY <3>5, <4>2, <4>3
      <4>5. Cardinality(events'[v] \ task[g].victims) <=
                  0 + Cap + Cardinality(R \ {h}) + unpruned'[v]
        BY <3>4, <4>4
      <4> QED
        BY <3>5, <4>2, <4>5
    <3>8. ASSUME ~since'[g].cut
          PROVE  ~since[g].cut /\ events'[v] = events[v]
      BY <1>1, <2>2, <3>1, <3>8
    <3> QED
      <4>1. task[g].pc = "select" /\ ~task[g].job =>
               Cardinality(events'[v]) <= Cap + task[g].excess + (Cardinality(R \ {h}) + unpruned'[v])
        <5>1. CASE task[g].pc = "select" /\ ~task[g].job
          <6>1. Cardinality(events[v]) <= Cap + task[g].excess + (Cardinality(R) + unpruned[v])
            BY <1>0, <5>1 DEF LeavesEnough
          <6>2. Cardinality(events'[v]) <= task[g].excess + Cap + Cardinality(R) + unpruned[v]
            BY <3>3, <3>5, <6>1
          <6>3. Cardinality(events'[v]) <= task[g].excess + Cap + Cardinality(R \ {h}) + unpruned'[v]
            BY <3>3, <3>4, <6>2
          <6> QED
            BY <3>3, <3>5, <6>3
        <5> QED
          BY <5>1
      <4> QED
        BY <1>0, <3>1, <3>7, <3>8, <4>1 DEF LeavesEnough
  <2>3. CASE g # h /\ task[g].pc \notin {"select", "delete"}
    BY <1>5, <2>3 DEF LeavesEnough
  <2> QED
    BY <2>1, <2>2, <2>3
<1>12. /\ \A g \in Tasks : /\ task'[g].pc \in {"insert", "count"} => task'[g].user \in Users
                           /\ task'[g].pc = "next" => task'[g].job
                           /\ task'[g].pc = "insert" => task'[g].play \in Plays /\ ~task'[g].job
       /\ \A v \in Users : unpruned'[v] <= deaths'
  BY <1>5, <1>6 DEF HistoryInv
<1> QED
  BY <1>3, <1>7, <1>10, <1>11, <1>12 DEF HistoryInv

LEMMA PrunedFits ==
    ASSUME HistoryTypeOK, NEW h \in Tasks
    PROVE  /\ Pruned(h) \in Task
           /\ Pruned(h).pc \in {"idle", "next"}
           /\ Pruned(h).pc = "next" => Pruned(h).job
<1>1. task[h] \in Task
  BY DEF HistoryTypeOK
<1> DEFINE r == [task[h] EXCEPT !.pc = "next", !.user = NoUser, !.excess = 0, !.victims = {}]
<1>2. r \in Task /\ r.pc = "next" /\ r.job = task[h].job
  <2>1. 0 \in 0..MaxPlays /\ {} \in SUBSET Plays /\ NoUser \in Users \cup {NoUser}
    BY PlayHistoryAssumption
  <2> QED
    BY <1>1, <2>1 DEF Task
<1> HIDE DEF r
<1>3. Pruned(h) = IF task[h].job THEN r ELSE Free
  BY DEF Pruned, r
<1> QED
  BY <1>2, <1>3, FreeFits

LEMMA DeleteEventsStep ==
    ASSUME HistoryInv, NEW h \in Tasks, Delete(h)
    PROVE  HistoryInv'
<1> DEFINE u == task[h].user
           dead == task[h].victims \cap events[u]
<1>0. HistoryTypeOK /\ RecordedFits(h) /\ LeavesEnough(h) /\ task[h].pc = "delete"
  BY DEF HistoryInv, Delete
<1>1. u \in Users /\ events[u] \in SUBSET Plays /\ dead \in SUBSET Plays
  BY <1>0 DEF RecordedFits, HistoryTypeOK
<1>2. /\ events' = [events EXCEPT ![u] = @ \ task[h].victims]
      /\ since' = Deleted(h, u, dead)
      /\ task' = [task EXCEPT ![h] = Pruned(h)]
      /\ UNCHANGED <<begun, deaths, unpruned>>
  BY DEF Delete
<1>3. /\ events' \in [Users -> SUBSET Plays]
      /\ \A v \in Users : events'[v] = IF v = u THEN events[v] \ dead ELSE events[v]
  BY <1>0, <1>1, <1>2 DEF HistoryTypeOK
<1>4. ASSUME NEW v \in Users, h \in Pending(v)
      PROVE  Cardinality(events'[v]) <= Cap + Cardinality(since[h].recorded) + unpruned[v]
  <2>1. v = u /\ ~task[h].job
    BY <1>4 DEF Pending
  <2>2. Cardinality(events[u] \ task[h].victims)
            <= Cap + (Cardinality(since[h].recorded) + unpruned[u])
    BY <1>0, <2>1 DEF LeavesEnough
  <2>3. events'[v] = events[u] \ task[h].victims
    BY <1>1, <1>2, <2>1, <1>0 DEF HistoryTypeOK
  <2>4. since[h].recorded \in SUBSET Tasks /\ unpruned[u] \in Nat
    BY <1>0, <1>1, PlayHistoryAssumption DEF HistoryTypeOK, Since
  <2>5. Cardinality(since[h].recorded) \in Nat
    BY <2>4, TasksFinite
  <2> HIDE DEF u
  <2> QED
    BY <2>1, <2>2, <2>3, <2>4, <2>5, PlayHistoryAssumption
<1>5. /\ \A v \in Users : unpruned'[v] >= unpruned[v] /\ unpruned'[v] <= deaths'
      /\ unpruned' \in [Users -> 0..MaxDeaths] /\ deaths' \in 0..MaxDeaths
  BY <1>0, <1>2, PlayHistoryAssumption DEF HistoryInv, HistoryTypeOK
<1> HIDE DEF u, dead
<1> QED
  BY <1>0, <1>1, <1>2, <1>3, <1>4, <1>5, PrunedFits, LeaveStep

LEMMA DieStep ==
    ASSUME HistoryInv, NEW h \in Tasks, Die(h)
    PROVE  HistoryInv'
<1> DEFINE u == task[h].user
           left == \E v \in Users : h \in Pending(v)
<1>0. HistoryTypeOK /\ \A v \in Users : unpruned[v] <= deaths
  BY DEF HistoryInv
<1>1. /\ deaths < MaxDeaths /\ deaths' = deaths + 1
      /\ unpruned' = IF left THEN [unpruned EXCEPT ![u] = @ + 1] ELSE unpruned
      /\ since' = Deleted(h, NoUser, {})
      /\ task' = [task EXCEPT ![h] = Free]
      /\ UNCHANGED <<events, begun>>
  BY DEF Die
<1>2. \A v \in Users : h \in Pending(v) => u = v /\ left
  BY DEF Pending
<1>3. \A v \in Users : unpruned[v] \in Nat /\ deaths \in Nat
  BY <1>0, PlayHistoryAssumption DEF HistoryTypeOK
<1>4. \A v \in Users : unpruned'[v] = IF left /\ v = u THEN unpruned[v] + 1 ELSE unpruned[v]
  BY <1>0, <1>1 DEF HistoryTypeOK
<1>5. /\ unpruned' \in [Users -> 0..MaxDeaths] /\ deaths' \in 0..MaxDeaths
      /\ \A v \in Users : unpruned'[v] >= unpruned[v] /\ unpruned'[v] <= deaths'
  <2>1. \A v \in Users : unpruned'[v] \in 0..MaxDeaths /\ unpruned'[v] >= unpruned[v]
                          /\ unpruned'[v] <= deaths'
    BY <1>0, <1>1, <1>3, <1>4, PlayHistoryAssumption
  <2>2. unpruned' = [v \in Users |-> unpruned'[v]]
    BY <1>0, <1>1 DEF HistoryTypeOK
  <2>3. unpruned' \in [Users -> 0..MaxDeaths]
    BY <2>1, <2>2
  <2>4. deaths' \in 0..MaxDeaths
    BY <1>0, <1>1, PlayHistoryAssumption DEF HistoryTypeOK
  <2> QED
    BY <2>1, <2>3, <2>4
<1>6. \A v \in Users : h \notin Pending(v) \/ unpruned'[v] = unpruned[v] + 1
  BY <1>2, <1>4
<1>7. /\ events' \in [Users -> SUBSET Plays]
      /\ \A v \in Users : events'[v] = IF v = NoUser THEN events[v] \ {} ELSE events[v]
  BY <1>0, <1>1 DEF HistoryTypeOK
<1> HIDE DEF u, left
<1> DEFINE dead == {}
<1>8. /\ dead \in SUBSET Plays /\ since' = Deleted(h, NoUser, dead)
      /\ NoUser \in Users \cup {NoUser}
      /\ \A v \in Users : events'[v] = IF v = NoUser THEN events[v] \ dead ELSE events[v]
  BY <1>1, <1>7
<1> HIDE DEF dead
<1>9. /\ Free \in Task /\ Free.pc \in {"idle", "next"} /\ (Free.pc = "next" => Free.job)
      /\ task' = [task EXCEPT ![h] = Free] /\ begun' = begun
      /\ events' \in [Users -> SUBSET Plays]
  BY <1>1, <1>7, FreeFits
<1> QED
  BY <1>5, <1>6, <1>8, <1>9, LeaveStep

LEMMA CountUnderStep ==
    ASSUME HistoryInv, NEW h \in Tasks, Count(h), Excess(Cardinality(events[task[h].user])) = 0
    PROVE  HistoryInv'
<1> DEFINE u == task[h].user
           dead == {}
<1>0. HistoryTypeOK /\ u \in Users
  BY DEF HistoryInv, Count
<1>1. Cardinality(events[u]) <= Cap
  <2>1. events[u] \in SUBSET Plays
    BY <1>0 DEF HistoryTypeOK
  <2>2. Cardinality(events[u]) \in Nat
    BY <2>1, EventsFinite
  <2>3. Excess(Cardinality(events[u])) = 0
    OBVIOUS
  <2> HIDE DEF u
  <2> QED
    BY <2>2, <2>3, PlayHistoryAssumption DEF Excess
<1>2. /\ task' = [task EXCEPT ![h] = Pruned(h)]
      /\ since' = Deleted(h, u, dead)
      /\ UNCHANGED <<events, begun, deaths, unpruned>>
  BY DEF Count
<1>3. /\ events' \in [Users -> SUBSET Plays]
      /\ \A v \in Users : events'[v] = IF v = u THEN events[v] \ dead ELSE events[v]
      /\ dead \in SUBSET Plays
  BY <1>0, <1>2 DEF HistoryTypeOK
<1>4. \A v \in Users : h \notin Pending(v) \/ Cardinality(events'[v]) <= Cap
  BY <1>1, <1>2 DEF Pending
<1>5. /\ \A v \in Users : unpruned'[v] >= unpruned[v] /\ unpruned'[v] <= deaths'
      /\ unpruned' \in [Users -> 0..MaxDeaths] /\ deaths' \in 0..MaxDeaths
  BY <1>0, <1>2, PlayHistoryAssumption DEF HistoryInv, HistoryTypeOK
<1> HIDE DEF u, dead
<1> QED
  BY <1>0, <1>2, <1>3, <1>4, <1>5, PrunedFits, LeaveStep

(* A step of a task that neither prunes nor has recorded a play, before and *)
(* after.                                                                   *)
LEMMA QuietTask ==
    ASSUME HistoryInv, NEW h \in Tasks, NEW r \in Task, task' = [task EXCEPT ![h] = r],
           task[h].pc \in {"idle", "next"},
           r.pc \in {"idle", "insert", "count", "next"},
           r.pc = "count" => r.job,
           r.pc \in {"insert", "count"} => r.user \in Users,
           r.pc = "insert" => r.play \in Plays /\ ~r.job,
           r.pc = "next" => r.job,
           begun' \in 0..MaxPlays, UNCHANGED <<events, deaths, unpruned, since>>
    PROVE  HistoryInv'
<1> USE DEF HistoryInv, HistoryTypeOK
<1>1. \A v \in Users : Pending(v)' = Pending(v)
  BY DEF Pending
<1>2. \A g \in Tasks : g # h => task'[g] = task[g]
  OBVIOUS
<1>3. task'[h] = r
  OBVIOUS
<1>4. ASSUME NEW g \in Tasks PROVE RecordedFits(g)'
  <2>1. CASE g = h
    BY <1>3, <2>1 DEF RecordedFits
  <2>2. CASE g # h /\ task[g].pc \in {"select", "delete"}
    <3>1. /\ task'[g] = task[g] /\ task[g].user \in Users
          /\ g \notin since[g].recorded
          /\ since[g].recorded \subseteq Pending(task[g].user)
      BY <1>2, <2>2 DEF RecordedFits
    <3>2. ASSUME NEW x \in since[g].recorded, task'[x].pc \in {"select", "delete"}
          PROVE  since[x].recorded \subseteq since[g].recorded
      <4>1. x \in Tasks /\ task'[x] = task[x]
        BY <1>2, <3>1, <3>2, <1>3 DEF Pending
      <4> QED
        BY <2>2, <3>2, <4>1 DEF RecordedFits
    <3> QED
      BY <1>1, <3>1, <3>2 DEF RecordedFits
  <2>3. CASE g # h /\ task[g].pc \notin {"select", "delete"}
    BY <1>2, <2>3 DEF RecordedFits
  <2> QED
    BY <2>1, <2>2, <2>3
<1>5. ASSUME NEW g \in Tasks PROVE LeavesEnough(g)'
  <2>1. LeavesEnough(g)
    OBVIOUS
  <2>2. CASE g = h
    BY <1>3, <2>2 DEF LeavesEnough
  <2>3. CASE g # h
    BY <1>2, <2>1, <2>3 DEF LeavesEnough
  <2> QED
    BY <2>2, <2>3
<1>6. CapHolds'
  BY <1>1 DEF CapHolds
<1>7. HistoryTypeOK'
  OBVIOUS
<1>8. \A g \in Tasks : /\ task'[g].pc \in {"insert", "count"} => task'[g].user \in Users
                       /\ task'[g].pc = "next" => task'[g].job
                       /\ task'[g].pc = "insert" => task'[g].play \in Plays /\ ~task'[g].job
  BY <1>2, <1>3
<1> QED
  BY <1>4, <1>5, <1>6, <1>7, <1>8

LEMMA HistoryQuietStep ==
    ASSUME HistoryInv, NEW h \in Tasks,
           (\E u \in Users : RecordBegin(h, u)) \/ PruneAll(h) \/ NextUser(h)
    PROVE  HistoryInv'
<1>0. task \in [Tasks -> Task] /\ begun \in 0..MaxPlays
  BY DEF HistoryInv, HistoryTypeOK
<1>1. ASSUME NEW u \in Users, RecordBegin(h, u)
      PROVE  HistoryInv'
  <2> DEFINE r == [Free EXCEPT !.pc = "insert", !.user = u, !.play = begun + 1]
  <2>0. begun < MaxPlays /\ begun' = begun + 1 /\ MaxPlays \in Nat
    BY <1>1, PlayHistoryAssumption DEF RecordBegin
  <2>1. begun + 1 \in 0..MaxPlays /\ begun + 1 \in Plays
    BY <1>0, <2>0 DEF Plays
  <2>2. r \in Task /\ r.pc = "insert" /\ r.user = u /\ r.play = begun + 1 /\ ~r.job
    BY <2>1, FreeFits DEF Task
  <2> HIDE DEF r
  <2>3. task' = [task EXCEPT ![h] = r]
    BY <1>1 DEF RecordBegin, r
  <2> QED
    BY <1>1, <2>1, <2>2, <2>3, QuietTask DEF RecordBegin
<1>2. CASE PruneAll(h)
  <2> DEFINE r == [Free EXCEPT !.pc = "next", !.job = TRUE, !.todo = OverCap]
  <2>1. OverCap \in SUBSET Users
    BY DEF OverCap
  <2>2. r \in Task /\ r.pc = "next" /\ r.job
    BY <2>1, FreeFits DEF Task
  <2> HIDE DEF r
  <2>3. task' = [task EXCEPT ![h] = r]
    BY <1>2 DEF PruneAll, r
  <2> QED
    BY <1>0, <1>2, <2>2, <2>3, QuietTask DEF PruneAll
<1>3. CASE NextUser(h)
  <2>0. task[h].pc = "next" /\ task[h].job
    BY <1>3 DEF NextUser, HistoryInv
  <2>1. CASE task' = [task EXCEPT ![h] = Free]
    BY <1>0, <1>3, <2>0, <2>1, FreeFits, QuietTask DEF NextUser
  <2>2. ASSUME NEW u \in task[h].todo,
               task' = [task EXCEPT ![h].pc = "count", ![h].user = u, ![h].todo = @ \ {u}]
        PROVE  HistoryInv'
    <3> DEFINE r == [task[h] EXCEPT !.pc = "count", !.user = u, !.todo = @ \ {u}]
    <3>1. u \in Users /\ task[h].todo \ {u} \in SUBSET Users /\ task[h] \in Task
      BY <1>0 DEF Task
    <3>2. r \in Task /\ r.pc = "count" /\ r.user = u /\ r.job = task[h].job
      BY <3>1 DEF Task
    <3>3. task' = [task EXCEPT ![h] = r]
      BY <1>0, <2>2
    <3> HIDE DEF r
    <3> QED
      BY <1>0, <1>3, <2>0, <3>1, <3>2, <3>3, QuietTask DEF NextUser
  <2> QED
    BY <1>3, <2>1, <2>2 DEF NextUser
<1> QED
  BY <1>1, <1>2, <1>3

(* One more event and one more play that has yet to prune; those that       *)
(* counted before know of it.                                               *)
LEMMA RecordStep ==
    ASSUME HistoryInv, NEW h \in Tasks, RecordCommit(h)
    PROVE  HistoryInv'
<1> DEFINE u == task[h].user
           new == [task[h] EXCEPT !.pc = "count", !.play = 0]
<1>0. /\ HistoryTypeOK /\ CapHolds /\ u \in Users /\ task[h].pc = "insert"
      /\ \A g \in Tasks : RecordedFits(g) /\ LeavesEnough(g)
  BY DEF HistoryInv, RecordCommit
<1>1. /\ events' = [events EXCEPT ![u] = @ \cup {task[h].play}]
      /\ task' = [task EXCEPT ![h] = new]
      /\ since' = [g \in Tasks |->
                      IF Pruning(g, u) THEN [since[g] EXCEPT !.recorded = @ \cup {h}]
                      ELSE since[g]]
      /\ UNCHANGED <<begun, deaths, unpruned>>
  BY <1>0 DEF RecordCommit, HistoryTypeOK
<1>2. /\ task[h] \in Task
      /\ new \in Task /\ new.pc = "count" /\ new.user = u /\ new.job = task[h].job
  <2>1. 0 \in 0..MaxPlays /\ task[h] \in Task
    BY <1>0, PlayHistoryAssumption DEF HistoryTypeOK
  <2> QED
    BY <2>1 DEF Task
<1>3. /\ \A v \in Users : h \notin Pending(v)
      /\ \A v \in Users : Pending(v)' = IF v = u THEN Pending(v) \cup {h} ELSE Pending(v)
  <2>1. ~task[h].job
    BY <1>0 DEF HistoryInv
  <2> QED
    BY <1>0, <1>1, <1>2, <2>1 DEF Pending, HistoryTypeOK
<1>4. /\ \A g \in Tasks : g # h => task'[g] = task[g]
      /\ task'[h] = new
  BY <1>0, <1>1 DEF HistoryTypeOK
<1>5. \A g \in Tasks :
          /\ since[g] \in Since
          /\ since'[g].cut = since[g].cut
          /\ since'[g].recorded = IF Pruning(g, u) THEN since[g].recorded \cup {h}
                                  ELSE since[g].recorded
          /\ since'[g] \in Since
  BY <1>0, <1>1 DEF HistoryTypeOK, Since
<1>6. since' \in [Tasks -> Since]
  BY <1>1, <1>5
<1>7. /\ \A v \in Users : v # u => events'[v] = events[v]
      /\ events'[u] = events[u] \cup {task[h].play}
      /\ events' \in [Users -> SUBSET Plays]
      /\ events[u] \in SUBSET Plays
  BY <1>0, <1>1 DEF HistoryInv, HistoryTypeOK
<1>8. ASSUME NEW dead
      PROVE  /\ Cardinality(events'[u] \ dead) <= Cardinality(events[u] \ dead) + 1
             /\ Cardinality(events'[u] \ dead) >= Cardinality(events[u] \ dead)
             /\ Cardinality(events[u] \ dead) \in Nat
             /\ Cardinality(events'[u] \ dead) \in Nat
  <2>1. /\ events[u] \ dead \in SUBSET Plays /\ events'[u] \ dead \in SUBSET Plays
        /\ events'[u] \in SUBSET Plays
    BY <1>0, <1>7
  <2>2. /\ events[u] \ dead \subseteq events'[u] \ dead
        /\ events'[u] \ dead \subseteq (events[u] \ dead) \cup {task[h].play}
    BY <1>7
  <2>3. /\ IsFiniteSet((events[u] \ dead) \cup {task[h].play})
        /\ Cardinality((events[u] \ dead) \cup {task[h].play}) <= Cardinality(events[u] \ dead) + 1
    <3> DEFINE A == events[u] \ dead
               p == task[h].play
    <3>1. IsFiniteSet(A) /\ Cardinality(A) \in Nat
      BY <2>1, EventsFinite
    <3> HIDE DEF A, p
    <3>2. /\ IsFiniteSet(A \cup {p})
          /\ \/ Cardinality(A \cup {p}) = Cardinality(A)
             \/ Cardinality(A \cup {p}) = Cardinality(A) + 1
      BY <3>1, FS_AddElement
    <3>3. IsFiniteSet(A \cup {p}) /\ Cardinality(A \cup {p}) <= Cardinality(A) + 1
      BY <3>1, <3>2
    <3> QED
      BY <3>3 DEF A, p
  <2>4. /\ Cardinality(events'[u] \ dead) <= Cardinality((events[u] \ dead) \cup {task[h].play})
        /\ Cardinality((events[u] \ dead) \cup {task[h].play}) \in Nat
    BY <2>2, <2>3, FS_Subset, FS_CardinalityType
  <2>5. /\ Cardinality(events[u] \ dead) <= Cardinality(events'[u] \ dead)
        /\ Cardinality(events[u] \ dead) \in Nat /\ Cardinality(events'[u] \ dead) \in Nat
    BY <2>1, <2>2, Fewer, EventsFinite
  <2> QED
    BY <2>3, <2>4, <2>5
<1>9. \A dead : dead = {} => events'[u] \ dead = events'[u] /\ events[u] \ dead = events[u]
  OBVIOUS
<1>10. /\ Cardinality(events'[u]) <= Cardinality(events[u]) + 1
       /\ Cardinality(events'[u]) >= Cardinality(events[u])
       /\ Cardinality(events[u]) \in Nat /\ Cardinality(events'[u]) \in Nat
  BY <1>8, <1>9
<1>11. ASSUME NEW S \in SUBSET Tasks, h \notin S
       PROVE  Cardinality(S \cup {h}) = Cardinality(S) + 1 /\ Cardinality(S) \in Nat
  BY <1>11, TasksFinite, FS_AddElement
<1>12. HistoryTypeOK'
  BY <1>0, <1>1, <1>2, <1>6, <1>7 DEF HistoryTypeOK
<1>13. CapHolds'
  <2> SUFFICES ASSUME NEW v \in Users
               PROVE  Cardinality(events'[v]) <= Cap + Cardinality(Pending(v)') + unpruned'[v]
    BY DEF CapHolds
  <2>1. Cardinality(events[v]) <= Cap + Cardinality(Pending(v)) + unpruned[v]
    BY <1>0 DEF CapHolds
  <2>2. CASE v # u
    BY <1>1, <1>3, <1>7, <2>1, <2>2
  <2>3. CASE v = u
    <3>1. Pending(v) \in SUBSET Tasks /\ h \notin Pending(v)
      BY <1>0, <1>3 DEF Pending
    <3>2. /\ Cardinality(Pending(v)') = Cardinality(Pending(v)) + 1
          /\ Cardinality(Pending(v)) \in Nat
      <4>1. Pending(v)' = Pending(v) \cup {h}
        BY <1>3, <2>3
      <4>2. /\ Cardinality(Pending(v) \cup {h}) = Cardinality(Pending(v)) + 1
            /\ Cardinality(Pending(v)) \in Nat
        BY <1>11, <3>1
      <4> QED
        BY <4>1, <4>2
    <3>3. unpruned[v] \in Nat /\ unpruned' = unpruned
      BY <1>0, <1>1, PlayHistoryAssumption DEF HistoryTypeOK
    <3>4. /\ Cardinality(events'[v]) <= Cardinality(events[v]) + 1
          /\ Cardinality(events[v]) \in Nat /\ Cardinality(events'[v]) \in Nat
      BY <1>10, <2>3
    <3> HIDE DEF u
    <3> QED
      BY <2>1, <3>2, <3>3, <3>4, PlayHistoryAssumption
  <2> QED
    BY <2>2, <2>3
<1>14. ASSUME NEW g \in Tasks PROVE RecordedFits(g)'
  <2>1. CASE g = h
    BY <1>2, <1>4, <2>1 DEF RecordedFits
  <2>2. CASE g # h /\ task[g].pc \in {"select", "delete"}
    <3> DEFINE v == task[g].user
    <3>1. /\ task'[g] = task[g] /\ v \in Users
          /\ g \notin since[g].recorded
          /\ since[g].recorded \subseteq Pending(v)
          /\ Pruning(g, u) <=> v = u
      BY <1>0, <1>4, <2>2 DEF RecordedFits, Pruning
    <3>2. g \notin since'[g].recorded /\ since'[g].recorded \subseteq Pending(v)'
      BY <1>3, <1>5, <2>2, <3>1
    <3>3. ASSUME NEW x \in since'[g].recorded, task'[x].pc \in {"select", "delete"}
          PROVE  since'[x].recorded \subseteq since'[g].recorded
      <4>1. x # h
        BY <1>2, <1>4, <3>3
      <4>2. x \in since[g].recorded /\ x \in Tasks /\ task[x].user = v
        BY <1>5, <3>1, <3>3, <4>1 DEF Pending
      <4>3. task[x].pc \in {"select", "delete"}
        BY <1>4, <3>3, <4>1, <4>2
      <4>4. since[x].recorded \subseteq since[g].recorded
        BY <1>0, <2>2, <4>2, <4>3 DEF RecordedFits
      <4>5. Pruning(x, u) <=> v = u
        BY <4>2, <4>3 DEF Pruning
      <4> QED
        BY <1>5, <3>1, <4>2, <4>4, <4>5
    <3> QED
      BY <3>1, <3>2, <3>3 DEF RecordedFits
  <2>3. CASE g # h /\ task[g].pc \notin {"select", "delete"}
    BY <1>4, <2>3 DEF RecordedFits
  <2> QED
    BY <2>1, <2>2, <2>3
<1>15. ASSUME NEW g \in Tasks PROVE LeavesEnough(g)'
  <2>0. LeavesEnough(g) /\ unpruned' = unpruned
    BY <1>0, <1>1
  <2>1. CASE g = h
    BY <1>2, <1>4, <2>1 DEF LeavesEnough
  <2>2. CASE g # h /\ task[g].pc \notin {"select", "delete"}
    BY <1>4, <2>2 DEF LeavesEnough
  <2>3. CASE g # h /\ task[g].pc \in {"select", "delete"} /\ task[g].user # u
    <3>1. /\ task'[g] = task[g] /\ task[g].user \in Users
          /\ since'[g].recorded = since[g].recorded /\ since'[g].cut = since[g].cut
          /\ events'[task[g].user] = events[task[g].user]
      BY <1>0, <1>4, <1>5, <1>7, <2>3 DEF RecordedFits, Pruning
    <3> QED
      BY <2>0, <3>1 DEF LeavesEnough
  <2>4. CASE g # h /\ task[g].pc \in {"select", "delete"} /\ task[g].user = u
    <3> DEFINE R == since[g].recorded
    <3>1. /\ task'[g] = task[g] /\ task[g].user = u
          /\ since'[g].recorded = R \cup {h} /\ since'[g].cut = since[g].cut
      BY <1>4, <1>5, <2>4 DEF Pruning
    <3>2. R \in SUBSET Tasks /\ h \notin R
      BY <1>0, <1>3, <1>5, <2>4 DEF RecordedFits, Since
    <3>3. Cardinality(R \cup {h}) = Cardinality(R) + 1 /\ Cardinality(R) \in Nat
      BY <1>11, <3>2
    <3>4. unpruned[u] \in Nat /\ task[g].excess \in Nat
      BY <1>0, PlayHistoryAssumption DEF HistoryTypeOK, Task
    <3> HIDE DEF u, R
    <3>5. ASSUME task[g].pc = "select"
          PROVE  /\ ~task[g].job => Cardinality(events'[u]) <=
                       Cap + task[g].excess + (Cardinality(R \cup {h}) + unpruned[u])
                 /\ ~since[g].cut => Cardinality(events'[u]) >= Cap + task[g].excess
      <4>1. /\ ~task[g].job => Cardinality(events[u]) <=
                       Cap + task[g].excess + (Cardinality(R) + unpruned[u])
            /\ ~since[g].cut => Cardinality(events[u]) >= Cap + task[g].excess
        BY <2>0, <3>1, <3>5 DEF LeavesEnough, R
      <4> QED
        BY <1>10, <3>3, <3>4, <4>1, PlayHistoryAssumption
    <3>6. ASSUME task[g].pc = "delete"
          PROVE  /\ ~task[g].job => Cardinality(events'[u] \ task[g].victims) <=
                       Cap + (Cardinality(R \cup {h}) + unpruned[u])
                 /\ ~since[g].cut => Cardinality(events'[u] \ task[g].victims) >= Cap
      <4>1. /\ ~task[g].job => Cardinality(events[u] \ task[g].victims) <=
                       Cap + (Cardinality(R) + unpruned[u])
            /\ ~since[g].cut => Cardinality(events[u] \ task[g].victims) >= Cap
        BY <2>0, <3>1, <3>6 DEF LeavesEnough, R
      <4>2. /\ Cardinality(events'[u] \ task[g].victims) <=
                    Cardinality(events[u] \ task[g].victims) + 1
            /\ Cardinality(events'[u] \ task[g].victims) >=
                    Cardinality(events[u] \ task[g].victims)
            /\ Cardinality(events[u] \ task[g].victims) \in Nat
            /\ Cardinality(events'[u] \ task[g].victims) \in Nat
        BY <1>8
      <4> QED
        BY <3>3, <3>4, <4>1, <4>2, PlayHistoryAssumption
    <3> QED
      BY <2>0, <3>1, <3>5, <3>6 DEF LeavesEnough
  <2> QED
    BY <2>1, <2>2, <2>3, <2>4
<1>16. /\ \A g \in Tasks : /\ task'[g].pc \in {"insert", "count"} => task'[g].user \in Users
                           /\ task'[g].pc = "next" => task'[g].job
                           /\ task'[g].pc = "insert" => task'[g].play \in Plays /\ ~task'[g].job
       /\ \A v \in Users : unpruned'[v] <= deaths'
  BY <1>0, <1>1, <1>2, <1>4 DEF HistoryInv
<1>17. \A g \in Tasks : RecordedFits(g)' /\ LeavesEnough(g)'
  BY <1>14, <1>15
<1> HIDE DEF u, new
<1> QED
  BY <1>12, <1>13, <1>16, <1>17 DEF HistoryInv

(* A task goes on in its prune, from the count to the DELETE.               *)
LEMMA PruneMove ==
    ASSUME HistoryInv, NEW h \in Tasks, NEW r \in Task, task' = [task EXCEPT ![h] = r],
           task[h].pc \in {"count", "select"}, r.pc \in {"select", "delete"},
           r.user = task[h].user, r.job = task[h].job, task[h].user \in Users,
           \/ since' = [since EXCEPT ![h] = [cut |-> FALSE, recorded |-> {}]]
           \/ since' = since /\ task[h].pc = "select",
           UNCHANGED <<events, begun, deaths, unpruned>>,
           LeavesEnough(h)'
    PROVE  HistoryInv'
<1>0. HistoryTypeOK /\ CapHolds /\ \A g \in Tasks : RecordedFits(g) /\ LeavesEnough(g)
  BY DEF HistoryInv
<1>1. /\ \A g \in Tasks : g # h => task'[g] = task[g] /\ since'[g] = since[g]
      /\ task'[h] = r
      /\ since'[h] = [cut |-> FALSE, recorded |-> {}] \/ (since'[h] = since[h] /\ task[h].pc = "select")
  BY <1>0 DEF HistoryTypeOK
<1>2. [cut |-> FALSE, recorded |-> {}] \in Since
  BY DEF Since
<1>3. HistoryTypeOK'
  BY <1>0, <1>2 DEF HistoryTypeOK
<1>4. \A v \in Users : Pending(v)' = Pending(v)
  BY <1>1 DEF Pending
<1>5. CapHolds'
  BY <1>0, <1>4 DEF CapHolds
<1>6. ASSUME NEW g \in Tasks PROVE RecordedFits(g)'
  <2>1. CASE g = h
    <3>1. CASE since'[h] = [cut |-> FALSE, recorded |-> {}]
      BY <1>1, <2>1, <3>1 DEF RecordedFits
    <3>2. CASE since'[h] = since[h] /\ task[h].pc = "select"
      <4>1. /\ h \notin since[h].recorded
            /\ since[h].recorded \subseteq Pending(task[h].user)
        BY <1>0, <3>2 DEF RecordedFits
      <4>2. ASSUME NEW x \in since[h].recorded, task'[x].pc \in {"select", "delete"}
            PROVE  since'[x].recorded \subseteq since[h].recorded
        <5>1. x # h /\ x \in Tasks
          BY <4>1 DEF Pending
        <5> QED
          BY <1>0, <1>1, <3>2, <4>2, <5>1 DEF RecordedFits
      <4> QED
        BY <1>1, <1>4, <2>1, <3>2, <4>1, <4>2 DEF RecordedFits
    <3> QED
      BY <1>1, <3>1, <3>2
  <2>2. CASE g # h /\ task[g].pc \in {"select", "delete"}
    <3>1. /\ task'[g] = task[g] /\ task[g].user \in Users /\ since'[g] = since[g]
          /\ g \notin since[g].recorded
          /\ since[g].recorded \subseteq Pending(task[g].user)
      BY <1>0, <1>1, <2>2 DEF RecordedFits
    <3>2. ASSUME NEW x \in since[g].recorded, task'[x].pc \in {"select", "delete"}
          PROVE  since'[x].recorded \subseteq since[g].recorded
      <4>1. x \in Tasks
        BY <3>1 DEF Pending
      <4>2. CASE since'[x].recorded = {}
        BY <4>2
      <4>3. CASE task[x].pc \in {"select", "delete"} /\ since'[x] = since[x]
        BY <1>0, <2>2, <4>3 DEF RecordedFits
      <4> QED
        BY <1>1, <3>2, <4>1, <4>2, <4>3
    <3> QED
      BY <1>4, <3>1, <3>2 DEF RecordedFits
  <2>3. CASE g # h /\ task[g].pc \notin {"select", "delete"}
    BY <1>1, <2>3 DEF RecordedFits
  <2> QED
    BY <2>1, <2>2, <2>3
<1>7. ASSUME NEW g \in Tasks PROVE LeavesEnough(g)'
  <2>1. CASE g # h
    BY <1>0, <1>1, <2>1 DEF LeavesEnough
  <2> QED
    BY <2>1
<1>8. /\ \A g \in Tasks : /\ task'[g].pc \in {"insert", "count"} => task'[g].user \in Users
                          /\ task'[g].pc = "next" => task'[g].job
                          /\ task'[g].pc = "insert" => task'[g].play \in Plays /\ ~task'[g].job
      /\ \A v \in Users : unpruned'[v] <= deaths'
  BY <1>1 DEF HistoryInv
<1>9. \A g \in Tasks : RecordedFits(g)' /\ LeavesEnough(g)'
  BY <1>6, <1>7
<1> QED
  BY <1>3, <1>5, <1>8, <1>9 DEF HistoryInv

LEMMA CountOverStep ==
    ASSUME HistoryInv, NEW h \in Tasks, Count(h), Excess(Cardinality(events[task[h].user])) # 0
    PROVE  HistoryInv'
<1> DEFINE u == task[h].user
           total == Cardinality(events[u])
           r == [task[h] EXCEPT !.pc = "select", !.excess = Excess(total)]
<1>0. HistoryTypeOK /\ u \in Users /\ task[h].pc = "count" /\ task[h] \in Task
  BY DEF HistoryInv, Count, HistoryTypeOK
<1>1. events[u] \in SUBSET Plays /\ unpruned[u] \in Nat
  BY <1>0, PlayHistoryAssumption DEF HistoryTypeOK
<1>2. total \in Nat /\ total <= MaxPlays
  <2>1. IsFiniteSet(Plays) /\ Cardinality(Plays) = MaxPlays
    BY FS_Interval, PlayHistoryAssumption DEF Plays
  <2> QED
    BY <1>1, <2>1, EventsFinite, FS_Subset
<1>3. Excess(total) \in 0..MaxPlays /\ total = Cap + Excess(total)
  <2>1. Excess(total) # 0
    OBVIOUS
  <2> HIDE DEF total
  <2> QED
    BY <1>2, <2>1, PlayHistoryAssumption DEF Excess
<1>4. /\ r \in Task /\ r.pc = "select" /\ r.user = u /\ r.job = task[h].job
      /\ r.excess = Excess(total)
  <2> HIDE DEF total
  <2> QED
    BY <1>0, <1>3 DEF Task
<1>5. /\ task' = [task EXCEPT ![h] = r]
      /\ since' = [since EXCEPT ![h] = [cut |-> FALSE, recorded |-> {}]]
      /\ UNCHANGED <<events, begun, deaths, unpruned>>
  <2>1. Excess(total) # 0
    OBVIOUS
  <2> QED
    BY <1>0, <2>1 DEF Count, HistoryTypeOK
<1>6. task'[h] = r /\ since'[h].recorded = {} /\ events' = events /\ unpruned' = unpruned
  <2> HIDE DEF r
  <2> QED
    BY <1>0, <1>5 DEF HistoryTypeOK
<1>7. LeavesEnough(h)'
  <2>1. Cardinality({}) = 0
    BY FS_EmptySet
  <2>2. total <= Cap + r.excess + (0 + unpruned[u]) /\ total >= Cap + r.excess
    <3> HIDE DEF total, r, u
    <3> QED
      BY <1>1, <1>2, <1>3, <1>4, PlayHistoryAssumption
  <2>3. /\ task'[h].pc = "select" /\ task'[h].excess = r.excess
        /\ Cardinality(events'[task'[h].user]) = total
        /\ unpruned'[task'[h].user] = unpruned[u] /\ Cardinality(since'[h].recorded) = 0
    BY <1>4, <1>6, <2>1
  <2> HIDE DEF total, r, u
  <2> QED
    BY <2>2, <2>3 DEF LeavesEnough
<1> HIDE DEF r
<1> QED
  BY <1>0, <1>4, <1>5, <1>7, PruneMove

LEMMA SelectStep ==
    ASSUME HistoryInv, NEW h \in Tasks, Select(h)
    PROVE  HistoryInv'
<1> DEFINE u == task[h].user
           n == task[h].excess
           gone == Oldest(events[u], n)
           r == [task[h] EXCEPT !.pc = "delete", !.victims = gone]
<1>0. /\ HistoryTypeOK /\ RecordedFits(h) /\ LeavesEnough(h)
      /\ task[h].pc = "select" /\ task[h] \in Task
  BY DEF HistoryInv, Select, HistoryTypeOK
<1>1. /\ u \in Users /\ events[u] \in SUBSET Plays /\ unpruned[u] \in Nat
      /\ n \in Nat /\ since[h].recorded \in SUBSET Tasks
  BY <1>0, PlayHistoryAssumption DEF RecordedFits, HistoryTypeOK, Task, Since
<1>2. gone \in SUBSET Plays
  BY <1>1 DEF Oldest
<1>3. /\ r \in Task /\ r.pc = "delete" /\ r.user = u /\ r.job = task[h].job
      /\ r.victims = gone
  <2> HIDE DEF gone
  <2> QED
    BY <1>0, <1>2 DEF Task
<1>4. /\ task' = [task EXCEPT ![h] = r] /\ since' = since
      /\ UNCHANGED <<events, begun, deaths, unpruned>>
  BY <1>0 DEF Select, HistoryTypeOK
<1>5. task'[h] = r /\ since'[h] = since[h] /\ events' = events /\ unpruned' = unpruned
  <2> HIDE DEF r
  <2> QED
    BY <1>0, <1>4 DEF HistoryTypeOK
<1>6. LeavesEnough(h)'
  <2> DEFINE more == Cardinality(since[h].recorded) + unpruned[u]
             ev == Cardinality(events[u])
             rest == Cardinality(events[u] \ gone)
  <2>1. /\ ~task[h].job => ev <= Cap + n + more
        /\ ~since[h].cut => ev >= Cap + n
    BY <1>0 DEF LeavesEnough
  <2>2. more \in Nat /\ ev \in Nat /\ n \in Nat /\ Cap \in Nat
    BY <1>1, TasksFinite, EventsFinite, PlayHistoryAssumption
  <2>3. rest >= ev - n /\ (rest = 0 \/ rest = ev - n)
    BY <1>1, OldestLeaves, FS_EmptySet
  <2>4. /\ ~task[h].job => rest <= Cap + more
        /\ ~since[h].cut => rest >= Cap
    <3> HIDE DEF more, ev, rest, n
    <3> QED
      BY <2>1, <2>2, <2>3
  <2>5. /\ task'[h].pc = "delete" /\ task'[h].job = task[h].job
        /\ since'[h].cut = since[h].cut
        /\ Cardinality(events'[task'[h].user] \ task'[h].victims) = rest
        /\ Cardinality(since'[h].recorded) + unpruned'[task'[h].user] = more
    BY <1>3, <1>5
  <2> HIDE DEF more, rest, r, u, n
  <2> QED
    BY <2>4, <2>5 DEF LeavesEnough
<1> HIDE DEF r
<1> QED
  BY <1>0, <1>1, <1>3, <1>4, <1>6, PruneMove

LEMMA RemoveEventsStep ==
    ASSUME HistoryInv, NEW u \in Users, NEW dead \in SUBSET events[u], RemoveEvents(u, dead)
    PROVE  HistoryInv'
<1>0. HistoryTypeOK /\ CapHolds /\ \A g \in Tasks : RecordedFits(g) /\ LeavesEnough(g)
  BY DEF HistoryInv
<1>1. /\ events' = [events EXCEPT ![u] = @ \ dead]
      /\ since' = [g \in Tasks |->
                      IF Pruning(g, u) THEN [since[g] EXCEPT !.cut = TRUE] ELSE since[g]]
      /\ UNCHANGED <<begun, task, deaths, unpruned>>
  BY DEF RemoveEvents
<1>2. \A g \in Tasks : /\ since[g] \in Since /\ since'[g] \in Since
                       /\ since'[g].recorded = since[g].recorded
                       /\ ~Pruning(g, u) => since'[g].cut = since[g].cut
                       /\ Pruning(g, u) => since'[g].cut
  <2> SUFFICES ASSUME NEW g \in Tasks
               PROVE  /\ since[g] \in Since /\ since'[g] \in Since
                      /\ since'[g].recorded = since[g].recorded
                      /\ ~Pruning(g, u) => since'[g].cut = since[g].cut
                      /\ Pruning(g, u) => since'[g].cut
    OBVIOUS
  <2>1. since[g] \in Since
    BY <1>0 DEF HistoryTypeOK
  <2>2. CASE Pruning(g, u)
    <3>1. since'[g] = [since[g] EXCEPT !.cut = TRUE]
      BY <1>1, <2>2
    <3> QED
      BY <2>1, <2>2, <3>1 DEF Since
  <2>3. CASE ~Pruning(g, u)
    BY <1>1, <2>1, <2>3
  <2> QED
    BY <2>2, <2>3
<1>3. since' \in [Tasks -> Since]
  BY <1>1, <1>2
<1>4. /\ \A v \in Users : /\ events'[v] \subseteq events[v]
                          /\ events[v] \in SUBSET Plays /\ events'[v] \in SUBSET Plays
                          /\ v # u => events'[v] = events[v]
      /\ events' \in [Users -> SUBSET Plays]
  BY <1>0, <1>1 DEF HistoryTypeOK
<1>5. HistoryTypeOK'
  BY <1>0, <1>1, <1>3, <1>4 DEF HistoryTypeOK
<1>6. ASSUME NEW v \in Users, NEW gone
      PROVE  /\ Cardinality(events'[v] \ gone) <= Cardinality(events[v] \ gone)
             /\ Cardinality(events'[v] \ gone) \in Nat /\ Cardinality(events[v] \ gone) \in Nat
             /\ unpruned[v] \in Nat
  <2>1. /\ events'[v] \ gone \subseteq events[v] \ gone
        /\ events[v] \ gone \in SUBSET Plays /\ events'[v] \ gone \in SUBSET Plays
    <3>1. /\ events'[v] \subseteq events[v]
          /\ events[v] \in SUBSET Plays /\ events'[v] \in SUBSET Plays
      BY <1>4
    <3> QED
      BY <3>1
  <2> QED
    BY <1>0, <2>1, Fewer, EventsFinite, PlayHistoryAssumption DEF HistoryTypeOK
<1>7. ASSUME NEW v \in Users
      PROVE  /\ Cardinality(events'[v]) <= Cardinality(events[v])
             /\ Cardinality(events'[v]) \in Nat /\ Cardinality(events[v]) \in Nat
  <2>1. events'[v] \ {} = events'[v] /\ events[v] \ {} = events[v]
    OBVIOUS
  <2> QED
    BY <1>6, <2>1
<1>8. ASSUME NEW S \in SUBSET Tasks
      PROVE  Cardinality(S) \in Nat
  BY TasksFinite
<1>9. \A v \in Users : Pending(v)' = Pending(v) /\ Pending(v) \in SUBSET Tasks
  BY <1>1 DEF Pending
<1>10. CapHolds'
  <2> SUFFICES ASSUME NEW v \in Users
               PROVE  Cardinality(events'[v]) <= Cap + Cardinality(Pending(v)') + unpruned'[v]
    BY DEF CapHolds
  <2>1. Cardinality(events[v]) <= Cap + Cardinality(Pending(v)) + unpruned[v]
    BY <1>0 DEF CapHolds
  <2>2. Cardinality(Pending(v)) \in Nat /\ unpruned'[v] = unpruned[v] /\ unpruned[v] \in Nat
    BY <1>1, <1>6, <1>8, <1>9
  <2> QED
    BY <1>7, <1>9, <2>1, <2>2, PlayHistoryAssumption
<1>11. ASSUME NEW g \in Tasks PROVE RecordedFits(g)'
  <2>1. RecordedFits(g)
    BY <1>0
  <2>2. CASE task[g].pc \in {"select", "delete"}
    <3>1. \A x \in since[g].recorded : x \in Tasks /\ since'[x].recorded = since[x].recorded
      BY <1>2, <2>1, <2>2 DEF RecordedFits, Pending
    <3> QED
      BY <1>1, <1>2, <1>9, <2>1, <2>2, <3>1 DEF RecordedFits
  <2> QED
    BY <1>1, <2>2 DEF RecordedFits
<1>12. ASSUME NEW g \in Tasks PROVE LeavesEnough(g)'
  <2> DEFINE v == task[g].user
             more == Cardinality(since[g].recorded) + unpruned[v]
  <2>1. LeavesEnough(g) /\ RecordedFits(g)
    BY <1>0
  <2>2. CASE task[g].pc \in {"select", "delete"}
    <3>1. /\ v \in Users /\ task[g].excess \in Nat
          /\ Cardinality(since[g].recorded) \in Nat
          /\ since'[g].cut \/ (since'[g].cut = since[g].cut /\ v # u)
      BY <1>0, <1>2, <1>8, <2>1, <2>2, PlayHistoryAssumption
         DEF RecordedFits, Pruning, HistoryTypeOK, Task, Since
    <3>2. /\ Cardinality(events'[v]) <= Cardinality(events[v])
          /\ Cardinality(events'[v]) \in Nat /\ Cardinality(events[v]) \in Nat
          /\ unpruned[v] \in Nat
          /\ Cardinality(events'[v] \ task[g].victims) <= Cardinality(events[v] \ task[g].victims)
          /\ Cardinality(events'[v] \ task[g].victims) \in Nat
          /\ Cardinality(events[v] \ task[g].victims) \in Nat
      BY <1>6, <1>7, <3>1
    <3>3. Cap \in Nat /\ more \in Nat /\ (~since'[g].cut => ~since[g].cut /\ events'[v] = events[v])
      <4>1. Cap \in Nat /\ (v # u => events'[v] = events[v])
        BY <1>4, <3>1, PlayHistoryAssumption
      <4>2. more \in Nat
        <5> HIDE DEF v
        <5> QED
          BY <3>1, <3>2
      <4> QED
        BY <3>1, <4>1, <4>2
    <3>4. /\ task' = task /\ unpruned' = unpruned /\ since'[g].recorded = since[g].recorded
      BY <1>1, <1>2
    <3>5. /\ task[g].pc = "select" =>
               /\ ~task[g].job => Cardinality(events[v]) <= Cap + task[g].excess + more
               /\ ~since[g].cut => Cardinality(events[v]) >= Cap + task[g].excess
          /\ task[g].pc = "delete" =>
               /\ ~task[g].job => Cardinality(events[v] \ task[g].victims) <= Cap + more
               /\ ~since[g].cut => Cardinality(events[v] \ task[g].victims) >= Cap
      BY <2>1 DEF LeavesEnough
    <3>6. /\ task[g].pc = "select" =>
               /\ ~task[g].job => Cardinality(events'[v]) <= Cap + task[g].excess + more
               /\ ~since'[g].cut => Cardinality(events'[v]) >= Cap + task[g].excess
          /\ task[g].pc = "delete" =>
               /\ ~task[g].job => Cardinality(events'[v] \ task[g].victims) <= Cap + more
               /\ ~since'[g].cut => Cardinality(events'[v] \ task[g].victims) >= Cap
      <4>1. ~since'[g].cut => Cardinality(events'[v] \ task[g].victims) = Cardinality(events[v] \ task[g].victims)
        BY <3>3
      <4> HIDE DEF v, more
      <4>2. ASSUME task[g].pc = "select"
            PROVE  /\ ~task[g].job => Cardinality(events'[v]) <= Cap + task[g].excess + more
                   /\ ~since'[g].cut => Cardinality(events'[v]) >= Cap + task[g].excess
        BY <3>1, <3>2, <3>3, <3>5, <4>2
      <4>3. ASSUME task[g].pc = "delete"
            PROVE  /\ ~task[g].job => Cardinality(events'[v] \ task[g].victims) <= Cap + more
                   /\ ~since'[g].cut => Cardinality(events'[v] \ task[g].victims) >= Cap
        BY <3>2, <3>3, <3>5, <4>1, <4>3
      <4> QED
        BY <4>2, <4>3
    <3> QED
      BY <3>4, <3>6 DEF LeavesEnough
  <2>3. CASE task[g].pc \notin {"select", "delete"}
    BY <1>1, <2>3 DEF LeavesEnough
  <2> QED
    BY <2>2, <2>3
<1>13. /\ \A g \in Tasks : /\ task'[g].pc \in {"insert", "count"} => task'[g].user \in Users
                           /\ task'[g].pc = "next" => task'[g].job
                           /\ task'[g].pc = "insert" => task'[g].play \in Plays /\ ~task'[g].job
       /\ \A v \in Users : unpruned'[v] <= deaths'
  BY <1>1 DEF HistoryInv
<1>14. \A g \in Tasks : RecordedFits(g)' /\ LeavesEnough(g)'
  BY <1>11, <1>12
<1> QED
  BY <1>5, <1>10, <1>13, <1>14 DEF HistoryInv

LEMMA HistoryStep == HistoryInv /\ [HistoryNext]_historyVars => HistoryInv'
<1> SUFFICES ASSUME HistoryInv, [HistoryNext]_historyVars
             PROVE  HistoryInv'
  OBVIOUS
<1>1. ASSUME NEW h \in Tasks,
             (\E u \in Users : RecordBegin(h, u)) \/ PruneAll(h) \/ NextUser(h)
      PROVE  HistoryInv'
  BY <1>1, HistoryQuietStep
<1>2. ASSUME NEW h \in Tasks, RecordCommit(h)
      PROVE  HistoryInv'
  BY <1>2, RecordStep
<1>3. ASSUME NEW h \in Tasks, Count(h)
      PROVE  HistoryInv'
  BY <1>3, CountUnderStep, CountOverStep
<1>4. ASSUME NEW h \in Tasks, Select(h) \/ Delete(h) \/ Die(h)
      PROVE  HistoryInv'
  BY <1>4, SelectStep, DeleteEventsStep, DieStep
<1>5. ASSUME NEW u \in Users, NEW dead \in SUBSET events[u], RemoveEvents(u, dead)
      PROVE  HistoryInv'
  BY <1>5, RemoveEventsStep
<1>6. CASE UNCHANGED historyVars
  BY <1>6 DEF historyVars, HistoryInv, HistoryTypeOK, RecordedFits, LeavesEnough, CapHolds, Pending
<1> QED
  BY <1>1, <1>2, <1>3, <1>4, <1>5, <1>6 DEF HistoryNext, Advance

(* The inductive invariant: what the pending plays of a user leave when     *)
(* they have pruned is within the cap, whatever the overlapping prunes      *)
(* count and delete.                                                        *)
THEOREM HistoryInvariant == HistorySpec => []HistoryInv
  BY HistoryInitInv, HistoryStep, PTL DEF HistorySpec

(* The state of the play history has its type.                              *)
THEOREM HistoryTypeCorrect == HistorySpec => []HistoryTypeOK
<1>1. HistoryInv => HistoryTypeOK
  BY DEF HistoryInv
<1> QED
  BY <1>1, HistoryInvariant, PTL

(* A history never exceeds its cap but for the plays that have not pruned.  *)
THEOREM HistoryWithinCap == HistorySpec => []CapHolds
<1>1. HistoryInv => CapHolds
  BY DEF HistoryInv
<1> QED
  BY <1>1, HistoryInvariant, PTL

(* The selection of a prune nobody cut leaves Cap newer events behind each  *)
(* of its victims.                                                          *)
LEMMA SelectKeepsNewer ==
    ASSUME HistoryInv, NEW h \in Tasks, Select(h), ~since[h].cut, NEW e \in task'[h].victims
    PROVE  Cardinality(NewerKept(h, e)') >= Cap
<1> DEFINE S == events[task[h].user]
           n == task[h].excess
<1>0. HistoryTypeOK /\ RecordedFits(h) /\ LeavesEnough(h) /\ task[h].pc = "select"
  BY DEF HistoryInv, Select
<1>1. /\ task'[h].victims = Oldest(S, n) /\ task'[h].user = task[h].user /\ events' = events
      /\ task[h].user \in Users
  BY <1>0 DEF Select, HistoryTypeOK, Task, RecordedFits
<1>2. S \in SUBSET Plays /\ n \in Nat
  BY <1>0, <1>1, PlayHistoryAssumption DEF HistoryTypeOK, Task
<1>3. Cardinality(S) >= Cap + n
  BY <1>0 DEF LeavesEnough
<1>4. Cardinality(S \ Oldest(S, n)) >= Cap
  <2>1. /\ Cardinality(S \ Oldest(S, n)) >= Cardinality(S) - n
        /\ Cardinality(S \ Oldest(S, n)) \in Nat /\ Cardinality(S) \in Nat
    BY <1>2, OldestLeaves, EventsFinite
  <2> HIDE DEF S, n
  <2> QED
    BY <1>2, <1>3, <2>1, PlayHistoryAssumption
<1>5. NewerKept(h, e)' = S \ Oldest(S, n)
  <2>1. e \in Oldest(S, n)
    BY <1>1
  <2>2. \A f \in S \ Oldest(S, n) : f > e
    BY <1>2, <2>1, LeftIsNewer
  <2> QED
    BY <1>1, <2>2 DEF NewerKept
<1> QED
  BY <1>4, <1>5

(* No other step takes an event from under a prune and leaves it uncut.     *)
LEMMA UncutKept ==
    ASSUME HistoryInv, [HistoryNext]_historyVars, NEW g \in Tasks,
           task'[g].pc = "delete", ~since'[g].cut
    PROVE  \/ Select(g) /\ ~since[g].cut
           \/ /\ task'[g] = task[g] /\ ~since[g].cut
              /\ events[task[g].user] \subseteq events'[task[g].user]
<1> DEFINE Kept == /\ task'[g] = task[g] /\ ~since[g].cut
                   /\ events[task[g].user] \subseteq events'[task[g].user]
<1>0. /\ HistoryTypeOK /\ task[g] \in Task
      /\ task[g].pc = "delete" => task[g].user \in Users
  BY DEF HistoryInv, HistoryTypeOK, RecordedFits
<1>1. \A h \in Tasks : Pruned(h).pc \in {"idle", "next"}
  BY <1>0 DEF Pruned, Free, HistoryTypeOK, Task
<1>2. ASSUME NEW h \in Tasks, h # g, NEW r, task' = [task EXCEPT ![h] = r] PROVE task'[g] = task[g]
  BY <1>0, <1>2 DEF HistoryTypeOK
<1>3. ASSUME NEW h \in Tasks, NEW u \in Users, RecordBegin(h, u) PROVE Kept
  <2>1. h # g
    BY <1>0, <1>3 DEF RecordBegin, HistoryTypeOK, Free
  <2> QED
    BY <1>2, <1>3, <2>1 DEF RecordBegin
<1>4. ASSUME NEW h \in Tasks, PruneAll(h) PROVE Kept
  <2>1. h # g
    BY <1>0, <1>4 DEF PruneAll, HistoryTypeOK, Free
  <2> QED
    BY <1>2, <1>4, <2>1 DEF PruneAll
<1>5. ASSUME NEW h \in Tasks, NextUser(h) PROVE Kept
  <2>1. h # g /\ task'[g] = task[g]
    <3>1. CASE task' = [task EXCEPT ![h] = Free]
      BY <1>0, <3>1 DEF HistoryTypeOK, Free
    <3>2. CASE \E u \in task[h].todo :
                 task' = [task EXCEPT ![h].pc = "count", ![h].user = u, ![h].todo = @ \ {u}]
      BY <1>0, <3>2 DEF HistoryTypeOK, Task
    <3> QED
      BY <1>5, <3>1, <3>2 DEF NextUser
  <2> QED
    BY <1>5, <2>1 DEF NextUser
<1>6. ASSUME NEW h \in Tasks, RecordCommit(h) PROVE Kept
  <2>1. h # g /\ task'[g] = task[g]
    BY <1>0, <1>6 DEF RecordCommit, HistoryTypeOK, Task
  <2>2. since[g] \in Since
    BY <1>0 DEF HistoryTypeOK
  <2>3. since'[g].cut = since[g].cut
    BY <1>6, <2>2 DEF RecordCommit, Since
  <2>4. events[task[g].user] \subseteq events'[task[g].user]
    BY <1>0, <1>6, <2>1 DEF RecordCommit, HistoryTypeOK
  <2> QED
    BY <2>1, <2>3, <2>4
<1>7. ASSUME NEW h \in Tasks, Count(h) PROVE Kept
  <2> DEFINE excess == Excess(Cardinality(events[task[h].user]))
  <2>1. /\ events' = events
        /\ task' = [task EXCEPT ![h] = IF excess = 0 THEN Pruned(h)
                                        ELSE [@ EXCEPT !.pc = "select", !.excess = excess]]
        /\ since' = IF excess = 0 THEN Deleted(h, task[h].user, {})
                    ELSE [since EXCEPT ![h] = [cut |-> FALSE, recorded |-> {}]]
    BY <1>7 DEF Count
  <2> HIDE DEF excess
  <2>2. task'[h].pc # "delete"
    BY <1>0, <1>1, <2>1 DEF HistoryTypeOK, Task
  <2>3. h # g /\ task'[g] = task[g]
    BY <1>0, <2>1, <2>2 DEF HistoryTypeOK
  <2>4. ~since[g].cut
    BY <1>0, <2>1, <2>3 DEF Deleted, HistoryTypeOK
  <2> QED
    BY <2>1, <2>3, <2>4
<1>8. ASSUME NEW h \in Tasks, Select(h) PROVE Kept \/ (Select(g) /\ ~since[g].cut)
  <2>1. CASE h = g
    BY <1>8, <2>1 DEF Select
  <2>2. CASE h # g
    BY <1>0, <1>8, <2>2 DEF Select, HistoryTypeOK
  <2> QED
    BY <2>1, <2>2
<1>9. ASSUME NEW h \in Tasks, Delete(h) PROVE Kept
  <2> DEFINE dead == task[h].victims \cap events[task[h].user]
  <2>1. /\ events' = [events EXCEPT ![task[h].user] = @ \ task[h].victims]
        /\ since' = Deleted(h, task[h].user, dead)
        /\ task' = [task EXCEPT ![h] = Pruned(h)]
    BY <1>9 DEF Delete
  <2>2. h # g /\ task'[g] = task[g]
    BY <1>0, <1>1, <2>1 DEF HistoryTypeOK
  <2>3. ~since[g].cut /\ (dead = {} \/ task[g].user # task[h].user)
    <3> HIDE DEF dead
    <3> QED
      BY <2>1, <2>2 DEF Deleted, Pruning
  <2>4. events[task[g].user] \subseteq events'[task[g].user]
    BY <1>0, <2>1, <2>2, <2>3 DEF HistoryTypeOK
  <2> QED
    BY <2>2, <2>3, <2>4
<1>10. ASSUME NEW h \in Tasks, Die(h) PROVE Kept
  <2>1. /\ events' = events /\ since' = Deleted(h, NoUser, {}) /\ task' = [task EXCEPT ![h] = Free]
    BY <1>10 DEF Die
  <2>2. h # g /\ task'[g] = task[g]
    BY <1>0, <2>1 DEF HistoryTypeOK, Free
  <2> QED
    BY <2>1, <2>2 DEF Deleted
<1>11. ASSUME NEW u \in Users, NEW dead \in SUBSET events[u], RemoveEvents(u, dead) PROVE Kept
  <2>1. /\ events' = [events EXCEPT ![u] = @ \ dead] /\ task' = task
        /\ since' = [x \in Tasks |->
                        IF Pruning(x, u) THEN [since[x] EXCEPT !.cut = TRUE] ELSE since[x]]
    BY <1>11 DEF RemoveEvents
  <2>2. since[g] \in Since
    BY <1>0 DEF HistoryTypeOK
  <2>3. ~Pruning(g, u)
    BY <2>1, <2>2 DEF Since
  <2>4. since'[g] = since[g] /\ task[g].user # u
    BY <2>1, <2>3 DEF Pruning
  <2> QED
    BY <1>0, <2>1, <2>4 DEF HistoryTypeOK
<1>12. CASE UNCHANGED historyVars
  BY <1>12 DEF historyVars
<1>13. ASSUME NEW h \in Tasks, Advance(h) PROVE Kept \/ (Select(g) /\ ~since[g].cut)
  BY <1>5, <1>6, <1>7, <1>8, <1>9, <1>13 DEF Advance
<1> QED
  BY <1>3, <1>4, <1>10, <1>11, <1>12, <1>13 DEF HistoryNext

LEMMA CutStep == HistoryInv /\ CutOnlyToCap /\ [HistoryNext]_historyVars => CutOnlyToCap'
<1> SUFFICES ASSUME HistoryInv, CutOnlyToCap, [HistoryNext]_historyVars,
                    NEW g \in Tasks, task'[g].pc = "delete", ~since'[g].cut,
                    NEW e \in task'[g].victims
             PROVE  Cardinality(NewerKept(g, e)') >= Cap
  BY DEF CutOnlyToCap
<1>1. CASE Select(g) /\ ~since[g].cut
  BY <1>1, SelectKeepsNewer
<1>2. CASE /\ task'[g] = task[g] /\ ~since[g].cut
           /\ events[task[g].user] \subseteq events'[task[g].user]
  <2>1. Cardinality(NewerKept(g, e)) >= Cap
    BY <1>2 DEF CutOnlyToCap
  <2>2. NewerKept(g, e) \subseteq NewerKept(g, e)'
    BY <1>2 DEF NewerKept
  <2>3. NewerKept(g, e) \in SUBSET Plays /\ NewerKept(g, e)' \in SUBSET Plays
    <3>1. task[g].user \in Users /\ HistoryTypeOK /\ HistoryTypeOK'
      BY <1>2, HistoryStep DEF HistoryInv, RecordedFits
    <3> QED
      BY <1>2, <3>1 DEF NewerKept, HistoryTypeOK
  <2>4. /\ Cardinality(NewerKept(g, e)) <= Cardinality(NewerKept(g, e)')
        /\ Cardinality(NewerKept(g, e)) \in Nat /\ Cardinality(NewerKept(g, e)') \in Nat
    BY <2>2, <2>3, EventsFinite, FS_Subset
  <2> QED
    BY <2>1, <2>4, PlayHistoryAssumption
<1> QED
  BY <1>1, <1>2, UncutKept

(* A prune deletes an event only if Cap newer ones stay, whatever plays     *)
(* commit and prune while it counts, selects and deletes.                   *)
THEOREM PruneLeavesCap == HistorySpec => []CutOnlyToCap
<1>1. HistoryInit => CutOnlyToCap
  BY DEF HistoryInit, CutOnlyToCap, Free
<1> QED
  BY <1>1, HistoryInitInv, HistoryStep, CutStep, PTL DEF HistorySpec

-----------------------------------------------------------------------------
(* Rate limits *)

(* A request past INCR has the key it counted, and a check that its route   *)
(* has.                                                                     *)
RateInv ==
    /\ RateTypeOK
    /\ \A c \in Callers :
          /\ call[c].pc # "idle" => call[c].check \in DOMAIN route
          /\ call[c].pc \in {"expire", "decide"} => call[c].key \in Keys
    /\ StuckKeyHasCause

(* The routes are sequences of one or two scopes, and their keys are Keys.  *)
LEMMA RouteKeys ==
    ASSUME NEW r \in Routes
    PROVE  /\ Len(r) \in 1..2 /\ DOMAIN r = 1..Len(r)
           /\ \A n \in DOMAIN r, i \in Identities : <<r[n], i>> \in Keys
<1>1. Len(r) \in 1..2 /\ DOMAIN r = 1..Len(r)
  BY DEF Routes, Public, Register, Login, ForgotPassword, ChangeEmail, Export
<1>2. ASSUME NEW n \in DOMAIN r, NEW i \in Identities
      PROVE  <<r[n], i>> \in Keys
  <2>1. r[n] \in {r[m] : m \in DOMAIN r}
    OBVIOUS
  <2>2. r[n] \in UNION {{q[m] : m \in DOMAIN q} : q \in Routes}
    BY <2>1
  <2> QED
    BY <2>2 DEF Keys
<1> QED
  BY <1>1, <1>2

LEMMA RateInitInv == RateInit => RateInv
<1> SUFFICES ASSUME RateInit PROVE RateInv
  OBVIOUS
<1>1. NoCall \in Call /\ NoCall.pc = "idle"
  BY RateLimitAssumption DEF NoCall, Call
<1>2. RateTypeOK
  BY <1>1, RateLimitAssumption DEF RateInit, RateTypeOK
<1> QED
  BY <1>1, <1>2 DEF RateInit, RateInv, StuckKeyHasCause

LEMMA RateStep == RateInv /\ [RateNext]_rateVars => RateInv'
<1> SUFFICES ASSUME RateInv, [RateNext]_rateVars
             PROVE  RateInv'
  OBVIOUS
<1>0. /\ NoCall \in Call /\ NoCall.pc = "idle"
      /\ RateTypeOK /\ StuckKeyHasCause
  BY RateLimitAssumption DEF NoCall, Call, RateInv
<1>1. ASSUME NEW c \in Callers, NEW r \in Call,
             call' = [call EXCEPT ![c] = r], UNCHANGED <<route, count>>,
             r.pc # "idle" => r.check \in DOMAIN route,
             r.pc # "expire", r.pc = "decide" => r.key \in Keys,
             admitted' \in [Keys -> Nat],
             ttl \subseteq ttl', ttl' \subseteq Keys, orphan \subseteq orphan', orphan' \subseteq Keys,
             call[c].pc = "expire" => call[c].key \in ttl' \cup orphan'
      PROVE  RateInv'
  <2>1. /\ call'[c] = r /\ \A d \in Callers : d # c => call'[d] = call[d]
    BY <1>0, <1>1 DEF RateTypeOK
  <2>2. RateTypeOK'
    BY <1>0, <1>1 DEF RateTypeOK
  <2>3. \A d \in Callers :
           /\ call'[d].pc # "idle" => call'[d].check \in DOMAIN route'
           /\ call'[d].pc \in {"expire", "decide"} => call'[d].key \in Keys
    BY <1>1, <2>1 DEF RateInv
  <2>4. StuckKeyHasCause'
    BY <1>0, <1>1, <2>1 DEF StuckKeyHasCause
  <2> QED
    BY <2>2, <2>3, <2>4 DEF RateInv
<1>2. ASSUME NEW c \in Callers, Arrive(c)
      PROVE  RateInv'
  <2> DEFINE r == [NoCall EXCEPT !.pc = "count", !.check = 1]
  <2>1. r \in Call /\ r.pc = "count" /\ r.check = 1
    <3>1. 1 \in 0..2
      OBVIOUS
    <3> QED
      BY <1>0, <3>1 DEF Call
  <2>2. 1 \in DOMAIN route
    BY <1>0, RouteKeys DEF RateTypeOK
  <2>3. call' = [call EXCEPT ![c] = r] /\ UNCHANGED <<route, count, ttl, orphan, admitted>> /\ call[c].pc = "idle"
    BY <1>2 DEF Arrive
  <2> HIDE DEF r
  <2> QED
    BY <1>0, <1>1, <2>1, <2>2, <2>3 DEF RateTypeOK
<1>3. ASSUME NEW c \in Callers, NEW i \in Identities, Increment(c, i)
      PROVE  RateInv'
  <2> DEFINE k == <<route[call[c].check], i>>
             r == [call[c] EXCEPT !.pc = IF count[k] = 0 THEN "expire" ELSE "decide",
                                  !.key = k, !.seen = count[k] + 1]
  <2>1. call[c] \in Call /\ call[c].check \in DOMAIN route /\ k \in Keys
    BY <1>0, <1>3, RouteKeys DEF Increment, RateInv, RateTypeOK
  <2>2. /\ count' = [count EXCEPT ![k] = @ + 1] /\ count[k] < MaxCount
        /\ UNCHANGED <<route, ttl, orphan, admitted>> /\ call[c].pc = "count"
    BY <1>3 DEF Increment
  <2>3. call' = [call EXCEPT ![c] = r]
    BY <1>0, <1>3, <2>1 DEF Increment, RateTypeOK
  <2>4. count[k] \in 0..MaxCount /\ count[k] + 1 \in 0..MaxCount
    BY <1>0, <2>1, <2>2, RateLimitAssumption DEF RateTypeOK
  <2> HIDE DEF k
  <2>5. /\ r \in Call /\ r.key = k /\ r.check = call[c].check
        /\ r.pc = IF count[k] = 0 THEN "expire" ELSE "decide"
    BY <2>1, <2>4 DEF Call
  <2> HIDE DEF r
  <2>6. /\ call'[c] = r /\ \A d \in Callers : d # c => call'[d] = call[d]
        /\ \A q \in Keys : q # k => count'[q] = count[q]
        /\ count' \in [Keys -> 0..MaxCount]
    BY <1>0, <2>1, <2>2, <2>3, <2>4 DEF RateTypeOK
  <2>7. RateTypeOK'
    BY <1>0, <2>2, <2>3, <2>5, <2>6 DEF RateTypeOK
  <2>8. \A d \in Callers :
           /\ call'[d].pc # "idle" => call'[d].check \in DOMAIN route'
           /\ call'[d].pc \in {"expire", "decide"} => call'[d].key \in Keys
    BY <2>1, <2>2, <2>5, <2>6 DEF RateInv
  <2>9. StuckKeyHasCause'
    <3> SUFFICES ASSUME NEW q \in Keys, count'[q] > 0, q \notin ttl'
                 PROVE  q \in orphan' \/ \E d \in Callers : call'[d].pc = "expire" /\ call'[d].key = q
      BY DEF StuckKeyHasCause
    <3>1. CASE q = k /\ count[k] = 0
      BY <2>5, <2>6, <3>1
    <3>2. CASE count[q] > 0
      <4>1. q \in orphan \/ \E d \in Callers : call[d].pc = "expire" /\ call[d].key = q
        BY <1>0, <2>2, <3>2 DEF StuckKeyHasCause
      <4> QED
        BY <2>2, <2>6, <4>1
    <3> QED
      BY <2>4, <2>6, <3>1, <3>2
  <2> QED
    BY <2>7, <2>8, <2>9 DEF RateInv
<1>4. ASSUME NEW c \in Callers, Expire(c)
      PROVE  RateInv'
  <2> DEFINE r == [call[c] EXCEPT !.pc = "decide"]
  <2>1. call[c] \in Call /\ call[c].pc = "expire"
    BY <1>0, <1>4 DEF RateTypeOK, Expire
  <2>2. r \in Call /\ r.pc = "decide" /\ r.check = call[c].check /\ r.key = call[c].key
    BY <2>1 DEF Call
  <2>3. /\ call' = [call EXCEPT ![c] = r] /\ ttl' = ttl \cup {call[c].key}
        /\ UNCHANGED <<route, count, orphan, admitted>>
    BY <1>0, <1>4 DEF Expire, RateTypeOK
  <2>4. call[c].key \in Keys /\ call[c].check \in DOMAIN route
    BY <2>1 DEF RateInv
  <2> HIDE DEF r
  <2> QED
    BY <1>0, <1>1, <2>1, <2>2, <2>3, <2>4 DEF RateTypeOK
<1>5. ASSUME NEW c \in Callers, Decide(c)
      PROVE  RateInv'
  <2> DEFINE n == [NoCall EXCEPT !.pc = "count", !.check = call[c].check + 1]
             r == IF Refused(c) \/ call[c].check = Len(route) THEN NoCall ELSE n
  <2>1. /\ call[c] \in Call /\ call[c].pc = "decide" /\ call[c].check \in DOMAIN route
    BY <1>0, <1>5 DEF RateTypeOK, Decide, RateInv
  <2>2. /\ call' = [call EXCEPT ![c] = r] /\ UNCHANGED <<route, count, ttl, orphan>>
    BY <1>0, <1>5 DEF Decide, RateTypeOK
  <2>3. call[c].check # Len(route) => call[c].check + 1 \in DOMAIN route /\ call[c].check + 1 \in 0..2
    <3>1. route \in Routes /\ call[c].check \in 1..Len(route) /\ Len(route) \in 1..2
          /\ DOMAIN route = 1..Len(route)
      BY <1>0, <2>1, RouteKeys DEF RateTypeOK
    <3> QED
      BY <3>1
  <2>4. call[c].check # Len(route) => n \in Call /\ n.pc = "count" /\ n.check \in DOMAIN route
    BY <1>0, <2>3 DEF Call
  <2> HIDE DEF n
  <2>5. r \in Call /\ r.pc \notin {"expire", "decide"} /\ (r.pc # "idle" => r.check \in DOMAIN route)
    BY <1>0, <2>4
  <2> HIDE DEF r
  <2>6. admitted' \in [Keys -> Nat]
    <3>1. admitted \in [Keys -> Nat] /\ call[c].key \in Keys
      BY <1>0, <2>1 DEF RateInv, RateTypeOK
    <3> QED
      BY <1>5, <3>1 DEF Decide
  <2> QED
    BY <1>0, <1>1, <2>1, <2>2, <2>5, <2>6 DEF RateTypeOK
<1>6. ASSUME NEW c \in Callers, Interrupt(c)
      PROVE  RateInv'
  <2>1. /\ call' = [call EXCEPT ![c] = NoCall] /\ UNCHANGED <<route, count, ttl, admitted>>
        /\ orphan' = IF call[c].pc = "expire" THEN orphan \cup {call[c].key} ELSE orphan
    BY <1>6 DEF Interrupt
  <2>2. call[c].pc = "expire" => call[c].key \in Keys
    BY DEF RateInv
  <2> QED
    BY <1>0, <1>1, <2>1, <2>2 DEF RateTypeOK
<1>7. ASSUME NEW n \in 1..Len(route), NEW i \in Identities, WindowEnds(n, i)
      PROVE  RateInv'
  <2> DEFINE k == <<route[n], i>>
  <2>1. k \in Keys
    BY <1>0, RouteKeys DEF RateTypeOK
  <2>2. /\ count' = [count EXCEPT ![k] = 0] /\ ttl' = ttl \ {k}
        /\ admitted' = [admitted EXCEPT ![k] = 0]
        /\ call' = [c \in Callers |-> [call[c] EXCEPT !.late = @ \/ call[c].key = k]]
        /\ UNCHANGED <<route, orphan>>
    BY <1>7 DEF WindowEnds
  <2> HIDE DEF k
  <2>3. /\ count' \in [Keys -> 0..MaxCount] /\ count'[k] = 0
        /\ \A q \in Keys : q # k => count'[q] = count[q]
    BY <1>0, <2>1, <2>2, RateLimitAssumption DEF RateTypeOK
  <2>4. ASSUME NEW c \in Callers
        PROVE  /\ call'[c] \in Call /\ call'[c].pc = call[c].pc
               /\ call'[c].check = call[c].check /\ call'[c].key = call[c].key
    <3>1. call[c] \in Call /\ call'[c] = [call[c] EXCEPT !.late = @ \/ call[c].key = k]
      BY <1>0, <2>2 DEF RateTypeOK
    <3> QED
      BY <3>1 DEF Call
  <2>5. RateTypeOK'
    <3>1. call' \in [Callers -> Call]
      BY <2>2, <2>4
    <3>2. admitted' \in [Keys -> Nat]
      BY <1>0, <2>2 DEF RateTypeOK
    <3> QED
      BY <1>0, <2>2, <2>3, <3>1, <3>2 DEF RateTypeOK
  <2>6. StuckKeyHasCause'
    <3> SUFFICES ASSUME NEW q \in Keys, count'[q] > 0, q \notin ttl'
                 PROVE  q \in orphan' \/ \E c \in Callers : call'[c].pc = "expire" /\ call'[c].key = q
      BY DEF StuckKeyHasCause
    <3>1. q # k /\ count[q] > 0 /\ q \notin ttl
      BY <2>2, <2>3
    <3>2. q \in orphan \/ \E c \in Callers : call[c].pc = "expire" /\ call[c].key = q
      BY <1>0, <3>1 DEF StuckKeyHasCause
    <3> QED
      BY <2>2, <2>4, <3>2
  <2> QED
    BY <2>2, <2>4, <2>5, <2>6 DEF RateInv
<1>8. CASE UNCHANGED rateVars
  BY <1>8 DEF rateVars, RateInv, RateTypeOK, StuckKeyHasCause
<1> QED
  BY <1>2, <1>3, <1>4, <1>5, <1>6, <1>7, <1>8 DEF RateNext

(* The requests counted in the window of key k that will pass its check.    *)
Passing(k) == {c \in Callers : /\ call[c].pc \in {"expire", "decide"} /\ call[c].key = k
                               /\ ~call[c].late /\ ~Refused(c)}

(* INCR gives every request of a window another answer: those that have     *)
(* passed or will pass are no more than were counted, and than the limit.   *)
AdmissionFits ==
    \A k \in Keys : /\ admitted[k] + Cardinality(Passing(k)) <= count[k]
                    /\ admitted[k] + Cardinality(Passing(k)) <= Limit

LEMMA PassingFinite ==
    ASSUME NEW S \in SUBSET Callers
    PROVE  IsFiniteSet(S) /\ Cardinality(S) \in Nat
BY FS_Subset, FS_CardinalityType, RateLimitAssumption

LEMMA RateInitAdmission == RateInit => AdmissionFits
<1> SUFFICES ASSUME RateInit, NEW k \in Keys
             PROVE  /\ admitted[k] + Cardinality(Passing(k)) <= count[k]
                    /\ admitted[k] + Cardinality(Passing(k)) <= Limit
  BY DEF AdmissionFits
<1>1. Passing(k) = {}
  BY DEF RateInit, Passing, NoCall
<1>2. admitted[k] = 0 /\ count[k] = 0 /\ Cardinality(Passing(k)) = 0
  BY <1>1, FS_EmptySet DEF RateInit
<1> QED
  BY <1>2, RateLimitAssumption

(* A step after which no more requests of a key will pass it, and that      *)
(* leaves its numbers, keeps the sum.                                       *)
LEMMA FewerPass ==
    ASSUME RateInv, AdmissionFits, NEW k \in Keys, Passing(k)' \subseteq Passing(k),
           admitted'[k] = admitted[k], count'[k] = count[k]
    PROVE  /\ admitted'[k] + Cardinality(Passing(k)') <= count'[k]
           /\ admitted'[k] + Cardinality(Passing(k)') <= Limit
<1> DEFINE a == Cardinality(Passing(k))
           b == Cardinality(Passing(k)')
<1>1. b <= a /\ a \in Nat /\ b \in Nat
  <2>1. Passing(k) \in SUBSET Callers /\ Passing(k)' \in SUBSET Callers
    BY DEF Passing
  <2>2. IsFiniteSet(Passing(k)) /\ a \in Nat /\ b \in Nat
    BY <2>1, PassingFinite
  <2> QED
    BY <2>2, FS_Subset
<1>2. /\ admitted[k] \in Nat /\ count[k] \in Nat /\ Limit \in Nat
      /\ admitted[k] + a <= count[k] /\ admitted[k] + a <= Limit
  BY RateLimitAssumption DEF RateInv, RateTypeOK, AdmissionFits
<1> HIDE DEF a, b
<1>3. admitted'[k] + b <= count'[k] /\ admitted'[k] + b <= Limit
  BY <1>1, <1>2
<1> QED
  BY <1>3 DEF b

LEMMA IncrementAdmission ==
    ASSUME RateInv, AdmissionFits, NEW c \in Callers, NEW i \in Identities, Increment(c, i)
    PROVE  AdmissionFits'
<1> DEFINE k == <<route[call[c].check], i>>
<1>0. RateTypeOK /\ call[c] \in Call /\ call[c].pc = "count" /\ k \in Keys
  BY RouteKeys DEF Increment, RateInv, RateTypeOK
<1>1. /\ count' = [count EXCEPT ![k] = @ + 1] /\ admitted' = admitted
      /\ call' = [call EXCEPT ![c].pc = IF count[k] = 0 THEN "expire" ELSE "decide",
                              ![c].key = k, ![c].seen = count[k] + 1]
  BY DEF Increment
<1> HIDE DEF k
<1>2. /\ \A d \in Callers : d # c => call'[d] = call[d]
      /\ call'[c].key = k /\ call'[c].seen = count[k] + 1
      /\ \A q \in Keys : q # k => count'[q] = count[q]
      /\ count'[k] = count[k] + 1
  BY <1>0, <1>1 DEF RateTypeOK, Call
<1>3. \A q \in Keys : c \notin Passing(q)
  BY <1>0 DEF Passing
<1>4. \A q \in Keys : Passing(q)' \subseteq Passing(q) \cup (IF q = k /\ count[k] < Limit THEN {c} ELSE {})
  <2> SUFFICES ASSUME NEW q \in Keys, NEW d \in Passing(q)', d \notin Passing(q)
               PROVE  q = k /\ count[k] < Limit /\ d = c
    OBVIOUS
  <2>1. d \in Callers /\ call'[d].key = q /\ ~(call'[d].seen > Limit)
    BY DEF Passing, Refused
  <2>2. d = c
    BY <1>2, <2>1 DEF Passing, Refused
  <2>3. count[k] \in Nat /\ Limit \in Nat
    BY <1>0, RateLimitAssumption DEF RateTypeOK
  <2> QED
    BY <1>2, <2>1, <2>2, <2>3
<1>5. ASSUME NEW q \in Keys
      PROVE  /\ admitted'[q] + Cardinality(Passing(q)') <= count'[q]
             /\ admitted'[q] + Cardinality(Passing(q)') <= Limit
  <2> DEFINE a == Cardinality(Passing(q))
             b == Cardinality(Passing(q)')
  <2>1. Passing(q) \in SUBSET Callers /\ Passing(q)' \in SUBSET Callers
    BY DEF Passing
  <2>2. IsFiniteSet(Passing(q)) /\ a \in Nat /\ b \in Nat
    BY <2>1, PassingFinite
  <2>3. /\ admitted[q] \in Nat /\ count[q] \in Nat /\ Limit \in Nat
        /\ admitted[q] + a <= count[q] /\ admitted[q] + a <= Limit
    BY <1>0, RateLimitAssumption DEF RateTypeOK, AdmissionFits
  <2>4. CASE q = k /\ count[k] < Limit
    <3>1. Passing(q)' \subseteq Passing(q) \cup {c} /\ c \notin Passing(q)
      BY <1>3, <1>4, <2>4
    <3>2. IsFiniteSet(Passing(q) \cup {c}) /\ Cardinality(Passing(q) \cup {c}) = a + 1
      BY <2>2, <3>1, FS_AddElement
    <3>3. b <= a + 1
      BY <3>1, <3>2, FS_Subset
    <3>4. admitted'[q] = admitted[q] /\ count'[q] = count[q] + 1 /\ count[q] < Limit
      BY <1>1, <1>2, <2>4
    <3> HIDE DEF a, b
    <3>5. admitted'[q] + b <= count'[q] /\ admitted'[q] + b <= Limit
      BY <2>2, <2>3, <3>3, <3>4
    <3> QED
      BY <3>5 DEF b
  <2>5. CASE ~(q = k /\ count[k] < Limit)
    <3>1. b <= a
      BY <1>4, <2>2, <2>5, FS_Subset
    <3>2. admitted'[q] = admitted[q] /\ (count'[q] = count[q] \/ count'[q] = count[q] + 1)
      BY <1>1, <1>2
    <3> HIDE DEF a, b
    <3>3. admitted'[q] + b <= count'[q] /\ admitted'[q] + b <= Limit
      BY <2>2, <2>3, <3>1, <3>2
    <3> QED
      BY <3>3 DEF b
  <2> QED
    BY <2>4, <2>5
<1> QED
  BY <1>5 DEF AdmissionFits

LEMMA DecideAdmission ==
    ASSUME RateInv, AdmissionFits, NEW c \in Callers, Decide(c)
    PROVE  AdmissionFits'
<1> DEFINE k == call[c].key
<1>0. RateTypeOK /\ call[c].pc = "decide" /\ k \in Keys
  BY DEF Decide, RateInv
<1>1. /\ count' = count
      /\ admitted' = IF Refused(c) \/ call[c].late THEN admitted ELSE [admitted EXCEPT ![k] = @ + 1]
  BY DEF Decide
<1>2. \A q \in Keys : Passing(q)' \subseteq Passing(q) \ {c}
  <2>1. \A d \in Callers : d # c => call'[d] = call[d]
    BY <1>0 DEF Decide, RateTypeOK
  <2>2. call'[c].pc \in {"idle", "count"}
    BY <1>0 DEF Decide, RateTypeOK, NoCall
  <2> QED
    BY <2>1, <2>2 DEF Passing, Refused
<1>3. ASSUME NEW q \in Keys
      PROVE  /\ admitted'[q] + Cardinality(Passing(q)') <= count'[q]
             /\ admitted'[q] + Cardinality(Passing(q)') <= Limit
  <2>1. CASE q = k /\ ~Refused(c) /\ ~call[c].late
    <3> DEFINE a == Cardinality(Passing(q))
               b == Cardinality(Passing(q)')
    <3>1. Passing(q) \in SUBSET Callers /\ Passing(q)' \in SUBSET Callers /\ c \in Passing(q)
      BY <1>0, <2>1 DEF Passing
    <3>2. IsFiniteSet(Passing(q)) /\ a \in Nat /\ b \in Nat
      BY <3>1, PassingFinite
    <3>3. IsFiniteSet(Passing(q) \ {c}) /\ Cardinality(Passing(q) \ {c}) = a - 1
      BY <3>1, <3>2, FS_RemoveElement
    <3>4. b <= a - 1
      BY <1>2, <3>3, FS_Subset
    <3>5. /\ admitted[q] \in Nat /\ count[q] \in Nat /\ Limit \in Nat
          /\ admitted[q] + a <= count[q] /\ admitted[q] + a <= Limit
          /\ admitted'[q] = admitted[q] + 1
      BY <1>0, <1>1, <2>1, RateLimitAssumption DEF RateTypeOK, AdmissionFits
    <3> HIDE DEF a, b
    <3>6. admitted'[q] + b <= count'[q] /\ admitted'[q] + b <= Limit
      BY <1>1, <3>2, <3>4, <3>5
    <3> QED
      BY <3>6 DEF b
  <2>2. CASE ~(q = k /\ ~Refused(c) /\ ~call[c].late)
    <3>1. admitted'[q] = admitted[q] /\ count'[q] = count[q]
      BY <1>0, <1>1, <2>2 DEF RateTypeOK
    <3> QED
      BY <1>2, <3>1, FewerPass
  <2> QED
    BY <2>1, <2>2
<1> QED
  BY <1>3 DEF AdmissionFits

LEMMA WindowAdmission ==
    ASSUME RateInv, AdmissionFits, NEW n \in 1..Len(route), NEW i \in Identities, WindowEnds(n, i)
    PROVE  AdmissionFits'
<1> DEFINE k == <<route[n], i>>
<1>0. RateTypeOK /\ k \in Keys
  BY RouteKeys DEF RateInv, RateTypeOK
<1>1. /\ count' = [count EXCEPT ![k] = 0] /\ admitted' = [admitted EXCEPT ![k] = 0]
      /\ call' = [c \in Callers |-> [call[c] EXCEPT !.late = @ \/ call[c].key = k]]
  BY DEF WindowEnds
<1> HIDE DEF k
<1>2. \A c \in Callers : /\ call'[c].pc = call[c].pc /\ call'[c].key = call[c].key
                         /\ call'[c].seen = call[c].seen
                         /\ ~call'[c].late => ~call[c].late /\ call[c].key # k
  <2> SUFFICES ASSUME NEW c \in Callers
               PROVE  /\ call'[c].pc = call[c].pc /\ call'[c].key = call[c].key
                      /\ call'[c].seen = call[c].seen
                      /\ ~call'[c].late => ~call[c].late /\ call[c].key # k
    OBVIOUS
  <2>1. call'[c] = [call[c] EXCEPT !.late = @ \/ call[c].key = k] /\ call[c] \in Call
    BY <1>0, <1>1 DEF RateTypeOK
  <2>2. call'[c].late = (call[c].late \/ call[c].key = k)
    BY <2>1 DEF Call
  <2> QED
    BY <2>1, <2>2 DEF Call
<1>3. ASSUME NEW q \in Keys
      PROVE  Passing(q)' \subseteq Passing(q) /\ (q = k => Passing(q)' = {})
  BY <1>2 DEF Passing, Refused
<1>4. ASSUME NEW q \in Keys
      PROVE  /\ admitted'[q] + Cardinality(Passing(q)') <= count'[q]
             /\ admitted'[q] + Cardinality(Passing(q)') <= Limit
  <2>1. CASE q = k
    <3>1. admitted'[q] = 0 /\ count'[q] = 0
      BY <1>0, <1>1, <2>1 DEF RateTypeOK
    <3>2. Cardinality(Passing(q)') = 0
      BY <1>3, <2>1, FS_EmptySet
    <3> QED
      BY <3>1, <3>2, RateLimitAssumption
  <2>2. CASE q # k
    <3>1. admitted'[q] = admitted[q] /\ count'[q] = count[q]
      BY <1>0, <1>1, <2>2 DEF RateTypeOK
    <3> QED
      BY <1>3, <3>1, FewerPass
  <2> QED
    BY <2>1, <2>2
<1> QED
  BY <1>4 DEF AdmissionFits

LEMMA AdmissionStep == RateInv /\ AdmissionFits /\ [RateNext]_rateVars => AdmissionFits'
<1> SUFFICES ASSUME RateInv, AdmissionFits, [RateNext]_rateVars
             PROVE  AdmissionFits'
  OBVIOUS
<1>0. RateTypeOK
  BY DEF RateInv
<1>1. ASSUME NEW c \in Callers, Arrive(c) \/ Expire(c) \/ Interrupt(c)
      PROVE  AdmissionFits'
  <2>1. count' = count /\ admitted' = admitted
    BY <1>1 DEF Arrive, Expire, Interrupt
  <2>2. \A d \in Callers : d # c => call'[d] = call[d]
    BY <1>0, <1>1 DEF Arrive, Expire, Interrupt, RateTypeOK
  <2>3. ASSUME NEW q \in Keys, c \in Passing(q)'
        PROVE  c \in Passing(q)
    <3>1. CASE Arrive(c) \/ Interrupt(c)
      <4>1. call'[c].pc \in {"idle", "count"}
        <5>1. CASE Arrive(c)
          BY <1>0, <5>1 DEF Arrive, NoCall, RateTypeOK
        <5>2. CASE Interrupt(c)
          BY <1>0, <5>2 DEF Interrupt, NoCall, RateTypeOK
        <5> QED
          BY <3>1, <5>1, <5>2
      <4> QED
        BY <2>3, <4>1 DEF Passing
    <3>2. CASE Expire(c)
      <4>1. call[c] \in Call /\ call'[c] = [call[c] EXCEPT !.pc = "decide"] /\ call[c].pc = "expire"
        BY <1>0, <3>2 DEF Expire, RateTypeOK
      <4>2. /\ call'[c].key = call[c].key /\ call'[c].seen = call[c].seen
            /\ ~call'[c].late => ~call[c].late
        BY <4>1 DEF Call
      <4> QED
        BY <2>3, <4>1, <4>2 DEF Passing, Refused
    <3> QED
      BY <1>1, <3>1, <3>2
  <2>4. \A q \in Keys : Passing(q)' \subseteq Passing(q)
    BY <2>2, <2>3 DEF Passing, Refused
  <2> QED
    BY <2>1, <2>4, FewerPass DEF AdmissionFits
<1>2. CASE UNCHANGED rateVars
  BY <1>2 DEF rateVars, AdmissionFits, Passing, Refused
<1> QED
  BY <1>1, <1>2, IncrementAdmission, DecideAdmission, WindowAdmission DEF RateNext

(* The inductive invariants of the rate limits hold in every state.         *)
THEOREM RateInvariant == RateSpec => [](RateInv /\ AdmissionFits)
BY RateInitInv, RateInitAdmission, RateStep, AdmissionStep, PTL DEF RateSpec

(* The state of the rate limits has its type.                               *)
THEOREM RateTypeCorrect == RateSpec => []RateTypeOK
<1>1. RateInv => RateTypeOK
  BY DEF RateInv
<1> QED
  BY <1>1, RateInvariant, PTL

(* A counter that never ends is one whose opening request was interrupted.  *)
THEOREM StuckKeyExplained == RateSpec => []StuckKeyHasCause
<1>1. RateInv => StuckKeyHasCause
  BY DEF RateInv
<1> QED
  BY <1>1, RateInvariant, PTL

(* No window lets more than Limit requests of its key past the check,       *)
(* whatever the number of requests and the order of their commands.         *)
LEMMA AdmissionBound == RateInv /\ AdmissionFits => WindowAdmitsLimit
<1> SUFFICES ASSUME RateInv, AdmissionFits, NEW k \in Keys
             PROVE  admitted[k] <= Limit
  BY DEF WindowAdmitsLimit
<1> DEFINE a == Cardinality(Passing(k))
<1>1. a \in Nat
  BY PassingFinite DEF Passing
<1>2. admitted[k] \in Nat /\ Limit \in Nat /\ admitted[k] + a <= Limit
  BY RateLimitAssumption DEF RateInv, RateTypeOK, AdmissionFits
<1> HIDE DEF a
<1> QED
  BY <1>1, <1>2

THEOREM WindowKeepsLimit == RateSpec => []WindowAdmitsLimit
BY AdmissionBound, RateInvariant, PTL

-----------------------------------------------------------------------------
(* The composition *)

(* A step of the composition is one of a single component, and leaves the   *)
(* others where they are.                                                   *)
LEMMA OneMoves ==
    [Next]_vars => /\ [LibraryNext]_libraryVars
                   /\ [HistoryNext]_historyVars
                   /\ [RateNext]_rateVars
BY DEF Next, vars, LibraryNext

LEMMA AllStart == Init => LibraryInit /\ HistoryInit /\ RateInit
BY DEF Init

(* Running the components side by side (MCLibrary) breaks none of their     *)
(* inductive invariants: what is proved of each holds of the composition.   *)
THEOREM ComposedInvariant ==
    Spec => [](LibraryInv /\ HistoryInv /\ CutOnlyToCap /\ RateInv /\ AdmissionFits)
<1>1. HistoryInit => CutOnlyToCap
  BY DEF HistoryInit, CutOnlyToCap, Free
<1> QED
  BY <1>1, AllStart, OneMoves, LibraryInitInv, LibraryStep, HistoryInitInv, HistoryStep, CutStep,
     RateInitInv, RateInitAdmission, RateStep, AdmissionStep, PTL DEF Spec

(* The state of the composition has its type: every playlist position,      *)
(* history, prune in flight and counter.                                    *)
THEOREM ComposedTypeCorrect == Spec => []TypeOK
<1>1. LibraryInv /\ HistoryInv /\ RateInv => TypeOK
  BY DEF LibraryInv, HistoryInv, RateInv, TypeOK
<1> QED
  BY <1>1, ComposedInvariant, PTL
=============================================================================
