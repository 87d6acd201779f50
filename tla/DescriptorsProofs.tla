---------------------------- MODULE DescriptorsProofs ----------------------------
(***************************************************************************)
(* Theorems about Descriptors, for any number of processes, any size of    *)
(* their tables and any number of descriptions.  The reference counts are  *)
(* exact; from that, and from what a thread knows of the description it is *)
(* about to close, follows that no descriptor refers to a closed end.      *)
(***************************************************************************)
EXTENDS Descriptors, FiniteSetTheorems, TLAPS

--------------------------------------------------------------------------------
(* Counting descriptors. *)

\* The descriptors of all tables that refer to d, and those of them that are not of p.
Refs(tb, d) == {pf \in Pid \X Fd : tb[pf[1]][pf[2]] = d}
Others(tb, p, d) == {pf \in Refs(tb, d) : pf[1] # p}

\* There are finitely many descriptors.
LEMMA Finite ==
    /\ IsFiniteSet(Fd) /\ IsFiniteSet(Pid \X Fd)
    /\ \A t, d : IsFiniteSet(Descriptors(t, d)) /\ Count(t, d) \in Nat
    /\ \A tb, d : IsFiniteSet(Refs(tb, d)) /\ Cardinality(Refs(tb, d)) \in Nat
    /\ \A tb, p, d : IsFiniteSet(Others(tb, p, d)) /\ Cardinality(Others(tb, p, d)) \in Nat
<1>1. IsFiniteSet(Fd)
  BY DescriptorAssumption, FS_Interval, MaxFds - 1 \in Int, 0 \in Int DEF Fd
<1>2. IsFiniteSet(Pid \X Fd)
  BY <1>1, DescriptorAssumption, FS_Product
<1>3. ASSUME NEW t, NEW d PROVE IsFiniteSet(Descriptors(t, d)) /\ Count(t, d) \in Nat
  <2>1. Descriptors(t, d) \in SUBSET Fd
    BY DEF Descriptors
  <2> QED
    BY <1>1, <2>1, FS_Subset, FS_CardinalityType DEF Count
<1>4. ASSUME NEW tb, NEW d PROVE IsFiniteSet(Refs(tb, d)) /\ Cardinality(Refs(tb, d)) \in Nat
  <2>1. Refs(tb, d) \in SUBSET (Pid \X Fd)
    BY DEF Refs
  <2> QED
    BY <1>2, <2>1, FS_Subset, FS_CardinalityType
<1>5. ASSUME NEW tb, NEW p, NEW d PROVE IsFiniteSet(Others(tb, p, d)) /\ Cardinality(Others(tb, p, d)) \in Nat
  <2>1. Others(tb, p, d) \in SUBSET Refs(tb, d)
    BY DEF Others
  <2> QED
    BY <1>4, <2>1, FS_Subset, FS_CardinalityType
<1> QED
  BY <1>1, <1>2, <1>3, <1>4, <1>5

\* The descriptors of d are those of p and the others.
LEMMA Split ==
    ASSUME NEW tb \in [Pid -> Table], NEW p \in Pid, NEW d
    PROVE  Cardinality(Refs(tb, d)) = Cardinality(Others(tb, p, d)) + Count(tb[p], d)
<1> DEFINE D == Descriptors(tb[p], d)
           O == Others(tb, p, d)
<1>1. IsFiniteSet(O) /\ IsFiniteSet(D) /\ IsFiniteSet({p}) /\ Cardinality({p}) = 1
      /\ Cardinality(O) \in Nat /\ Cardinality(D) \in Nat
  BY Zenon, Finite, FS_Singleton, FS_CardinalityType
<1>2. IsFiniteSet({p} \X D) /\ Cardinality({p} \X D) = Cardinality({p}) * Cardinality(D)
  BY <1>1, FS_Product
<1>3. Refs(tb, d) = O \cup ({p} \X D)
  BY DEF Refs, Others, Descriptors
<1>4. O \cap ({p} \X D) = {}
  BY DEF Others, Refs
<1> HIDE DEF O, D
<1>5. Cardinality(O \cup ({p} \X D)) = Cardinality(O) + Cardinality({p} \X D) - Cardinality(O \cap ({p} \X D))
  BY <1>1, <1>2, FS_Union
<1>6. Cardinality(O \cap ({p} \X D)) = 0
  BY <1>4, FS_EmptySet
<1>7. Cardinality({p} \X D) = Cardinality(D)
  BY <1>1, <1>2
<1>8. Cardinality(O \cup ({p} \X D)) = Cardinality(O) + Cardinality(D)
  BY <1>1, <1>5, <1>6, <1>7
<1> QED
  BY <1>3, <1>8, Zenon DEF O, D, Count

\* One table replaced.
LEMMA OneTable ==
    ASSUME NEW tb \in [Pid -> Table], NEW p \in Pid, NEW t \in Table, NEW d
    PROVE  Cardinality(Refs([tb EXCEPT ![p] = t], d)) = Cardinality(Refs(tb, d)) + Count(t, d) - Count(tb[p], d)
<1> DEFINE tc == [tb EXCEPT ![p] = t]
<1>1. tc \in [Pid -> Table] /\ tc[p] = t
  OBVIOUS
<1>2. Others(tc, p, d) = Others(tb, p, d)
  BY DEF Others, Refs
<1> HIDE DEF tc
<1>3. /\ Cardinality(Refs(tb, d)) = Cardinality(Others(tb, p, d)) + Count(tb[p], d)
      /\ Cardinality(Refs(tc, d)) = Cardinality(Others(tc, p, d)) + Count(tc[p], d)
  BY <1>1, Split
<1>4. Cardinality(Others(tb, p, d)) \in Nat /\ Count(tb[p], d) \in Nat /\ Count(t, d) \in Nat
  BY Finite
<1>5. Cardinality(Refs(tc, d)) = Cardinality(Refs(tb, d)) + Count(t, d) - Count(tb[p], d)
  BY <1>1, <1>2, <1>3, <1>4
<1> QED
  BY <1>5 DEF tc

Put(t, f, e) == [t EXCEPT ![f] = e]
Is(e, d) == IF e = d THEN 1 ELSE 0

\* One entry of a table replaced.
LEMMA OneEntry ==
    ASSUME NEW t \in Table, NEW f \in Fd, NEW e, NEW d
    PROVE  Count(Put(t, f, e), d) = Count(t, d) + Is(e, d) - Is(t[f], d)
<1> USE DEF Put, Is
<1> DEFINE u == Put(t, f, e)
           R == Descriptors(t, d) \ {f}
<1>1. /\ Cardinality(R) = IF f \in Descriptors(t, d) THEN Count(t, d) - 1 ELSE Count(t, d)
      /\ IsFiniteSet(R) /\ Cardinality(R) \in Nat /\ Count(t, d) \in Nat
  BY Finite, FS_RemoveElement, FS_CardinalityType DEF Count
<1>2. f \in Descriptors(t, d) <=> t[f] = d
  BY DEF Descriptors
<1>3. CASE e = d
  <2>1. Descriptors(u, d) = R \cup {f} /\ f \notin R
    BY <1>3 DEF Descriptors, Table
  <2> HIDE DEF R, u
  <2>2. Cardinality(R \cup {f}) = Cardinality(R) + 1
    BY <1>1, <2>1, FS_AddElement
  <2>3. Count(u, d) = Cardinality(R) + 1
    BY <2>1, <2>2 DEF Count
  <2>4. Count(u, d) = Count(t, d) + 1 - (IF t[f] = d THEN 1 ELSE 0)
    BY <1>1, <1>2, <2>3
  <2> QED
    BY <1>3, <2>4 DEF u
<1>4. CASE e # d
  <2>1. Descriptors(u, d) = R
    BY <1>4 DEF Descriptors, Table
  <2> HIDE DEF R, u
  <2>2. Count(u, d) = Cardinality(R)
    BY <2>1 DEF Count
  <2>3. Count(u, d) = Count(t, d) + 0 - (IF t[f] = d THEN 1 ELSE 0)
    BY <1>1, <1>2, <2>2
  <2> QED
    BY <1>4, <2>3 DEF u
<1> QED
  BY <1>3, <1>4

\* The empty table, and the entry of a table that is not.
LEMMA Counted ==
    ASSUME NEW t \in Table, NEW d \in Desc
    PROVE  /\ NoTable \in Table /\ Count(NoTable, d) = 0
           /\ Count(t, d) = 0 <=> \A f \in Fd : t[f] # d
<1>1. NoTable \in Table /\ Descriptors(NoTable, d) = {}
  BY DEF NoTable, Table, Descriptors, Desc, NoDesc
<1>2. Count(NoTable, d) = 0
  BY <1>1, FS_EmptySet DEF Count
<1>3. Count(t, d) = 0 <=> Descriptors(t, d) = {}
  BY Finite, FS_EmptySet DEF Count
<1>4. Descriptors(t, d) = {} <=> \A f \in Fd : t[f] # d
  BY DEF Descriptors
<1> QED
  BY <1>1, <1>2, <1>3, <1>4

\* The table a process starts with.
FreshTable(n) == [f \in Fd |-> IF f < Stdio THEN n + f ELSE NoDesc]

\* Each of its descriptions has one descriptor.
LEMMA FreshCount ==
    ASSUME NEW n \in Nat \ {0}, n + Stdio <= MaxDesc + 1, NEW d \in Desc
    PROVE  /\ FreshTable(n) \in Table
           /\ Count(FreshTable(n), d) = IF n <= d /\ d < n + Stdio THEN 1 ELSE 0
<1>1. FreshTable(n) \in Table
  BY DescriptorAssumption DEF FreshTable, Table, Fd, Desc
<1>2. CASE n <= d /\ d < n + Stdio
  <2>1. d - n \in Fd
    BY <1>2, DescriptorAssumption DEF Fd, Desc
  <2>2. ASSUME NEW f \in Fd PROVE FreshTable(n)[f] = d <=> f = d - n
    BY <1>2, DescriptorAssumption DEF FreshTable, Fd, Desc, NoDesc
  <2>3. Descriptors(FreshTable(n), d) = {d - n}
    BY <2>1, <2>2 DEF Descriptors
  <2> QED
    BY <1>1, <1>2, <2>3, FS_Singleton DEF Count
<1>3. CASE ~(n <= d /\ d < n + Stdio)
  <2>1. ASSUME NEW f \in Fd PROVE FreshTable(n)[f] # d
    BY <1>3, DescriptorAssumption DEF FreshTable, Fd, Desc, NoDesc
  <2> QED
    BY <1>1, <1>3, <2>1, Counted
<1> QED
  BY <1>2, <1>3

\* A description is counted where it is referred to.
LEMMA Referred ==
    ASSUME NEW tb \in [Pid -> Table], NEW d \in Desc
    PROVE  /\ \A p \in Pid : Count(tb[p], d) <= Cardinality(Refs(tb, d))
           /\ Cardinality(Refs(tb, d)) = 0 <=> \A p \in Pid, f \in Fd : tb[p][f] # d
<1>1. ASSUME NEW p \in Pid PROVE Count(tb[p], d) <= Cardinality(Refs(tb, d))
  BY Split, Finite
<1>2. Cardinality(Refs(tb, d)) = 0 <=> Refs(tb, d) = {}
  BY Finite, FS_EmptySet
<1>3. Refs(tb, d) = {} <=> \A p \in Pid, f \in Fd : tb[p][f] # d
  <2>1. ASSUME Refs(tb, d) = {}, NEW p \in Pid, NEW f \in Fd PROVE tb[p][f] # d
    <3>1. <<p, f>> \in Pid \X Fd /\ <<p, f>> \notin Refs(tb, d)
      BY <2>1
    <3> QED
      BY <3>1 DEF Refs
  <2>2. ASSUME \A p \in Pid, f \in Fd : tb[p][f] # d PROVE Refs(tb, d) = {}
    BY <2>2 DEF Refs
  <2> QED
    BY <2>1, <2>2
<1> QED
  BY <1>1, <1>2, <1>3

--------------------------------------------------------------------------------
(* The part of the invariant that makes the counts exact. *)

\* Ids not allocated yet are nowhere.
Unused ==
    \A d \in Desc : d >= next_desc =>
        /\ refs[d] = 0
        /\ d \notin ends /\ d \notin special /\ d \notin opened
        /\ \A t \in Thread : d \notin job[t].todo /\ d \notin job[t].seen

\* A process without a table has no descriptors.  Drivers and exits are of spawned processes, and
\* so are tables, but for the one register_process is at work on.
Registered ==
    /\ \A p \in Pid \ has : tables[p] = NoTable
    /\ has \subseteq spawned \cup {registering}
    /\ owners \subseteq spawned /\ exited \subseteq spawned /\ reaped \subseteq exited

CountInv == TypeOK /\ RefCountExact /\ Unused /\ Registered

\* What an entry of a table tells.
LEMMA Entry ==
    ASSUME CountInv, NEW p \in Pid, NEW f \in Fd, tables[p][f] # NoDesc
    PROVE  tables[p][f] \in Desc /\ refs[tables[p][f]] >= 1 /\ tables[p][f] < next_desc /\ p \in has
<1> DEFINE d == tables[p][f]
<1>1. d \in Desc
  BY DEF CountInv, TypeOK, Table
<1>2. refs[d] = Cardinality(Refs(tables, d)) /\ refs[d] \in Nat /\ tables \in [Pid -> Table]
  BY <1>1 DEF CountInv, TypeOK, RefCountExact, Refs
<1>3. Cardinality(Refs(tables, d)) # 0
  <2> HIDE DEF d
  <2>1. Cardinality(Refs(tables, d)) = 0 <=> \A q \in Pid, g \in Fd : tables[q][g] # d
    BY <1>1, <1>2, Referred
  <2> QED
    BY <2>1 DEF d
<1>4. refs[d] >= 1
  BY <1>2, <1>3
<1>5. d < next_desc
  BY <1>1, <1>4 DEF CountInv, Unused, TypeOK, Desc
<1>6. p \in has
  BY DEF CountInv, Registered, NoTable
<1> QED
  BY <1>1, <1>4, <1>5, <1>6

\* The actions of a process that touch neither tables nor counts.
Quiet(p) == Register(p) \/ RecordOwner(p) \/ ExitProcess(p) \/ Finish(p) \/ Waitpid(p)

\* Process p gets table t, and the counts follow.
TableStep(p, t) ==
    /\ t \in Table
    /\ tables' = [tables EXCEPT ![p] = t]
    /\ refs' \in [Desc -> Nat]
    /\ \A d \in Desc : refs'[d] = refs[d] + Count(t, d) - Count(tables[p], d)

\* Such a step keeps the counts exact.
LEMMA TableStepCounts ==
    ASSUME CountInv, NEW p \in Pid, NEW t, TableStep(p, t)
    PROVE  tables' \in [Pid -> Table] /\ refs' \in [Desc -> Nat] /\ RefCountExact'
<1>1. t \in Table /\ tables \in [Pid -> Table] /\ tables' = [tables EXCEPT ![p] = t]
  BY DEF TableStep, CountInv, TypeOK
<1>2. ASSUME NEW d \in Desc PROVE refs'[d] = Cardinality(Refs(tables', d))
  <2>1. refs[d] = Cardinality(Refs(tables, d))
    BY DEF CountInv, RefCountExact, Refs
  <2>2. Cardinality(Refs([tables EXCEPT ![p] = t], d)) = Cardinality(Refs(tables, d)) + Count(t, d) - Count(tables[p], d)
    BY Zenon, <1>1, OneTable
  <2> QED
    BY <1>1, <2>1, <2>2 DEF TableStep
<1>3. RefCountExact'
  BY <1>2 DEF RefCountExact, Refs
<1> QED
  BY <1>1, <1>3 DEF TableStep

\* One descriptor of p that was free refers to d afterwards.
LEMMA AddEntry ==
    ASSUME CountInv, NEW p \in Pid, NEW f \in Fd, tables[p][f] = NoDesc, NEW d \in Desc,
           tables' = [tables EXCEPT ![p][f] = d], refs' = [refs EXCEPT ![d] = @ + 1]
    PROVE  TableStep(p, Put(tables[p], f, d))
<1>1. tables \in [Pid -> Table] /\ refs \in [Desc -> Nat] /\ tables[p] \in Table
  BY DEF CountInv, TypeOK
<1> DEFINE t == Put(tables[p], f, d)
<1>2. t \in Table /\ tables' = [tables EXCEPT ![p] = t] /\ refs' \in [Desc -> Nat]
  BY <1>1 DEF Table, Put
<1>3. ASSUME NEW e \in Desc PROVE refs'[e] = refs[e] + Count(t, e) - Count(tables[p], e)
  <2>1. Count(t, e) = Count(tables[p], e) + Is(d, e) - Is(tables[p][f], e)
    BY <1>1, OneEntry, Zenon
  <2>2. tables[p][f] # e
    BY DEF Desc, NoDesc
  <2>3. Count(tables[p], e) \in Nat /\ refs[e] \in Nat
    BY <1>1, Finite
  <2>4. refs'[e] = refs[e] + (IF d = e THEN 1 ELSE 0)
    BY <1>1
  <2> HIDE DEF t
  <2> QED
    BY <2>1, <2>2, <2>3, <2>4 DEF Is
<1> QED
  BY Zenon, <1>2, <1>3 DEF TableStep

\* One descriptor of p that referred to a description refers to e, or to nothing, afterwards.
LEMMA ReplaceEntry ==
    ASSUME CountInv, NEW p \in Pid, NEW f \in Fd, tables[p][f] # NoDesc, NEW e \in Desc \cup {NoDesc},
           e # NoDesc => refs[e] >= 1,
           tables' = [tables EXCEPT ![p][f] = e],
           refs' \in [Desc -> Nat],
           \A d \in Desc : refs'[d] = refs[d] + Is(e, d) - Is(tables[p][f], d)
    PROVE  TableStep(p, Put(tables[p], f, e))
<1>1. tables \in [Pid -> Table] /\ refs \in [Desc -> Nat] /\ tables[p] \in Table
  BY DEF CountInv, TypeOK
<1> DEFINE t == Put(tables[p], f, e)
<1>2. t \in Table /\ tables' = [tables EXCEPT ![p] = t]
  BY <1>1 DEF Table, Put
<1>3. ASSUME NEW d \in Desc PROVE refs'[d] = refs[d] + Count(t, d) - Count(tables[p], d)
  <2>1. Count(t, d) = Count(tables[p], d) + Is(e, d) - Is(tables[p][f], d)
    BY <1>1, OneEntry, ZenonT(60)
  <2>2. Count(tables[p], d) \in Nat /\ refs[d] \in Nat
    BY <1>1, Finite
  <2>3. refs'[d] = refs[d] + Is(e, d) - Is(tables[p][f], d)
    OBVIOUS
  <2> HIDE DEF t
  <2> QED
    BY <2>1, <2>2, <2>3 DEF Is
<1> QED
  BY Zenon, <1>2, <1>3 DEF TableStep

\* A process that starts, with descriptors of its own or its parent's.
LEMMA SpawnCounts ==
    ASSUME CountInv, NEW p \in Pid, SpawnFresh(p) \/ \E parent \in Pid : SpawnForked(parent, p)
    PROVE  \E t : TableStep(p, t)
<1>1. tables \in [Pid -> Table] /\ refs \in [Desc -> Nat] /\ next_desc \in Nat \ {0}
  BY DescriptorAssumption DEF CountInv, TypeOK
<1>2. p \notin has /\ tables[p] = NoTable
  <2>1. p \notin spawned /\ registering = NoPid
    BY DEF SpawnFresh, SpawnForked, CreateTable, Idle
  <2>2. p # NoPid
    BY DescriptorAssumption
  <2> QED
    BY <2>1, <2>2 DEF CountInv, Registered
<1>3. NoTable \in Table /\ \A d \in Desc : Count(NoTable, d) = 0
  <2>1. NoTable \in Table
    BY DEF NoTable, Table
  <2> QED
    BY <2>1, Counted
<1>4. CASE SpawnFresh(p)
  <2> DEFINE t == FreshTable(next_desc)
  <2>1. /\ next_desc + Stdio <= MaxDesc + 1
        /\ tables' = [tables EXCEPT ![p] = t]
        /\ refs' = [d \in Desc |-> IF next_desc <= d /\ d < next_desc + Stdio THEN 1 ELSE refs[d]]
    BY <1>4 DEF SpawnFresh, FreshTable
  <2>2. \A d \in Desc : t \in Table /\ Count(t, d) = IF next_desc <= d /\ d < next_desc + Stdio THEN 1 ELSE 0
    BY <1>1, <2>1, FreshCount
  <2>3. t \in Table
    BY <1>1, <2>1, DescriptorAssumption DEF FreshTable, Table, Fd, Desc
  <2> HIDE DEF t
  <2>4. refs' \in [Desc -> Nat]
    BY <1>1, <2>1
  <2>5. ASSUME NEW d \in Desc PROVE refs'[d] = refs[d] + Count(t, d) - Count(tables[p], d)
    <3>1. Count(tables[p], d) = 0
      BY <1>2, <1>3
    <3>2. next_desc <= d => refs[d] = 0
      BY <1>1 DEF CountInv, Unused, Desc
    <3> QED
      BY <1>1, <2>1, <2>2, <3>1, <3>2
  <2> QED
    BY Zenon, <2>1, <2>3, <2>4, <2>5 DEF TableStep
<1>5. ASSUME NEW parent \in Pid, SpawnForked(parent, p) PROVE TableStep(p, tables[parent])
  <2>1. /\ tables' = [tables EXCEPT ![p] = tables[parent]]
        /\ refs' = [d \in Desc |-> refs[d] + Count(tables[parent], d)]
    BY <1>5 DEF SpawnForked
  <2>2. tables[parent] \in Table /\ \A d \in Desc : Count(tables[parent], d) \in Nat
    BY <1>1, Finite
  <2>3. \A d \in Desc : Count(tables[p], d) = 0
    BY <1>2, <1>3
  <2> QED
    BY <1>1, <2>1, <2>2, <2>3 DEF TableStep
<1> QED
  BY <1>4, <1>5

\* A process that opens or duplicates.
LEMMA OpenCounts ==
    ASSUME CountInv, NEW p \in Pid,
           \/ OpenFile(p)
           \/ \E old \in Fd : Dup(p, old)
           \/ \E old, min \in Fd : FcntlDup(p, old, min) \/ Dup2(p, old, min)
    PROVE  \E t : TableStep(p, t)
<1>1. tables \in [Pid -> Table] /\ refs \in [Desc -> Nat] /\ next_desc \in Nat \ {0}
  BY DescriptorAssumption DEF CountInv, TypeOK
<1>2. CASE OpenFile(p)
  <2>1. PICK f \in Fd : tables[p][f] = NoDesc /\ tables' = [tables EXCEPT ![p][f] = next_desc]
    BY Zenon, <1>2 DEF OpenFile, AllocateFd, Free
  <2>2. next_desc \in Desc /\ refs[next_desc] = 0
    BY <1>1, <1>2, DescriptorAssumption DEF OpenFile, Desc, CountInv, Unused
  <2>3. refs' = [refs EXCEPT ![next_desc] = @ + 1]
    BY <1>1, <1>2, <2>2 DEF OpenFile
  <2> QED
    BY Zenon, <2>1, <2>2, <2>3, AddEntry
<1>3. CASE \/ \E old \in Fd : Dup(p, old)
           \/ \E old, min \in Fd : FcntlDup(p, old, min) \/ Dup2(p, old, min)
  <2>1. PICK old \in Fd, new \in Fd :
            /\ tables[p][old] # NoDesc /\ tables[p][new] = NoDesc
            /\ tables' = [tables EXCEPT ![p][new] = tables[p][old]]
            /\ refs' = Increment(refs, tables[p][old])
    BY <1>3 DEF Dup, FcntlDup, Dup2, Duplicate, AllocateFd, AllocateFdFrom, Free
  <2>2. tables[p][old] \in Desc
    BY <2>1, Entry
  <2> QED
    BY Zenon, <2>1, <2>2, AddEntry DEF Increment
<1> QED
  BY <1>2, <1>3

\* Both ends of a pipe or PTY.
LEMMA PairCounts ==
    ASSUME CountInv, NEW p \in Pid, OpenPair(p)
    PROVE  \E t : TableStep(p, t)
<1> DEFINE d1 == next_desc
           d2 == next_desc + 1
<1>1. tables \in [Pid -> Table] /\ tables[p] \in Table /\ refs \in [Desc -> Nat]
  BY DEF CountInv, TypeOK
<1>2. d1 \in Desc /\ d2 \in Desc /\ d1 # d2
  BY DescriptorAssumption DEF OpenPair, CreatePair, CountInv, TypeOK, Desc
<1>3. PICK f \in Fd, g \in Fd :
          /\ tables[p][f] = NoDesc /\ Put(tables[p], f, d1)[g] = NoDesc
          /\ tables' = [tables EXCEPT ![p] = Put(Put(tables[p], f, d1), g, d2)]
  BY Zenon DEF OpenPair, AllocateFd, Free, Put
<1>4. refs' = Increment(Increment(refs, d1), d2)
  BY DEF OpenPair
<1> HIDE DEF d1, d2
<1> DEFINE t == Put(tables[p], f, d1)
           u == Put(t, g, d2)
<1>5. t \in Table /\ u \in Table
  BY <1>1, <1>2 DEF Put, Table
<1>6. refs' \in [Desc -> Nat]
  BY <1>1, <1>2, <1>4 DEF Increment
<1>7. ASSUME NEW d \in Desc PROVE refs'[d] = refs[d] + Count(u, d) - Count(tables[p], d)
  <2>1. Count(t, d) = Count(tables[p], d) + Is(d1, d) - Is(tables[p][f], d)
    BY <1>1, OneEntry, ZenonT(60)
  <2>t. t \in Table
    BY <1>5
  <2> HIDE DEF t
  <2>2. Count(u, d) = Count(t, d) + Is(d2, d) - Is(t[g], d)
    BY <2>t, OneEntry, ZenonT(60)
  <2> HIDE DEF u
  <2>3. Is(tables[p][f], d) = 0 /\ Is(t[g], d) = 0
    BY <1>3 DEF Is, Desc, NoDesc, t
  <2>4. refs'[d] = refs[d] + Is(d1, d) + Is(d2, d)
    BY <1>1, <1>2, <1>4 DEF Increment, Is
  <2>5. Count(tables[p], d) \in Nat /\ refs[d] \in Nat
    BY <1>1, Finite
  <2>6. Is(d1, d) \in Nat /\ Is(d2, d) \in Nat
    BY DEF Is
  <2> QED
    BY <2>1, <2>2, <2>3, <2>4, <2>5, <2>6
<1> HIDE DEF t
<1> QED
  BY Zenon, <1>3, <1>5, <1>6, <1>7 DEF TableStep, t

\* A close, and a dup2 onto a descriptor in use: the saturating decrement never saturates.
LEMMA CloseCounts ==
    ASSUME CountInv, NEW p \in Pid,
           \/ \E f \in Fd : Close(p, f)
           \/ \E old, new \in Fd : Dup2Replaces(p, old, new)
    PROVE  \E t : TableStep(p, t)
<1>1. refs \in [Desc -> Nat]
  BY DEF CountInv, TypeOK
<1>2. ASSUME NEW f \in Fd, Close(p, f) PROVE TableStep(p, Put(tables[p], f, NoDesc))
  <2> DEFINE d == tables[p][f]
  <2>1. d # NoDesc /\ tables' = [tables EXCEPT ![p][f] = NoDesc] /\ refs' = Decrement(refs, d)
    BY <1>2 DEF Close
  <2>2. d \in Desc /\ refs[d] >= 1
    BY <2>1, Entry
  <2> HIDE DEF d
  <2>3. /\ refs' \in [Desc -> Nat]
        /\ \A e \in Desc : refs'[e] = refs[e] + Is(NoDesc, e) - Is(d, e)
    BY <1>1, <2>1, <2>2 DEF Decrement, Minus, Is, Desc, NoDesc
  <2> QED
    BY Zenon, <2>1, <2>3, ReplaceEntry DEF d
<1>3. ASSUME NEW old \in Fd, NEW new \in Fd, Dup2Replaces(p, old, new)
      PROVE  TableStep(p, Put(tables[p], new, tables[p][old]))
  <2> DEFINE d == tables[p][new]
             e == tables[p][old]
  <2>1. /\ d # NoDesc /\ e # NoDesc /\ tables' = [tables EXCEPT ![p][new] = e]
        /\ refs' = Increment(Decrement(refs, d), e)
    BY <1>3 DEF Dup2Replaces
  <2>2. d \in Desc /\ refs[d] >= 1 /\ e \in Desc /\ refs[e] >= 1
    BY <2>1, Entry
  <2> HIDE DEF d, e
  <2>3. /\ refs' \in [Desc -> Nat]
        /\ \A c \in Desc : refs'[c] = refs[c] + Is(e, c) - Is(d, c)
    BY <1>1, <2>1, <2>2 DEF Increment, Decrement, Minus, Is
  <2> QED
    BY Zenon, <2>1, <2>2, <2>3, ReplaceEntry DEF d, e
<1> QED
  BY <1>2, <1>3

\* The end of a process's table.
LEMMA CleanupCounts ==
    ASSUME CountInv, NEW p \in Pid,
           tables' = [tables EXCEPT ![p] = NoTable],
           refs' = [d \in Desc |-> Minus(refs[d], Count(tables[p], d))]
    PROVE  TableStep(p, NoTable)
<1>1. tables \in [Pid -> Table] /\ refs \in [Desc -> Nat]
  BY DEF CountInv, TypeOK
<1>2. NoTable \in Table
  BY DEF NoTable, Table
<1>3. ASSUME NEW d \in Desc
      PROVE  /\ refs'[d] \in Nat
             /\ refs'[d] = refs[d] + Count(NoTable, d) - Count(tables[p], d)
  <2>1. refs[d] = Cardinality(Refs(tables, d)) /\ refs[d] \in Nat /\ Count(tables[p], d) \in Nat
    BY <1>1, Finite DEF CountInv, RefCountExact, Refs
  <2>2. Count(tables[p], d) <= refs[d] /\ Count(NoTable, d) = 0
    BY <1>1, <1>2, <2>1, Referred, Counted
  <2> QED
    BY <2>1, <2>2 DEF Minus
<1> QED
  BY <1>2, <1>3 DEF TableStep

\* The counts follow the tables in every step.
LEMMA TablesFollow ==
    ASSUME CountInv, [Next]_vars
    PROVE  (\E p \in Pid : \E t : TableStep(p, t)) \/ UNCHANGED <<tables, refs>>
<1>1. ASSUME NEW p \in Pid, ProcessNext(p) PROVE (\E t : TableStep(p, t)) \/ UNCHANGED <<tables, refs>>
  <2>1. CASE SpawnFresh(p) \/ \E parent \in Pid : SpawnForked(parent, p)
    BY <2>1, SpawnCounts
  <2>2. CASE \/ OpenFile(p)
             \/ \E old \in Fd : Dup(p, old)
             \/ \E old, min \in Fd : FcntlDup(p, old, min) \/ Dup2(p, old, min)
    BY <2>2, OpenCounts
  <2>3. CASE OpenPair(p)
    BY <2>3, PairCounts
  <2>4. CASE \/ \E f \in Fd : Close(p, f)
             \/ \E old, new \in Fd : Dup2Replaces(p, old, new)
    BY <2>4, CloseCounts
  <2>5. CASE OpenPairHalf(p) \/ OpenPairFull(p) \/ Quiet(p)
    BY <2>5 DEF OpenPairHalf, OpenPairFull, Quiet, Register, RecordOwner, ExitProcess, Finish, Waitpid
  <2> QED
    BY <1>1, <2>1, <2>2, <2>3, <2>4, <2>5 DEF ProcessNext, Quiet
<1>2. ASSUME NEW t \in Thread, JobNext(t)
      PROVE  (\E p \in Pid : \E u : TableStep(p, u)) \/ UNCHANGED <<tables, refs>>
  <2>1. CASE CleanupTables(t) /\ job[t].pid \in has
    <3>1. job[t].pid \in Pid
      BY <2>1 DEF CountInv, TypeOK
    <3>2. /\ tables' = [tables EXCEPT ![job[t].pid] = NoTable]
          /\ refs' = [d \in Desc |-> Minus(refs[d], Count(tables[job[t].pid], d))]
      BY <2>1 DEF CleanupTables
    <3>3. TableStep(job[t].pid, NoTable)
      BY Zenon, <3>1, <3>2, CleanupCounts
    <3> QED
      BY <3>1, <3>3
  <2>2. CASE ~(CleanupTables(t) /\ job[t].pid \in has)
    BY Zenon, <1>2, <2>2 DEF JobNext, CleanupTables, CleanupSnapshot, CloseEnd, Done, CloseSpecialKeeps, CloseSpecial
  <2> QED
    BY <2>1, <2>2
<1>3. CASE UNCHANGED vars
  BY <1>3 DEF vars
<1> QED
  BY <1>1, <1>2, <1>3 DEF Next

\* The exactness of the counts and the shape of the tables.
LEMMA ExactStep ==
    ASSUME CountInv, [Next]_vars
    PROVE  tables' \in [Pid -> Table] /\ refs' \in [Desc -> Nat] /\ RefCountExact'
<1>1. ASSUME NEW p \in Pid, NEW t, TableStep(p, t)
      PROVE  tables' \in [Pid -> Table] /\ refs' \in [Desc -> Nat] /\ RefCountExact'
  BY <1>1, TableStepCounts
<1>2. CASE UNCHANGED <<tables, refs>>
  BY <1>2 DEF CountInv, TypeOK, RefCountExact
<1> QED
  BY <1>1, <1>2, TablesFollow

\* The records of a thread that does nothing, begins a cleanup or has something to close.
LEMMA Jobs ==
    /\ NoJob \in Job /\ NoJob.pc = "idle" /\ NoJob.pid = NoPid /\ NoJob.todo = {} /\ NoJob.seen = {}
    /\ \A p \in Pid : LET j == [NoJob EXCEPT !.pc = "begin", !.pid = p]
                      IN  j \in Job /\ j.pc = "begin" /\ j.pid = p /\ j.todo = {} /\ j.seen = {}
    /\ \A ds \in SUBSET Desc : LET j == [NoJob EXCEPT !.pc = "close", !.todo = ds]
                               IN  j \in Job /\ j.pc = "close" /\ j.pid = NoPid /\ j.todo = ds /\ j.seen = {}
BY Zenon DEF NoJob, Job

\* A thread's list only grows by descriptions that are referred to.
Grows(j, k) ==
    /\ k \in Job
    /\ \A d \in Desc : d \in k.todo \/ d \in k.seen => d \in j.todo \/ d \in j.seen \/ refs[d] >= 1

\* One thread's job changes in a step.
JobStep(t, k) == Grows(job[t], k) /\ job' = [job EXCEPT ![t] = k]

\* Every step changes the job of one thread, if any.
LEMMA JobsFollow ==
    ASSUME CountInv, [Next]_vars
    PROVE  (\E t \in Thread : \E k : JobStep(t, k)) \/ UNCHANGED job
<1> USE DEF JobStep, Grows
<1>1. Kernel \in Thread /\ Pid \subseteq Thread /\ job \in [Thread -> Job]
  BY DEF Thread, CountInv, TypeOK
<1>2. ASSUME NEW p \in Pid, ProcessNext(p) PROVE (\E t \in Thread : \E k : JobStep(t, k)) \/ UNCHANGED job
  <2>1. CASE \/ \E f \in Fd : Close(p, f)
             \/ \E old, new \in Fd : Dup2Replaces(p, old, new)
    <3>1. PICK f \in Fd : tables[p][f] # NoDesc /\ ThenClose({tables[p][f]})
      BY Zenon, <2>1 DEF Close, Dup2Replaces
    <3>2. tables[p][f] \in Desc /\ refs[tables[p][f]] >= 1
      BY <3>1, Entry
    <3> DEFINE k == [NoJob EXCEPT !.pc = "close", !.todo = {tables[p][f]}]
    <3>3. k \in Job /\ k.todo = {tables[p][f]} /\ k.seen = {}
      BY Zenon, <3>2 DEF NoJob, Job
    <3>4. job' = [job EXCEPT ![Kernel] = k]
      BY <3>1 DEF ThenClose
    <3> HIDE DEF k
    <3> QED
      BY Zenon, <1>1, <3>2, <3>3, <3>4
  <2>2. CASE ExitProcess(p) \/ Finish(p) \/ Waitpid(p)
    <3>1. PICK t \in Thread : Begin(t, p)
      BY <1>1, <2>2 DEF ExitProcess, Finish, Waitpid
    <3> DEFINE k == [NoJob EXCEPT !.pc = "begin", !.pid = p]
    <3>2. k \in Job /\ k.todo = {} /\ k.seen = {}
      BY Zenon, Jobs
    <3>3. job' = [job EXCEPT ![t] = k]
      BY <3>1 DEF Begin
    <3> HIDE DEF k
    <3> QED
      BY Zenon, <3>2, <3>3
  <2>3. CASE \/ SpawnFresh(p) \/ (\E parent \in Pid : SpawnForked(parent, p))
             \/ Register(p) \/ RecordOwner(p)
             \/ OpenFile(p) \/ OpenPair(p) \/ OpenPairHalf(p) \/ OpenPairFull(p)
             \/ (\E f \in Fd : Dup(p, f)) \/ (\E f, g \in Fd : FcntlDup(p, f, g) \/ Dup2(p, f, g))
    BY <2>3 DEF SpawnFresh, SpawnForked, CreateTable, Register, RecordOwner, OpenFile, OpenPair, OpenPairHalf,
       OpenPairFull, CreatePair,
       Dup, FcntlDup, Duplicate, Dup2
  <2> QED
    BY <1>2, <2>1, <2>2, <2>3 DEF ProcessNext
<1>3. ASSUME NEW t \in Thread, JobNext(t) PROVE \E k : JobStep(t, k)
  <2>1. job[t] \in Job
    BY <1>1
  <2>2. CASE CleanupSnapshot(t)
    <3> DEFINE S == IF job[t].pid \in has THEN InTable(tables[job[t].pid]) ELSE {}
               k == [job[t] EXCEPT !.pc = "seen", !.seen = S]
    <3>1. S \subseteq Desc /\ \A d \in S : refs[d] >= 1
      <4>1. CASE job[t].pid \in has
        <5>1. job[t].pid \in Pid
          BY <4>1 DEF CountInv, TypeOK
        <5> QED
          BY <4>1, <5>1, Entry DEF InTable
      <4>2. CASE job[t].pid \notin has
        BY <4>2
      <4> QED
        BY <4>1, <4>2
    <3>2. job' = [job EXCEPT ![t] = k]
      BY Zenon, <1>1, <2>2 DEF CleanupSnapshot, Job
    <3> HIDE DEF S
    <3>3. k \in Job /\ k.todo = job[t].todo /\ k.seen = S
      BY Zenon, <2>1, <3>1 DEF Job
    <3> HIDE DEF k
    <3> QED
      BY Zenon, <3>1, <3>2, <3>3
  <2>3. CASE CleanupTables(t)
    <3> DEFINE k == IF job[t].pid \in has THEN [job[t] EXCEPT !.pc = "close", !.seen = {}, !.todo = job[t].seen]
                    ELSE [job[t] EXCEPT !.pc = "close", !.seen = {}]
    <3>1. job' = [job EXCEPT ![t] = k]
      BY Zenon, <1>1, <2>3 DEF CleanupTables, Job
    <3>2. k \in Job /\ k.seen = {} /\ (k.todo = job[t].todo \/ k.todo = job[t].seen)
      BY Zenon, <2>1 DEF Job
    <3> HIDE DEF k
    <3> QED
      BY Zenon, <3>1, <3>2
  <2>4. ASSUME NEW d \in Desc, CloseSpecialKeeps(t, d) PROVE \E k : JobStep(t, k)
    <3> DEFINE k == [job[t] EXCEPT !.todo = @ \ {d}]
    <3>1. job' = [job EXCEPT ![t] = k]
      BY <1>1, <2>4 DEF CloseSpecialKeeps, Job
    <3>2. k \in Job /\ k.seen = job[t].seen /\ k.todo \subseteq job[t].todo
      BY <2>1 DEF Job
    <3> HIDE DEF k
    <3> QED
      BY Zenon, <3>1, <3>2
  <2>5. ASSUME NEW d \in Desc, CloseSpecial(t, d) PROVE \E k : JobStep(t, k)
    <3> DEFINE k == [job[t] EXCEPT !.pc = "closing", !.at = d]
    <3>1. job' = [job EXCEPT ![t] = k]
      BY Zenon, <1>1, <2>5 DEF CloseSpecial, Job
    <3>2. k \in Job /\ k.seen = job[t].seen /\ k.todo = job[t].todo
      BY Zenon, <2>1 DEF Job
    <3> HIDE DEF k
    <3> QED
      BY Zenon, <3>1, <3>2
  <2>6. CASE CloseEnd(t)
    <3> DEFINE k == [job[t] EXCEPT !.pc = "close", !.at = NoDesc, !.todo = @ \ {job[t].at}]
    <3>1. job' = [job EXCEPT ![t] = k]
      BY Zenon, <1>1, <2>6 DEF CloseEnd, Job
    <3>2. k \in Job /\ k.seen = job[t].seen /\ k.todo \subseteq job[t].todo
      BY Zenon, <2>1 DEF Job
    <3> HIDE DEF k
    <3> QED
      BY Zenon, <3>1, <3>2
  <2>7. CASE Done(t)
    BY Zenon, <2>7, Jobs DEF Done
  <2> QED
    BY <1>3, <2>2, <2>3, <2>4, <2>5, <2>6, <2>7 DEF JobNext
<1>4. CASE UNCHANGED vars
  BY <1>4 DEF vars
<1> QED
  BY <1>2, <1>3, <1>4 DEF Next

\* Counting one description leaves the others alone.
LEMMA OtherCounts ==
    ASSUME NEW rc \in [Desc -> Nat], NEW e, NEW d \in Desc, d # e
    PROVE  /\ Increment(rc, e) \in [Desc -> Nat] /\ Increment(rc, e)[d] = rc[d]
           /\ Decrement(rc, e) \in [Desc -> Nat] /\ Decrement(rc, e)[d] = rc[d]
<1>1. Increment(rc, e)[d] = rc[d] /\ Decrement(rc, e)[d] = rc[d]
  BY DEF Increment, Decrement
<1>2. \A n \in Nat : Minus(n, 1) \in Nat
  BY DEF Minus
<1>3. CASE e \in Desc
  BY <1>1, <1>2, <1>3 DEF Increment, Decrement
<1>4. CASE e \notin Desc
  BY Zenon, <1>1, <1>4 DEF Increment, Decrement
<1> QED
  BY <1>3, <1>4

\* Counts after a decrement.
LEMMA Decremented ==
    ASSUME NEW rc \in [Desc -> Nat], NEW e
    PROVE  Decrement(rc, e) \in [Desc -> Nat]
<1>1. \A n \in Nat : Minus(n, 1) \in Nat
  BY DEF Minus
<1>2. CASE e \in Desc
  BY <1>1, <1>2 DEF Decrement
<1>3. CASE e \notin Desc
  BY Zenon, <1>3 DEF Decrement
<1> QED
  BY <1>2, <1>3

\* Counts after an increment.
LEMMA Incremented ==
    ASSUME NEW rc \in [Desc -> Nat], NEW e
    PROVE  /\ Increment(rc, e) \in [Desc -> Nat]
           /\ \A d \in Desc : Increment(rc, e)[d] = IF d = e THEN rc[d] + 1 ELSE rc[d]
<1>1. CASE e \in Desc
  BY <1>1 DEF Increment
<1>2. CASE e \notin Desc
  BY Zenon, <1>2 DEF Increment
<1> QED
  BY <1>1, <1>2

\* The ids that are still unused stay out of everything else.
LEMMA UnusedStep ==
    ASSUME CountInv, [Next]_vars
    PROVE  Unused'
<1>1. refs \in [Desc -> Nat] /\ tables \in [Pid -> Table] /\ next_desc \in Nat /\ job \in [Thread -> Job]
  BY DEF CountInv, TypeOK
<1>2. ASSUME NEW d \in Desc, d >= next_desc
      PROVE  refs[d] = 0 /\ (\A p \in Pid : Count(tables[p], d) = 0)
             /\ d \notin ends /\ d \notin special /\ d \notin opened
             /\ \A t \in Thread : d \notin job[t].todo /\ d \notin job[t].seen
  <2>1. /\ refs[d] = 0 /\ d \notin ends /\ d \notin special /\ d \notin opened
        /\ \A t \in Thread : d \notin job[t].todo /\ d \notin job[t].seen
    BY <1>2 DEF CountInv, Unused
  <2>2. Cardinality(Refs(tables, d)) = 0
    BY <2>1 DEF CountInv, RefCountExact, Refs
  <2>3. \A p \in Pid : Count(tables[p], d) <= 0 /\ Count(tables[p], d) \in Nat
    BY <1>1, <2>2, Referred, Finite
  <2> QED
    BY <2>1, <2>3
<1>3. /\ next_desc' \in Nat /\ next_desc <= next_desc'
      /\ \A d \in Desc : d >= next_desc' =>
            refs'[d] = 0 /\ d \notin ends' /\ d \notin special' /\ d \notin opened'
  <2>1. ASSUME NEW p \in Pid, SpawnFresh(p)
        PROVE  /\ next_desc' \in Nat /\ next_desc <= next_desc'
               /\ \A d \in Desc : d >= next_desc' =>
                     refs'[d] = 0 /\ d \notin ends' /\ d \notin special' /\ d \notin opened'
    BY <1>1, <1>2, <2>1, DescriptorAssumption DEF SpawnFresh, CreateTable, history, Desc
  <2>2. ASSUME NEW p \in Pid, NEW parent \in Pid, SpawnForked(parent, p)
        PROVE  /\ next_desc' \in Nat /\ next_desc <= next_desc'
               /\ \A d \in Desc : d >= next_desc' =>
                     refs'[d] = 0 /\ d \notin ends' /\ d \notin special' /\ d \notin opened'
    BY <1>1, <1>2, <2>2 DEF SpawnForked, CreateTable, history
  <2>3. ASSUME NEW p \in Pid, OpenFile(p)
        PROVE  /\ next_desc' \in Nat /\ next_desc <= next_desc'
               /\ \A d \in Desc : d >= next_desc' =>
                     refs'[d] = 0 /\ d \notin ends' /\ d \notin special' /\ d \notin opened'
    BY <1>1, <1>2, <2>3 DEF OpenFile, history, Desc
  <2>4. ASSUME NEW p \in Pid, OpenPair(p) \/ OpenPairHalf(p) \/ OpenPairFull(p)
        PROVE  /\ next_desc' \in Nat /\ next_desc <= next_desc'
               /\ \A d \in Desc : d >= next_desc' =>
                     refs'[d] = 0 /\ d \notin ends' /\ d \notin special' /\ d \notin opened'
    <3>1. next_desc' = next_desc + 2 /\ special' = special \cup {next_desc, next_desc + 1}
      BY <2>4 DEF OpenPair, OpenPairHalf, OpenPairFull, CreatePair
    <3>2. /\ refs' = refs \/ refs' = Increment(Increment(refs, next_desc), next_desc + 1)
          /\ ends' \subseteq ends \cup {next_desc, next_desc + 1}
          /\ opened' \subseteq opened \cup {next_desc, next_desc + 1}
      BY <2>4 DEF OpenPair, OpenPairHalf, OpenPairFull
    <3> QED
      <4>1. ASSUME NEW d \in Desc, d >= next_desc + 2
            PROVE  refs'[d] = refs[d] /\ d >= next_desc /\ d # next_desc /\ d # next_desc + 1
        <5>1. d >= next_desc /\ d # next_desc /\ d # next_desc + 1
          BY <1>1, <4>1 DEF Desc
        <5>2. Increment(refs, next_desc) \in [Desc -> Nat] /\ Increment(refs, next_desc)[d] = refs[d]
          BY <1>1, <5>1, OtherCounts
        <5>3. Increment(Increment(refs, next_desc), next_desc + 1)[d] = Increment(refs, next_desc)[d]
          BY <5>1, <5>2, OtherCounts
        <5> QED
          BY <3>2, <5>1, <5>2, <5>3
      <4> QED
        BY <1>1, <1>2, <3>1, <3>2, <4>1
  <2>5. ASSUME NEW p \in Pid, NEW f \in Fd, tables[p][f] # NoDesc,
               UNCHANGED <<next_desc, ends, special, opened>>,
               refs' \in {Increment(refs, tables[p][f]), Decrement(refs, tables[p][f])}
                 \/ \E g \in Fd : tables[p][g] # NoDesc /\ refs' = Increment(Decrement(refs, tables[p][g]), tables[p][f])
        PROVE  /\ next_desc' \in Nat /\ next_desc <= next_desc'
               /\ \A d \in Desc : d >= next_desc' =>
                     refs'[d] = 0 /\ d \notin ends' /\ d \notin special' /\ d \notin opened'
    <3>1. \A g \in Fd : tables[p][g] # NoDesc => tables[p][g] \in Desc /\ tables[p][g] < next_desc
      BY Entry
    <3>2. ASSUME NEW d \in Desc, d >= next_desc PROVE refs'[d] = refs[d]
      <4>1. \A g \in Fd : tables[p][g] # NoDesc => tables[p][g] # d
        BY <1>1, <3>1, <3>2 DEF Desc
      <4>2. CASE refs' \in {Increment(refs, tables[p][f]), Decrement(refs, tables[p][f])}
        <5>1. tables[p][f] # d
          BY <2>5, <4>1
        <5>2. Increment(refs, tables[p][f])[d] = refs[d] /\ Decrement(refs, tables[p][f])[d] = refs[d]
          BY <1>1, <5>1, OtherCounts, Zenon
        <5> QED
          BY <4>2, <5>2
      <4>3. ASSUME NEW g \in Fd, tables[p][g] # NoDesc,
                   refs' = Increment(Decrement(refs, tables[p][g]), tables[p][f])
            PROVE  refs'[d] = refs[d]
        <5>1. Decrement(refs, tables[p][g]) \in [Desc -> Nat] /\ Decrement(refs, tables[p][g])[d] = refs[d]
          BY <1>1, <4>1, <4>3, OtherCounts, Zenon
        <5>2. Increment(Decrement(refs, tables[p][g]), tables[p][f])[d] = Decrement(refs, tables[p][g])[d]
          BY <2>5, <4>1, <5>1, OtherCounts, Zenon
        <5> QED
          BY <4>3, <5>1, <5>2
      <4> QED
        BY <2>5, <4>2, <4>3
    <3> QED
      BY <1>1, <1>2, <2>5, <3>2
  <2>6. ASSUME NEW t \in Thread, CleanupTables(t)
        PROVE  /\ next_desc' \in Nat /\ next_desc <= next_desc'
               /\ \A d \in Desc : d >= next_desc' =>
                     refs'[d] = 0 /\ d \notin ends' /\ d \notin special' /\ d \notin opened'
    <3>1. UNCHANGED <<next_desc, ends, special, opened>>
      BY <2>6 DEF CleanupTables
    <3>2. ASSUME NEW d \in Desc, refs[d] = 0 PROVE refs'[d] = 0
      <4>1. CASE job[t].pid \in has
        <5>1. job[t].pid \in Pid /\ refs'[d] = Minus(refs[d], Count(tables[job[t].pid], d))
          BY <2>6, <4>1 DEF CleanupTables, CountInv, TypeOK
        <5>2. Count(tables[job[t].pid], d) \in Nat
          BY Finite
        <5> QED
          BY <3>2, <5>1, <5>2 DEF Minus
      <4>2. CASE job[t].pid \notin has
        BY <2>6, <3>2, <4>2 DEF CleanupTables
      <4> QED
        BY <4>1, <4>2
    <3> QED
      BY <1>1, <1>2, <3>1, <3>2
  <2>7. CASE UNCHANGED <<next_desc, refs, special, opened>> /\ ends' \subseteq ends
    BY <1>1, <1>2, <2>7
  <2>8. ASSUME NEW p \in Pid, ProcessNext(p)
        PROVE  /\ next_desc' \in Nat /\ next_desc <= next_desc'
               /\ \A d \in Desc : d >= next_desc' =>
                     refs'[d] = 0 /\ d \notin ends' /\ d \notin special' /\ d \notin opened'
    <3>1. CASE Quiet(p)
      BY <2>7, <3>1 DEF Quiet, Register, RecordOwner, ExitProcess, Finish, Waitpid, history
    <3>2. ASSUME NEW f \in Fd, Dup(p, f) \/ Close(p, f)
          PROVE  /\ tables[p][f] # NoDesc /\ UNCHANGED <<next_desc, ends, special, opened>>
                 /\ refs' \in {Increment(refs, tables[p][f]), Decrement(refs, tables[p][f])}
      BY <3>2 DEF Dup, Close, Duplicate, history
    <3>3. ASSUME NEW f \in Fd, NEW g \in Fd, FcntlDup(p, f, g) \/ Dup2(p, f, g)
          PROVE  /\ tables[p][f] # NoDesc /\ UNCHANGED <<next_desc, ends, special, opened>>
                 /\ refs' \in {Increment(refs, tables[p][f]), Decrement(refs, tables[p][f])}
      BY <3>3 DEF FcntlDup, Dup2, Duplicate, history
    <3>4. ASSUME NEW f \in Fd, NEW g \in Fd, Dup2Replaces(p, f, g)
          PROVE  /\ tables[p][f] # NoDesc /\ UNCHANGED <<next_desc, ends, special, opened>>
                 /\ tables[p][g] # NoDesc /\ refs' = Increment(Decrement(refs, tables[p][g]), tables[p][f])
      BY <3>4 DEF Dup2Replaces, history
    <3> QED
      <4>1. CASE \E f \in Fd : Dup(p, f) \/ Close(p, f)
        BY <2>5, <3>2, <4>1
      <4>2. CASE \E f, g \in Fd : FcntlDup(p, f, g) \/ Dup2(p, f, g)
        BY <2>5, <3>3, <4>2
      <4>3. CASE \E f, g \in Fd : Dup2Replaces(p, f, g)
        BY <2>5, <3>4, <4>3
      <4> QED
        BY <2>1, <2>2, <2>3, <2>4, <2>8, <3>1, <4>1, <4>2, <4>3, Zenon DEF ProcessNext, Quiet
  <2>9. ASSUME NEW t \in Thread, JobNext(t), ~CleanupTables(t)
        PROVE  UNCHANGED <<next_desc, refs, special, opened>> /\ ends' \subseteq ends
    BY <2>9 DEF JobNext, CleanupSnapshot, CloseEnd, Done, CloseSpecialKeeps, CloseSpecial, history
  <2>10. CASE UNCHANGED vars
    BY <2>7, <2>10 DEF vars
  <2> QED
    BY <2>6, <2>7, <2>8, <2>9, <2>10 DEF Next
<1>4. ASSUME NEW d \in Desc, d >= next_desc', NEW t \in Thread PROVE d \notin job'[t].todo /\ d \notin job'[t].seen
  <2>1. d >= next_desc
    BY <1>1, <1>3, <1>4 DEF Desc
  <2>2. refs[d] = 0 /\ \A u \in Thread : d \notin job[u].todo /\ d \notin job[u].seen
    BY <1>2, <2>1
  <2>3. ASSUME NEW u \in Thread, NEW k, JobStep(u, k) PROVE d \notin job'[t].todo /\ d \notin job'[t].seen
    <3>1. d \notin k.todo /\ d \notin k.seen /\ job' = [job EXCEPT ![u] = k]
      BY <2>2, <2>3 DEF JobStep, Grows
    <3> QED
      BY <1>1, <2>2, <3>1
  <2> QED
    BY <2>2, <2>3, JobsFollow
<1> QED
  BY <1>3, <1>4 DEF Unused

\* Tables belong to spawned processes.
LEMMA RegisteredStep ==
    ASSUME CountInv, [Next]_vars
    PROVE  Registered'
<1> USE DEF CountInv, TypeOK, Registered
<1>1. ASSUME NEW p \in Pid, SpawnFresh(p) \/ \E parent \in Pid : SpawnForked(parent, p) PROVE Registered'
  <2>1. /\ has' = has \cup {p} /\ registering' = p /\ registering = NoPid
        /\ UNCHANGED <<owners, spawned, exited, reaped>>
    BY <1>1 DEF SpawnFresh, SpawnForked, CreateTable, Idle
  <2>2. \A q \in Pid \ {p} : tables'[q] = tables[q]
    BY <1>1 DEF SpawnFresh, SpawnForked
  <2>3. has \subseteq spawned
    BY <2>1, DescriptorAssumption
  <2> QED
    BY <2>1, <2>2, <2>3
<1>2. ASSUME NEW p \in Pid, \/ Call(p)
                            \/ UNCHANGED tables,
             UNCHANGED <<has, registering, spawned, owners>>,
             exited' = exited \/ (exited' = exited \cup {p} /\ p \in spawned),
             reaped' = reaped \/ (reaped' = reaped \cup {p} /\ p \in exited),
             \A q \in Pid \ {p} : tables'[q] = tables[q]
      PROVE  Registered'
  BY <1>2 DEF Call
<1>3. ASSUME NEW p \in Pid, ProcessNext(p) PROVE Registered'
  <2>1. CASE OpenFile(p) \/ OpenPair(p)
    BY Zenon, <1>2, <2>1 DEF OpenFile, OpenPair, CreatePair, process
  <2>2. CASE OpenPairHalf(p) \/ OpenPairFull(p)
    BY <1>2, <2>2 DEF OpenPairHalf, OpenPairFull, CreatePair, process
  <2>3. CASE \E f \in Fd : Dup(p, f) \/ Close(p, f)
    BY <1>2, <2>3 DEF Dup, Close, Duplicate, process
  <2>4. CASE \E f, g \in Fd : FcntlDup(p, f, g) \/ Dup2(p, f, g) \/ Dup2Replaces(p, f, g)
    BY <1>2, <2>4 DEF FcntlDup, Dup2, Dup2Replaces, Duplicate, process
  <2>5. CASE ExitProcess(p) \/ Finish(p)
    BY <1>2, <2>5 DEF ExitProcess, Finish
  <2>6. CASE Waitpid(p)
    BY <1>2, <2>6 DEF Waitpid
  <2>7. CASE Register(p) \/ RecordOwner(p)
    BY <2>7 DEF Register, RecordOwner
  <2> QED
    BY <1>1, <1>3, <2>1, <2>2, <2>3, <2>4, <2>5, <2>6, <2>7 DEF ProcessNext
<1>4. ASSUME NEW t \in Thread, JobNext(t) PROVE Registered'
  <2>1. CASE CleanupTables(t)
    BY <2>1 DEF CleanupTables, process
  <2>2. CASE ~CleanupTables(t)
    <3>1. UNCHANGED <<tables, has, registering, spawned, exited, reaped>> /\ owners' \subseteq owners
      BY <1>4, <2>2 DEF JobNext, CleanupSnapshot, CloseEnd, Done, CloseSpecialKeeps, CloseSpecial, process
    <3> QED
      BY <3>1
  <2> QED
    BY <2>1, <2>2
<1>5. CASE UNCHANGED vars
  BY <1>5 DEF vars
<1> QED
  BY <1>3, <1>4, <1>5 DEF Next

\* How ids are allocated.
LEMMA NextDescFrom ==
    ASSUME [Next]_vars
    PROVE  \/ UNCHANGED next_desc
           \/ next_desc' = next_desc + Stdio /\ next_desc + Stdio <= MaxDesc + 1
           \/ next_desc' = next_desc + 1 /\ next_desc <= MaxDesc
           \/ next_desc' = next_desc + 2 /\ next_desc + 1 <= MaxDesc
<1>1. ASSUME NEW p \in Pid, ProcessNext(p)
      PROVE  \/ UNCHANGED next_desc
             \/ next_desc' = next_desc + Stdio /\ next_desc + Stdio <= MaxDesc + 1
             \/ next_desc' = next_desc + 1 /\ next_desc <= MaxDesc
             \/ next_desc' = next_desc + 2 /\ next_desc + 1 <= MaxDesc
  BY Zenon, <1>1 DEF ProcessNext, SpawnFresh, SpawnForked, Register, RecordOwner, OpenFile, OpenPair,
     OpenPairHalf, OpenPairFull, CreatePair, Dup, Close, FcntlDup, Duplicate, Dup2, Dup2Replaces,
     ExitProcess, Finish, Waitpid
<1>2. ASSUME NEW t \in Thread, JobNext(t) PROVE UNCHANGED next_desc
  BY <1>2 DEF JobNext, CleanupSnapshot, CleanupTables, CloseEnd, Done, CloseSpecialKeeps, CloseSpecial
<1>3. CASE UNCHANGED vars
  BY <1>3 DEF vars
<1> QED
  BY <1>1, <1>2, <1>3 DEF Next

\* The shapes of the other variables.
LEMMA TypeStep ==
    ASSUME CountInv, [Next]_vars
    PROVE  TypeOK'
<1> USE DEF CountInv
<1>1. tables' \in [Pid -> Table] /\ refs' \in [Desc -> Nat]
  BY ExactStep
<1>2. job' \in [Thread -> Job]
  <2>1. job \in [Thread -> Job]
    BY DEF TypeOK
  <2> QED
    BY <2>1, JobsFollow DEF JobStep, Grows
<1>3. next_desc' \in 1..(MaxDesc + 1)
  <2>1. next_desc \in 1..(MaxDesc + 1) /\ MaxDesc \in Nat /\ Stdio \in Nat
    BY DescriptorAssumption DEF TypeOK
  <2> QED
    BY <2>1, NextDescFrom
<1>4. \A f \in Fd : f + 1 \in 0..MaxFds
  BY DescriptorAssumption DEF Fd
<1>5. Stdio \in 0..MaxFds
  BY DescriptorAssumption
<1>6. next_fd' \in [Pid -> 0..MaxFds]
  <2>1. next_fd \in [Pid -> 0..MaxFds]
    BY DEF TypeOK
  <2>2. \/ UNCHANGED next_fd
        \/ \E p \in Pid : \E n \in 0..MaxFds : next_fd' = [next_fd EXCEPT ![p] = n]
    <3>1. ASSUME NEW p \in Pid, ProcessNext(p)
          PROVE  UNCHANGED next_fd \/ \E n \in 0..MaxFds : next_fd' = [next_fd EXCEPT ![p] = n]
      BY Zenon, <1>4, <2>1, <3>1 DEF ProcessNext, SpawnFresh, SpawnForked, Register, RecordOwner, OpenFile, OpenPair,
         OpenPairHalf, OpenPairFull, Dup, Close, FcntlDup, Duplicate, Dup2, Dup2Replaces,
         ExitProcess, Finish, Waitpid
    <3>2. ASSUME NEW t \in Thread, JobNext(t)
          PROVE  \/ UNCHANGED next_fd
                 \/ \E p \in Pid : \E n \in 0..MaxFds : next_fd' = [next_fd EXCEPT ![p] = n]
      <4>1. CASE CleanupTables(t) /\ job[t].pid \in has
        BY <1>5, <4>1 DEF CleanupTables, TypeOK
      <4>2. CASE ~(CleanupTables(t) /\ job[t].pid \in has)
        BY Zenon, <3>2, <4>2 DEF JobNext, CleanupTables, CleanupSnapshot, CloseEnd, Done, CloseSpecialKeeps,
           CloseSpecial
      <4> QED
        BY <4>1, <4>2
    <3>3. CASE UNCHANGED vars
      BY <3>3 DEF vars
    <3> QED
      BY <3>1, <3>2, <3>3 DEF Next
  <2> QED
    BY <2>1, <2>2
<1>7. /\ has' \subseteq Pid /\ owners' \subseteq Pid /\ spawned' \subseteq Pid /\ early' \subseteq Pid
      /\ exited' \subseteq Pid /\ reaped' \subseteq Pid /\ registering' \in Pid \cup {NoPid}
  <2>1. ASSUME NEW p \in Pid, ProcessNext(p)
        PROVE  /\ has' \subseteq Pid /\ owners' \subseteq Pid /\ spawned' \subseteq Pid /\ early' \subseteq Pid
               /\ exited' \subseteq Pid /\ reaped' \subseteq Pid /\ registering' \in Pid \cup {NoPid}
    BY Zenon, <2>1 DEF TypeOK, ProcessNext, SpawnFresh, SpawnForked, CreateTable, Register, RecordOwner,
       OpenFile, OpenPair, CreatePair,
       OpenPairHalf, OpenPairFull, Dup, Close, FcntlDup, Duplicate, Dup2, Dup2Replaces,
       ExitProcess, Finish, Waitpid, process
  <2>2. ASSUME NEW t \in Thread, JobNext(t)
        PROVE  /\ has' \subseteq Pid /\ owners' \subseteq Pid /\ spawned' \subseteq Pid /\ early' \subseteq Pid
               /\ exited' \subseteq Pid /\ reaped' \subseteq Pid /\ registering' \in Pid \cup {NoPid}
    BY <2>2 DEF TypeOK, JobNext, CleanupTables, CleanupSnapshot, CloseEnd, Done, CloseSpecialKeeps, CloseSpecial,
       process
  <2>3. CASE UNCHANGED vars
    BY <2>3 DEF vars, TypeOK
  <2> QED
    BY <2>1, <2>2, <2>3 DEF Next
<1>8. ends' \subseteq Desc /\ special' \subseteq Desc /\ opened' \subseteq Desc /\ missed' \subseteq Desc
  <2>1. ASSUME NEW p \in Pid, OpenPair(p) \/ OpenPairHalf(p) \/ OpenPairFull(p)
        PROVE  ends' \subseteq Desc /\ special' \subseteq Desc /\ opened' \subseteq Desc /\ missed' \subseteq Desc
    <3>1. next_desc \in Desc /\ next_desc + 1 \in Desc
      <4>1. next_desc + 1 <= MaxDesc
        BY <2>1 DEF OpenPair, OpenPairHalf, OpenPairFull, CreatePair
      <4>2. next_desc \in 1..(MaxDesc + 1)
        BY DEF TypeOK
      <4> QED
        BY <4>1, <4>2, DescriptorAssumption DEF Desc
    <3> QED
      BY Zenon, <2>1, <3>1 DEF TypeOK, OpenPair, OpenPairHalf, OpenPairFull, CreatePair
  <2>2. ASSUME NEW p \in Pid, ProcessNext(p)
        PROVE  ends' \subseteq Desc /\ special' \subseteq Desc /\ opened' \subseteq Desc /\ missed' \subseteq Desc
    BY Zenon, <2>1, <2>2 DEF TypeOK, ProcessNext, SpawnFresh, SpawnForked, CreateTable, Register, RecordOwner,
       OpenFile,
       Dup, Close, FcntlDup, Duplicate, Dup2, Dup2Replaces, ExitProcess, Finish, Waitpid, history
  <2>3. ASSUME NEW t \in Thread, CleanupTables(t)
        PROVE  ends' \subseteq Desc /\ special' \subseteq Desc /\ opened' \subseteq Desc /\ missed' \subseteq Desc
    <3>1. job[t].pid \in has => InTable(tables[job[t].pid]) \subseteq Desc
      BY DEF TypeOK, InTable, Table, NoDesc
    <3> QED
      BY <2>3, <3>1 DEF TypeOK, CleanupTables
  <2>4. ASSUME NEW t \in Thread, JobNext(t)
        PROVE  ends' \subseteq Desc /\ special' \subseteq Desc /\ opened' \subseteq Desc /\ missed' \subseteq Desc
    BY <2>3, <2>4 DEF TypeOK, JobNext, CleanupSnapshot, CloseEnd, Done, CloseSpecialKeeps, CloseSpecial, history
  <2>5. CASE UNCHANGED vars
    BY <2>5 DEF vars, TypeOK
  <2> QED
    BY <2>2, <2>4, <2>5 DEF Next
<1> QED
  BY <1>1, <1>2, <1>3, <1>6, <1>7, <1>8 DEF TypeOK

\* Together: every step keeps the counts exact.
LEMMA CountStep ==
    ASSUME CountInv, [Next]_vars
    PROVE  CountInv'
BY TypeStep, ExactStep, UnusedStep, RegisteredStep DEF CountInv

--------------------------------------------------------------------------------
(* Closing an end. *)

\* A description that has lost its last descriptor never gets another.
LEMMA NoResurrection ==
    ASSUME CountInv, [Next]_vars, NEW d \in Desc, d < next_desc, refs[d] = 0
    PROVE  refs'[d] = 0
<1>1. refs \in [Desc -> Nat] /\ tables \in [Pid -> Table] /\ next_desc \in Nat
  BY DEF CountInv, TypeOK
<1>2. \A p \in Pid : Count(tables[p], d) = 0
  <2>1. Cardinality(Refs(tables, d)) = 0
    BY DEF CountInv, RefCountExact, Refs
  <2>2. \A p \in Pid : Count(tables[p], d) <= 0 /\ Count(tables[p], d) \in Nat
    BY <1>1, <2>1, Referred, Finite
  <2> QED
    BY <2>2
<1>3. \A p \in Pid, f \in Fd : tables[p][f] # NoDesc => tables[p][f] \in Desc /\ tables[p][f] # d
  BY Entry
<1>4. ASSUME NEW p \in Pid, ProcessNext(p) PROVE refs'[d] = 0
  <2>1. CASE SpawnFresh(p)
    BY <1>1, <2>1 DEF SpawnFresh, Desc
  <2>2. ASSUME NEW parent \in Pid, SpawnForked(parent, p) PROVE refs'[d] = 0
    BY <1>1, <1>2, <2>2 DEF SpawnForked
  <2>3. CASE OpenFile(p)
    BY <1>1, <2>3 DEF OpenFile, Desc
  <2>4. CASE OpenPair(p)
    <3>1. d # next_desc /\ d # next_desc + 1
      BY <1>1 DEF Desc
    <3>2. Increment(refs, next_desc) \in [Desc -> Nat] /\ Increment(refs, next_desc)[d] = 0
      BY <1>1, <3>1, OtherCounts
    <3>3. Increment(Increment(refs, next_desc), next_desc + 1)[d] = 0
      BY <3>1, <3>2, OtherCounts
    <3> QED
      BY <2>4, <3>3 DEF OpenPair
  <2>5. ASSUME NEW f \in Fd, tables[p][f] # NoDesc,
               refs' \in {Increment(refs, tables[p][f]), Decrement(refs, tables[p][f])}
        PROVE  refs'[d] = 0
    BY <1>1, <1>3, <2>5, OtherCounts
  <2>6. ASSUME NEW f \in Fd, NEW g \in Fd, Dup2Replaces(p, f, g) PROVE refs'[d] = 0
    <3>1. tables[p][f] # d /\ tables[p][g] # d
      BY <1>3, <2>6 DEF Dup2Replaces
    <3>2. Decrement(refs, tables[p][g]) \in [Desc -> Nat] /\ Decrement(refs, tables[p][g])[d] = 0
      BY <1>1, <3>1, OtherCounts
    <3>3. Increment(Decrement(refs, tables[p][g]), tables[p][f])[d] = 0
      BY <3>1, <3>2, OtherCounts
    <3> QED
      BY <2>6, <3>3 DEF Dup2Replaces
  <2>7. CASE OpenPairHalf(p) \/ OpenPairFull(p) \/ Quiet(p)
    BY <2>7 DEF OpenPairHalf, OpenPairFull, Quiet, Register, RecordOwner, ExitProcess, Finish, Waitpid
  <2>8. ASSUME NEW f \in Fd, Dup(p, f) \/ Close(p, f) \/ \E g \in Fd : FcntlDup(p, f, g) \/ Dup2(p, f, g)
        PROVE  tables[p][f] # NoDesc /\ refs' \in {Increment(refs, tables[p][f]), Decrement(refs, tables[p][f])}
    BY <2>8 DEF Dup, Close, FcntlDup, Dup2, Duplicate
  <2> QED
    BY <1>4, <2>1, <2>2, <2>3, <2>4, <2>5, <2>6, <2>7, <2>8 DEF ProcessNext, Quiet
<1>5. ASSUME NEW t \in Thread, JobNext(t) PROVE refs'[d] = 0
  <2>1. CASE CleanupTables(t) /\ job[t].pid \in has
    <3>1. job[t].pid \in Pid /\ refs'[d] = Minus(refs[d], Count(tables[job[t].pid], d))
      BY <2>1 DEF CleanupTables, CountInv, TypeOK
    <3> QED
      BY <1>2, <3>1 DEF Minus
  <2>2. CASE ~(CleanupTables(t) /\ job[t].pid \in has)
    BY Zenon, <1>5, <2>2 DEF JobNext, CleanupTables, CleanupSnapshot, CloseEnd, Done, CloseSpecialKeeps, CloseSpecial
  <2> QED
    BY <2>1, <2>2
<1>6. CASE UNCHANGED vars
  BY <1>6 DEF vars
<1> QED
  BY <1>4, <1>5, <1>6 DEF Next

\* The end a thread is about to close is out of use, for good.
ClosingUnused ==
    \A t \in Thread : job[t].pc = "closing" =>
        job[t].at \in Desc /\ job[t].at < next_desc /\ refs[job[t].at] = 0

\* A thread is closing an end because it was, or because it saw the count at zero.
LEMMA ClosingFrom ==
    ASSUME CountInv, [Next]_vars, NEW t \in Thread, job'[t].pc = "closing"
    PROVE  job'[t] = job[t] \/ \E d \in Desc : CloseSpecial(t, d) /\ job'[t].at = d
<1>1. job \in [Thread -> Job] /\ Kernel \in Thread /\ Pid \subseteq Thread
  BY DEF CountInv, TypeOK, Thread
<1>2. ASSUME NEW u \in Thread, NEW k, job' = [job EXCEPT ![u] = k], k.pc # "closing" PROVE job'[t] = job[t]
  BY <1>1, <1>2
<1>3. ASSUME NEW p \in Pid, ProcessNext(p) PROVE job'[t] = job[t]
  <2>1. ASSUME NEW u \in Thread, Begin(u, p) PROVE job'[t] = job[t]
    BY Zenon, <1>2, <2>1, Jobs DEF Begin
  <2>2. ASSUME NEW ds, ThenClose(ds) PROVE job'[t] = job[t]
    BY <1>1, <1>2, <2>2 DEF ThenClose, NoJob
  <2> QED
    BY <1>1, <1>3, <2>1, <2>2, ZenonT(60) DEF ProcessNext, SpawnFresh, SpawnForked, CreateTable, Register,
       RecordOwner, OpenFile, OpenPair, CreatePair,
       OpenPairHalf, OpenPairFull, Dup, Close, FcntlDup, Duplicate, Dup2, Dup2Replaces,
       ExitProcess, Finish, Waitpid
<1>4. ASSUME NEW u \in Thread, JobNext(u)
      PROVE  job'[t] = job[t] \/ \E d \in Desc : CloseSpecial(t, d) /\ job'[t].at = d
  <2>1. CASE t # u
    <3>1. job'[t] = job[t]
      BY <1>1, <1>4, <2>1 DEF JobNext, CleanupTables, CleanupSnapshot, CloseEnd, Done, CloseSpecialKeeps, CloseSpecial
    <3> QED
      BY <3>1
  <2>2. CASE t = u
    <3>1. job[t] \in Job
      BY <1>1
    <3>2. CASE CleanupSnapshot(t)
      BY <1>1, <3>1, <3>2 DEF CleanupSnapshot, Job
    <3>3. CASE CleanupTables(t)
      BY <1>1, <3>1, <3>3 DEF CleanupTables, Job
    <3>4. CASE CloseEnd(t)
      BY <1>1, <3>1, <3>4 DEF CloseEnd, Job
    <3>5. CASE Done(t)
      BY <1>1, <3>5 DEF Done, NoJob
    <3>6. ASSUME NEW d \in Desc, CloseSpecialKeeps(t, d) PROVE FALSE
      BY <1>1, <3>1, <3>6 DEF CloseSpecialKeeps, Job
    <3>7. ASSUME NEW d \in Desc, CloseSpecial(t, d) PROVE job'[t].at = d
      BY <1>1, <3>1, <3>7 DEF CloseSpecial, Job
    <3> QED
      BY Zenon, <1>4, <2>2, <3>2, <3>3, <3>4, <3>5, <3>6, <3>7 DEF JobNext
  <2> QED
    BY <2>1, <2>2
<1>5. CASE UNCHANGED vars
  BY <1>5 DEF vars
<1> QED
  BY Zenon, <1>3, <1>4, <1>5 DEF Next

\* What a step does to the ends: nothing, close one, or create two.
LEMMA EndsFrom ==
    ASSUME CountInv, [Next]_vars
    PROVE  \/ UNCHANGED <<ends, special, opened>>
           \/ /\ UNCHANGED <<special, opened, refs>>
              /\ \E t \in Thread : CloseEnd(t)
           \/ /\ special' = special \cup {next_desc, next_desc + 1}
              /\ \/ /\ ends' = ends \cup {next_desc, next_desc + 1}
                    /\ opened' = opened \cup {next_desc, next_desc + 1}
                    /\ refs' = Increment(Increment(refs, next_desc), next_desc + 1)
                    /\ next_desc \in Desc /\ next_desc + 1 \in Desc
                 \/ /\ ends \subseteq ends' /\ ends' \subseteq ends \cup {next_desc, next_desc + 1}
                    /\ UNCHANGED <<refs, opened>>
<1>1. ASSUME NEW p \in Pid, ProcessNext(p)
      PROVE  \/ UNCHANGED <<ends, special, opened>>
             \/ OpenPair(p) \/ OpenPairHalf(p) \/ OpenPairFull(p)
  BY Zenon, <1>1 DEF ProcessNext, SpawnFresh, SpawnForked, CreateTable, Register, RecordOwner, OpenFile, Dup,
     Close, FcntlDup, Duplicate, Dup2,
     Dup2Replaces, ExitProcess, Finish, Waitpid, history
<1>2. ASSUME NEW p \in Pid, OpenPair(p)
      PROVE  /\ special' = special \cup {next_desc, next_desc + 1}
             /\ ends' = ends \cup {next_desc, next_desc + 1}
             /\ opened' = opened \cup {next_desc, next_desc + 1}
             /\ refs' = Increment(Increment(refs, next_desc), next_desc + 1)
             /\ next_desc \in Desc /\ next_desc + 1 \in Desc
  <2>1. /\ special' = special \cup {next_desc, next_desc + 1}
        /\ ends' = ends \cup {next_desc, next_desc + 1}
        /\ opened' = opened \cup {next_desc, next_desc + 1}
        /\ refs' = Increment(Increment(refs, next_desc), next_desc + 1)
        /\ next_desc + 1 <= MaxDesc
    BY <1>2, Zenon DEF OpenPair, CreatePair
  <2>2. next_desc \in 1..(MaxDesc + 1)
    BY DEF CountInv, TypeOK
  <2>3. next_desc \in Desc /\ next_desc + 1 \in Desc
    BY <2>1, <2>2, DescriptorAssumption DEF Desc
  <2> QED
    BY <2>1, <2>3, Zenon
<1>3. ASSUME NEW p \in Pid, OpenPairHalf(p) \/ OpenPairFull(p)
      PROVE  /\ special' = special \cup {next_desc, next_desc + 1}
             /\ ends \subseteq ends' /\ ends' \subseteq ends \cup {next_desc, next_desc + 1}
             /\ UNCHANGED <<refs, opened>>
  BY <1>3 DEF OpenPairHalf, OpenPairFull, CreatePair
<1>4. ASSUME NEW t \in Thread, JobNext(t)
      PROVE  \/ UNCHANGED <<ends, special, opened>>
             \/ UNCHANGED <<special, opened, refs>> /\ CloseEnd(t)
  BY <1>4 DEF JobNext, CleanupTables, CleanupSnapshot, CloseEnd, Done, CloseSpecialKeeps, CloseSpecial, history
<1>5. CASE UNCHANGED vars
  BY <1>5 DEF vars
<1>6. CASE \E p \in Pid : ProcessNext(p)
  BY <1>1, <1>2, <1>3, <1>6
<1>7. CASE \E t \in Thread : JobNext(t)
  BY <1>4, <1>7
<1> QED
  BY <1>5, <1>6, <1>7 DEF Next

\* No descriptor is left with a closed end, and the ends being closed stay out of use.
LEMMA DanglingStep ==
    ASSUME CountInv, ClosingUnused, NoDanglingDescriptor, [Next]_vars
    PROVE  ClosingUnused' /\ NoDanglingDescriptor'
<1>1. CountInv' /\ next_desc' >= next_desc /\ next_desc \in Nat /\ next_desc' \in Nat
  <2>1. CountInv'
    BY CountStep
  <2>2. next_desc \in Nat /\ next_desc' \in Nat
    BY <2>1 DEF CountInv, TypeOK
  <2>3. next_desc' >= next_desc
    BY <2>2, DescriptorAssumption, NextDescFrom
  <2> QED
    BY <2>1, <2>2, <2>3
<1>2. ASSUME NEW t \in Thread, job'[t].pc = "closing"
      PROVE  job'[t].at \in Desc /\ job'[t].at < next_desc' /\ refs'[job'[t].at] = 0
  <2>1. job'[t].at \in Desc /\ job'[t].at < next_desc /\ refs[job'[t].at] = 0
    <3>1. CASE job'[t] = job[t]
      BY <1>2, <3>1 DEF ClosingUnused
    <3>2. ASSUME NEW d \in Desc, CloseSpecial(t, d), job'[t].at = d
          PROVE  d \in Desc /\ d < next_desc /\ refs[d] = 0
      BY <1>1, <3>2 DEF CloseSpecial, CountInv, Unused, Desc
    <3> QED
      BY <1>2, <3>1, <3>2, ClosingFrom
  <2> DEFINE d == job'[t].at
  <2>2. d \in Desc /\ d < next_desc /\ refs[d] = 0
    BY <2>1
  <2> HIDE DEF d
  <2>3. refs'[d] = 0 /\ d < next_desc'
    BY <1>1, <2>2, NoResurrection DEF Desc
  <2> QED
    BY <2>2, <2>3 DEF d
<1>3. ASSUME NEW p \in Pid, NEW f \in Fd, tables'[p][f] \in special' PROVE tables'[p][f] \in ends'
  <2> DEFINE d == tables'[p][f]
  <2>1. d \in Desc /\ tables' \in [Pid -> Table]
    BY <1>1, <1>3 DEF CountInv, TypeOK
  <2>2. refs'[d] # 0
    <3>1. refs'[d] = Cardinality(Refs(tables', d))
      BY <1>1, <2>1 DEF CountInv, RefCountExact, Refs
    <3>2. Cardinality(Refs(tables', d)) = 0 <=> \A q \in Pid, g \in Fd : tables'[q][g] # d
      BY <2>1, Referred
    <3> QED
      BY <3>1, <3>2
  <2>3. CASE d < next_desc
    <3>1. refs[d] # 0
      BY <2>1, <2>2, <2>3, NoResurrection
    <3>2. \E q \in Pid, g \in Fd : tables[q][g] = d
      <4>1. tables \in [Pid -> Table] /\ refs[d] = Cardinality(Refs(tables, d))
        BY <2>1 DEF CountInv, TypeOK, RefCountExact, Refs
      <4>2. Cardinality(Refs(tables, d)) = 0 <=> \A q \in Pid, g \in Fd : tables[q][g] # d
        BY <2>1, <4>1, Referred
      <4> QED
        BY <3>1, <4>1, <4>2
    <3>3. d \in special => d \in ends
      BY <3>2 DEF NoDanglingDescriptor
    <3>4. d \in special
      <4>1. d # next_desc /\ d # next_desc + 1
        BY <1>1, <2>1, <2>3 DEF Desc
      <4> QED
        BY <1>3, <4>1, EndsFrom
    <3>5. ASSUME NEW t \in Thread, CloseEnd(t) PROVE d \in ends'
      <4>1. job[t].at # d
        BY <3>1, <3>5 DEF CloseEnd, ClosingUnused
      <4> QED
        BY <3>3, <3>4, <3>5, <4>1 DEF CloseEnd
    <3> QED
      BY <3>3, <3>4, <3>5, EndsFrom
  <2>4. CASE d >= next_desc
    <3>1. d \notin special /\ refs[d] = 0
      BY <2>1, <2>4 DEF CountInv, Unused
    <3> QED
      BY <1>3, <2>2, <3>1, EndsFrom
  <2> QED
    BY <1>1, <2>1, <2>3, <2>4 DEF Desc
<1> QED
  BY <1>2, <1>3 DEF ClosingUnused, NoDanglingDescriptor

--------------------------------------------------------------------------------
(* Exits and cleanups. *)

\* Which process a thread's job is for, and that a cleanup past its second lock has taken the
\* process's table.  A process that exits while it is being registered is early.
JobsKnown ==
    /\ \A t \in Thread :
        /\ job[t].pc = "idle" => job[t].pid = NoPid
        /\ job[t].pid # NoPid => job[t].pid \in exited
        /\ job[t].pc \in {"close", "closing"} => job[t].pid \notin has
    /\ \A p \in Pid : job[p].pc # "idle" => p \in exited
    /\ registering \in exited => registering \in early \ reaped

\* A thread that had nothing to do begins a job for p, which has exited, or has something to close.
LEMMA NewJob ==
    ASSUME CountInv, JobsKnown, ExitedOwnsNothing, NEW t \in Thread, job[t].pc = "idle",
           NEW k \in Job, job' = [job EXCEPT ![t] = k], k.pc # "idle",
           k.pid # NoPid => k.pid \in exited', k.pc \in {"close", "closing"} => k.pid = NoPid,
           UNCHANGED <<has, owners, registering>>, registering \in exited' => registering \in early' \ reaped',
           early \subseteq early', \A p \in reaped' \ reaped : k.pid = p,
           exited \subseteq exited', \A p \in exited' \ exited : k.pid = p, t \in Pid => t \in exited'
    PROVE  JobsKnown' /\ ExitedOwnsNothing'
<1>1. job \in [Thread -> Job] /\ has \subseteq Pid /\ NoPid \notin Pid /\ exited \subseteq Pid
  BY DescriptorAssumption DEF CountInv, TypeOK
<1>2. job'[t] = k /\ job[t].pid = NoPid /\ \A u \in Thread \ {t} : job'[u] = job[u]
  BY <1>1 DEF JobsKnown
<1>3. JobsKnown'
  <2>1. Pid \subseteq Thread
    BY DEF Thread
  <2> QED
    BY <1>1, <1>2, <2>1 DEF JobsKnown
<1>4. ASSUME NEW p \in exited', \A u \in Thread : job'[u].pid # p
      PROVE  p \notin has' /\ (p \in owners' => p \in early' \ reaped')
  <2>1. p \in exited /\ k.pid # p
    BY <1>2, <1>4
  <2>2. \A u \in Thread : job[u].pid # p
    BY <1>1, <1>2, <1>4, <2>1
  <2>3. p \notin has /\ (p \in owners => p \in early \ reaped)
    BY <2>1, <2>2 DEF ExitedOwnsNothing
  <2> QED
    BY <2>1, <2>3
<1> QED
  BY <1>3, <1>4 DEF ExitedOwnsNothing

\* What is left of a process that is through its cleanup, and that nothing brings it back.
LEMMA ExitStep ==
    ASSUME CountInv, JobsKnown, ExitedOwnsNothing, [Next]_vars
    PROVE  JobsKnown' /\ ExitedOwnsNothing'
<1>1. /\ job \in [Thread -> Job] /\ has \subseteq Pid /\ NoPid \notin Pid
      /\ owners \subseteq spawned /\ exited \subseteq spawned /\ spawned \subseteq Pid /\ reaped \subseteq exited
      /\ Kernel \in Thread /\ Pid \subseteq Thread /\ Kernel \notin Pid
  BY DescriptorAssumption DEF CountInv, TypeOK, Registered, Thread
<1>2. ASSUME UNCHANGED <<job, has, process>> PROVE JobsKnown' /\ ExitedOwnsNothing'
  BY <1>2 DEF JobsKnown, ExitedOwnsNothing, process
<1>3. ASSUME NEW p \in Pid, CreateTable(p) \/ Register(p) \/ RecordOwner(p) PROVE JobsKnown' /\ ExitedOwnsNothing'
  <2>1. /\ UNCHANGED <<exited, reaped, early, job>>
        /\ registering' \in exited => registering' = registering
        /\ has' = has \/ (has' = has \cup {p} /\ p \notin exited)
        /\ owners' = owners \/ (owners' = owners \cup {p} /\ registering = p)
    BY <1>1, <1>3 DEF CreateTable, Register, RecordOwner
  <2>2. JobsKnown'
    BY <1>1, <2>1 DEF JobsKnown
  <2>3. ExitedOwnsNothing'
    BY Zenon, <2>1 DEF ExitedOwnsNothing, JobsKnown
  <2> QED
    BY <2>2, <2>3
<1>4. ASSUME NEW p \in Pid, NEW f \in Fd, Idle, tables[p][f] # NoDesc, ThenClose({tables[p][f]}),
             UNCHANGED <<has, process>>
      PROVE  JobsKnown' /\ ExitedOwnsNothing'
  <2> DEFINE k == [NoJob EXCEPT !.pc = "close", !.todo = {tables[p][f]}]
  <2>1. tables[p][f] \in Desc
    BY <1>4, Entry
  <2>2. k \in Job /\ k.pc = "close" /\ k.pid = NoPid
    BY Zenon, <2>1 DEF NoJob, Job
  <2>3. job' = [job EXCEPT ![Kernel] = k] /\ job[Kernel].pc = "idle"
    BY <1>4 DEF ThenClose, Idle
  <2> HIDE DEF k
  <2> QED
    BY Zenon, <1>1, <1>4, <2>2, <2>3, NewJob DEF process, JobsKnown
<1>5. ASSUME NEW p \in Pid, NEW t \in Thread, Begin(t, p), job[t].pc = "idle", UNCHANGED <<has, owners, registering>>,
             exited' = exited \cup {p}, t \in Pid => t = p, early \subseteq early', reaped' \subseteq reaped \cup {p},
             registering \in exited' => registering \in early' \ reaped'
      PROVE  JobsKnown' /\ ExitedOwnsNothing'
  <2> DEFINE k == [NoJob EXCEPT !.pc = "begin", !.pid = p]
  <2>1. k \in Job /\ k.pc = "begin" /\ k.pid = p
    BY Zenon, Jobs
  <2>2. job' = [job EXCEPT ![t] = k]
    BY <1>5 DEF Begin
  <2> HIDE DEF k
  <2> QED
    BY Zenon, <1>5, <2>1, <2>2, NewJob
<1>6. ASSUME NEW p \in Pid, ProcessNext(p) PROVE JobsKnown' /\ ExitedOwnsNothing'
  <2>1. CASE SpawnFresh(p) \/ \E parent \in Pid : SpawnForked(parent, p)
    BY <1>3, <2>1 DEF SpawnFresh, SpawnForked
  <2>2. CASE \/ OpenFile(p) \/ OpenPair(p) \/ OpenPairHalf(p) \/ OpenPairFull(p) \/ (\E f \in Fd : Dup(p, f))
             \/ \E f, g \in Fd : FcntlDup(p, f, g) \/ Dup2(p, f, g)
    BY Zenon, <1>2, <2>2 DEF OpenFile, OpenPair, OpenPairHalf, OpenPairFull, CreatePair, Dup, FcntlDup,
       Duplicate, Dup2
  <2>3. CASE (\E f \in Fd : Close(p, f)) \/ \E f, g \in Fd : Dup2Replaces(p, f, g)
    BY Zenon, <1>4, <2>3 DEF Close, Dup2Replaces, Call
  <2>4. CASE ExitProcess(p)
    <3>1. registering \notin exited'
      BY <1>1, <2>4 DEF ExitProcess, Idle
    <3> QED
      BY <1>1, <1>5, <2>4, <3>1 DEF ExitProcess, Idle
  <2>5. CASE Finish(p)
    <3>1. registering \in exited' => registering \in early' \ reaped'
      BY <1>1, <2>5 DEF Finish, JobsKnown
    <3> QED
      BY Zenon, <1>1, <1>5, <2>5, <3>1 DEF Finish, JobsKnown
  <2>6. CASE Waitpid(p)
    <3>1. exited' = exited \cup {p} /\ registering \notin exited'
      BY <1>1, <2>6 DEF Waitpid, Idle
    <3> QED
      BY <1>1, <1>5, <2>6, <3>1 DEF Waitpid, Idle
  <2>7. CASE Register(p) \/ RecordOwner(p)
    BY <1>3, <2>7
  <2> QED
    BY <1>6, <2>1, <2>2, <2>3, <2>4, <2>5, <2>6, <2>7 DEF ProcessNext
<1>7. ASSUME NEW t \in Thread, NEW k \in Job, job' = [job EXCEPT ![t] = k],
             k.pid = job[t].pid, job[t].pc # "idle", k.pc # "idle",
             has' \subseteq has, UNCHANGED process,
             k.pc \in {"close", "closing"} => k.pid \notin has'
      PROVE  JobsKnown' /\ ExitedOwnsNothing'
  <2>1. job'[t] = k /\ \A u \in Thread \ {t} : job'[u] = job[u]
    BY <1>1, <1>7
  <2>2. JobsKnown'
    BY <1>1, <1>7, <2>1 DEF JobsKnown, process
  <2>3. \A u \in Thread : job'[u].pid = job[u].pid
    BY <1>7, <2>1
  <2> QED
    BY <1>7, <2>2, <2>3 DEF ExitedOwnsNothing, process
<1>8. ASSUME NEW t \in Thread, JobNext(t) PROVE JobsKnown' /\ ExitedOwnsNothing'
  <2>1. job[t] \in Job
    BY <1>1
  <2>2. CASE CleanupSnapshot(t)
    <3> DEFINE S == IF job[t].pid \in has THEN InTable(tables[job[t].pid]) ELSE {}
               k == [job[t] EXCEPT !.pc = "seen", !.seen = S]
    <3>1. S \subseteq Desc
      BY DEF CountInv, TypeOK, InTable, Table, NoDesc
    <3>2. job' = [job EXCEPT ![t] = k]
      BY Zenon, <1>1, <2>2 DEF CleanupSnapshot, Job
    <3> HIDE DEF S
    <3>3. k \in Job /\ k.pc = "seen" /\ k.pid = job[t].pid
      BY Zenon, <2>1, <3>1 DEF Job
    <3>4. job[t].pc = "begin" /\ UNCHANGED <<has, process>>
      BY <2>2 DEF CleanupSnapshot, process
    <3> HIDE DEF k
    <3> QED
      BY Zenon, <1>7, <3>2, <3>3, <3>4
  <2>3. CASE CleanupTables(t)
    <3> DEFINE k == IF job[t].pid \in has THEN [job[t] EXCEPT !.pc = "close", !.seen = {}, !.todo = job[t].seen]
                    ELSE [job[t] EXCEPT !.pc = "close", !.seen = {}]
    <3>1. job' = [job EXCEPT ![t] = k]
      BY Zenon, <1>1, <2>3 DEF CleanupTables, Job
    <3>2. k \in Job /\ k.pc = "close" /\ k.pid = job[t].pid
      BY Zenon, <2>1 DEF Job
    <3>3. /\ job[t].pc = "seen" /\ UNCHANGED process
          /\ has' \subseteq has /\ job[t].pid \notin has'
      BY <2>3 DEF CleanupTables, process
    <3> HIDE DEF k
    <3> QED
      BY Zenon, <1>7, <3>1, <3>2, <3>3
  <2>4. ASSUME NEW d \in Desc, CloseSpecialKeeps(t, d) PROVE JobsKnown' /\ ExitedOwnsNothing'
    <3> DEFINE k == [job[t] EXCEPT !.todo = @ \ {d}]
    <3>1. job' = [job EXCEPT ![t] = k]
      BY <1>1, <2>4 DEF CloseSpecialKeeps, Job
    <3>2. k \in Job /\ k.pc = job[t].pc /\ k.pid = job[t].pid
      BY <2>1 DEF Job
    <3>3. job[t].pc = "close" /\ UNCHANGED <<has, process>>
      BY <2>4 DEF CloseSpecialKeeps, process
    <3>4. job[t].pid \notin has
      BY <3>3 DEF JobsKnown
    <3> HIDE DEF k
    <3> QED
      BY Zenon, <1>7, <3>1, <3>2, <3>3, <3>4
  <2>5. ASSUME NEW d \in Desc, CloseSpecial(t, d) PROVE JobsKnown' /\ ExitedOwnsNothing'
    <3> DEFINE k == [job[t] EXCEPT !.pc = "closing", !.at = d]
    <3>1. job' = [job EXCEPT ![t] = k]
      BY Zenon, <1>1, <2>5 DEF CloseSpecial, Job
    <3>2. k \in Job /\ k.pc = "closing" /\ k.pid = job[t].pid
      BY Zenon, <2>1 DEF Job
    <3>3. job[t].pc = "close" /\ UNCHANGED <<has, process>>
      BY <2>5 DEF CloseSpecial, process
    <3>4. job[t].pid \notin has
      BY <3>3 DEF JobsKnown
    <3> HIDE DEF k
    <3> QED
      BY Zenon, <1>7, <3>1, <3>2, <3>3, <3>4
  <2>6. CASE CloseEnd(t)
    <3> DEFINE k == [job[t] EXCEPT !.pc = "close", !.at = NoDesc, !.todo = @ \ {job[t].at}]
    <3>1. job' = [job EXCEPT ![t] = k]
      BY Zenon, <1>1, <2>6 DEF CloseEnd, Job
    <3>2. k \in Job /\ k.pc = "close" /\ k.pid = job[t].pid
      BY Zenon, <2>1 DEF Job
    <3>3. job[t].pc = "closing" /\ UNCHANGED <<has, process>>
      BY <2>6 DEF CloseEnd, process
    <3>4. job[t].pid \notin has
      BY <3>3 DEF JobsKnown
    <3> HIDE DEF k
    <3> QED
      BY Zenon, <1>7, <3>1, <3>2, <3>3, <3>4
  <2>7. CASE Done(t)
    <3>1. /\ job[t].pc = "close" /\ job' = [job EXCEPT ![t] = NoJob] /\ owners' = owners \ {job[t].pid}
          /\ UNCHANGED <<has, exited, reaped, registering, early>>
      BY <2>7 DEF Done
    <3>2. job'[t].pc = "idle" /\ job'[t].pid = NoPid /\ \A u \in Thread \ {t} : job'[u] = job[u]
      BY <1>1, <3>1, Jobs, ZenonT(60)
    <3>3. job[t].pid \notin has
      BY <3>1 DEF JobsKnown
    <3>4. JobsKnown'
      BY <1>1, <3>1, <3>2 DEF JobsKnown
    <3>5. ASSUME NEW p \in exited', \A u \in Thread : job'[u].pid # p
          PROVE  p \notin has' /\ (p \in owners' => p \in early' \ reaped')
      <4>1. CASE p = job[t].pid
        BY <3>1, <3>3, <4>1
      <4>2. CASE p # job[t].pid
        <5>1. \A u \in Thread : job[u].pid # p
          BY <3>2, <3>5, <4>2
        <5>2. p \notin has /\ (p \in owners => p \in early \ reaped)
          BY <3>1, <5>1 DEF ExitedOwnsNothing
        <5> QED
          BY <3>1, <5>2
      <4> QED
        BY <4>1, <4>2
    <3> QED
      BY <3>4, <3>5 DEF ExitedOwnsNothing
  <2> QED
    BY <1>8, <2>2, <2>3, <2>4, <2>5, <2>6, <2>7 DEF JobNext
<1>9. CASE UNCHANGED vars
  BY <1>2, <1>9 DEF vars, process
<1> QED
  BY <1>6, <1>8, <1>9 DEF Next

--------------------------------------------------------------------------------
(* The last close. *)

\* A description out of use stays on a thread's list until its end is closed.
LEMMA ListKept ==
    ASSUME CountInv, JobsKnown, [Next]_vars, NEW t \in Thread, job[t].pc \in {"close", "closing"},
           NEW d \in Desc, d \in job[t].todo, refs[d] = 0, d \in ends'
    PROVE  job'[t].pc \in {"close", "closing"} /\ d \in job'[t].todo
<1>1. job \in [Thread -> Job] /\ job[t] \in Job /\ Kernel \in Thread /\ Pid \subseteq Thread /\ Kernel \notin Pid
  BY DescriptorAssumption DEF CountInv, TypeOK, Thread
<1>2. ASSUME NEW u \in Thread, NEW k, job[u].pc = "idle", job' = [job EXCEPT ![u] = k] PROVE job'[t] = job[t]
  BY <1>1, <1>2
<1>3. ASSUME NEW p \in Pid, ProcessNext(p) PROVE job'[t] = job[t]
  <2>1. CASE (\E f \in Fd : Close(p, f)) \/ \E f, g \in Fd : Dup2Replaces(p, f, g)
    BY Zenon, <1>1, <1>2, <2>1 DEF Close, Dup2Replaces, Call, Idle, ThenClose
  <2>2. CASE ExitProcess(p) \/ Waitpid(p)
    BY <1>1, <1>2, <2>2 DEF ExitProcess, Waitpid, Idle, Begin
  <2>3. CASE Finish(p)
    BY <1>1, <1>2, <2>3 DEF Finish, Begin, JobsKnown
  <2> QED
    BY Zenon, <1>3, <2>1, <2>2, <2>3 DEF ProcessNext, SpawnFresh, SpawnForked, CreateTable, Register,
       RecordOwner, OpenFile, OpenPair, CreatePair,
       OpenPairHalf, OpenPairFull, Dup, FcntlDup, Duplicate, Dup2
<1>4. ASSUME NEW u \in Thread, JobNext(u), u # t PROVE job'[t] = job[t]
  BY <1>1, <1>4 DEF JobNext, CleanupTables, CleanupSnapshot, CloseEnd, Done, CloseSpecialKeeps, CloseSpecial
<1>5. ASSUME JobNext(t) PROVE job'[t].pc \in {"close", "closing"} /\ d \in job'[t].todo
  <2>1. ~CleanupSnapshot(t) /\ ~CleanupTables(t) /\ ~Done(t)
    BY DEF CleanupSnapshot, CleanupTables, Done
  <2>2. CASE CloseEnd(t)
    <3>1. d # job[t].at
      BY <2>2 DEF CloseEnd
    <3> QED
      BY <1>1, <2>2, <3>1 DEF CloseEnd, Job
  <2>3. ASSUME NEW e \in Desc, CloseSpecialKeeps(t, e) PROVE job'[t].pc \in {"close", "closing"} /\ d \in job'[t].todo
    <3>1. d # e
      BY <2>3 DEF CloseSpecialKeeps
    <3> QED
      BY <1>1, <2>3, <3>1 DEF CloseSpecialKeeps, Job
  <2>4. ASSUME NEW e \in Desc, CloseSpecial(t, e) PROVE job'[t].pc \in {"close", "closing"} /\ d \in job'[t].todo
    BY <1>1, <2>4 DEF CloseSpecial, Job
  <2> QED
    BY Zenon, <1>5, <2>1, <2>2, <2>3, <2>4 DEF JobNext
<1>6. CASE UNCHANGED vars
  BY Zenon, <1>6 DEF vars
<1>7. CASE \E p \in Pid : ProcessNext(p)
  BY <1>3, <1>7
<1>8. CASE \E u \in Thread : JobNext(u)
  BY <1>4, <1>5, <1>8
<1> QED
  BY <1>6, <1>7, <1>8 DEF Next

\* Whoever takes the last descriptor of an end away puts it on its list, or has missed it.
LEMMA LastTaken ==
    ASSUME CountInv, [Next]_vars, NEW d \in Desc, refs[d] # 0, refs'[d] = 0, d \notin missed'
    PROVE  \E t \in Thread : job'[t].pc \in {"close", "closing"} /\ d \in job'[t].todo
<1>1. /\ refs \in [Desc -> Nat] /\ tables \in [Pid -> Table] /\ next_desc \in Nat
      /\ job \in [Thread -> Job] /\ Kernel \in Thread
  BY DEF CountInv, TypeOK, Thread
<1>2. ASSUME NEW e, refs' = Increment(refs, e) PROVE FALSE
  BY <1>1, <1>2 DEF Increment
<1>3. ASSUME NEW p \in Pid, NEW f \in Fd, tables[p][f] = d, ThenClose({tables[p][f]})
      PROVE  job'[Kernel].pc = "close" /\ d \in job'[Kernel].todo
  BY <1>1, <1>3 DEF ThenClose, NoJob
<1>4. ASSUME NEW p \in Pid, ProcessNext(p)
      PROVE  job'[Kernel].pc = "close" /\ d \in job'[Kernel].todo
  <2>1. ASSUME NEW f \in Fd, Close(p, f) PROVE tables[p][f] = d /\ ThenClose({tables[p][f]})
    <3>1. refs' = Decrement(refs, tables[p][f]) /\ ThenClose({tables[p][f]})
      BY <2>1 DEF Close
    <3>2. ASSUME d # tables[p][f] PROVE Decrement(refs, tables[p][f])[d] = refs[d]
      <4>1. refs \in [Desc -> Nat]
        BY <1>1
      <4> QED
        BY <3>2, <4>1 DEF Decrement
    <3> QED
      BY <3>1, <3>2
  <2>2. ASSUME NEW f \in Fd, NEW g \in Fd, Dup2Replaces(p, f, g) PROVE tables[p][g] = d /\ ThenClose({tables[p][g]})
    <3>1. /\ tables[p][f] # NoDesc /\ refs' = Increment(Decrement(refs, tables[p][g]), tables[p][f])
          /\ ThenClose({tables[p][g]})
      BY <2>2 DEF Dup2Replaces
    <3>2. CASE d # tables[p][g]
      <4> DEFINE rc == Decrement(refs, tables[p][g])
      <4>1. rc \in [Desc -> Nat] /\ rc[d] = refs[d]
        <5>1. refs \in [Desc -> Nat]
          BY <1>1
        <5>2. rc \in [Desc -> Nat]
          BY <5>1, Decremented
        <5>3. rc[d] = refs[d]
          BY <3>2, <5>1 DEF Decrement
        <5> QED
          BY <5>2, <5>3
      <4> HIDE DEF rc
      <4>2. Increment(rc, tables[p][f])[d] # 0
        BY <1>1, <4>1 DEF Increment
      <4> QED
        BY <3>1, <4>2 DEF rc
    <3> QED
      BY <3>1, <3>2
  <2>3. CASE SpawnFresh(p)
    BY <1>1, <2>3 DEF SpawnFresh
  <2>4. ASSUME NEW parent \in Pid, SpawnForked(parent, p) PROVE FALSE
    <3>1. refs'[d] = refs[d] + Count(tables[parent], d) /\ Count(tables[parent], d) \in Nat
      BY <2>4, Finite DEF SpawnForked
    <3> QED
      BY <1>1, <3>1
  <2>5. CASE OpenFile(p)
    <3>1. refs' = [refs EXCEPT ![next_desc] = 1]
      BY <2>5 DEF OpenFile
    <3> QED
      BY <1>1, <3>1
  <2>6. CASE OpenPair(p)
    <3> DEFINE rc == Increment(refs, next_desc)
    <3>1. rc \in [Desc -> Nat] /\ rc[d] # 0
      BY <1>1, Incremented
    <3> HIDE DEF rc
    <3>2. Increment(rc, next_desc + 1)[d] # 0
      BY <3>1, Incremented
    <3> QED
      BY <2>6, <3>2 DEF OpenPair, rc
  <2>7. CASE OpenPairHalf(p) \/ OpenPairFull(p) \/ Quiet(p)
    BY Zenon, <2>7 DEF OpenPairHalf, OpenPairFull, Quiet, Register, RecordOwner, ExitProcess, Finish, Waitpid
  <2>8. ASSUME NEW f \in Fd, Dup(p, f) \/ \E g \in Fd : FcntlDup(p, f, g) \/ Dup2(p, f, g) PROVE FALSE
    BY <1>2, <2>8 DEF Dup, FcntlDup, Dup2, Duplicate
  <2> QED
    BY <1>3, <1>4, <2>1, <2>2, <2>3, <2>4, <2>5, <2>6, <2>7, <2>8, ZenonT(60) DEF ProcessNext, Quiet
<1>5. ASSUME NEW t \in Thread, JobNext(t)
      PROVE  job'[t].pc = "close" /\ d \in job'[t].todo
  <2>1. CASE CleanupTables(t) /\ job[t].pid \in has
    <3> DEFINE p == job[t].pid
    <3>1. /\ p \in Pid /\ refs'[d] = Minus(refs[d], Count(tables[p], d))
          /\ job' = [job EXCEPT ![t].pc = "close", ![t].seen = {}, ![t].todo = job[t].seen]
          /\ missed' = missed \cup {e \in InTable(tables[p]) \ job[t].seen : refs'[e] = 0}
      BY <2>1 DEF CleanupTables, CountInv, TypeOK
    <3>2. Count(tables[p], d) # 0
      BY <1>1, <3>1 DEF Minus
    <3>3. d \in InTable(tables[p])
      <4>1. \E f \in Fd : tables[p][f] = d
        <5>1. tables[p] \in Table
          BY <1>1, <3>1
        <5> QED
          BY <3>2, <5>1, Counted, Zenon
      <4> QED
        BY <4>1 DEF InTable, Desc, NoDesc
    <3>4. d \in job[t].seen
      BY <3>1, <3>3
    <3> QED
      BY <1>1, <3>1, <3>4 DEF Job
  <2>2. CASE ~(CleanupTables(t) /\ job[t].pid \in has)
    BY Zenon, <1>5, <2>2 DEF JobNext, CleanupTables, CleanupSnapshot, CloseEnd, Done, CloseSpecialKeeps, CloseSpecial
  <2> QED
    BY <2>1, <2>2
<1>6. CASE UNCHANGED vars
  BY Zenon, <1>6 DEF vars
<1> QED
  BY <1>1, <1>4, <1>5, <1>6 DEF Next

\* The set of missed ends only grows.
LEMMA MissedGrows ==
    ASSUME [Next]_vars
    PROVE  missed \subseteq missed'
<1>1. ASSUME NEW p \in Pid, ProcessNext(p) PROVE missed' = missed
  BY Zenon, <1>1 DEF ProcessNext, SpawnFresh, SpawnForked, CreateTable, Register, RecordOwner, OpenFile,
     OpenPair, CreatePair,
     OpenPairHalf, OpenPairFull, Dup, Close, FcntlDup, Duplicate, Dup2, Dup2Replaces,
     ExitProcess, Finish, Waitpid, history
<1>2. ASSUME NEW t \in Thread, JobNext(t) PROVE missed \subseteq missed'
  BY <1>2 DEF JobNext, CleanupTables, CleanupSnapshot, CloseEnd, Done, CloseSpecialKeeps, CloseSpecial, history
<1> QED
  BY <1>1, <1>2 DEF Next, vars

\* The last close closes.
LEMMA LastCloseStep ==
    ASSUME CountInv, JobsKnown, LastCloseCloses, [Next]_vars
    PROVE  LastCloseCloses'
<1> SUFFICES ASSUME NEW d \in (ends' \cap opened') \ missed', refs'[d] = 0
             PROVE  \E t \in Thread : job'[t].pc \in {"close", "closing"} /\ d \in job'[t].todo
  BY DEF LastCloseCloses
<1>1. d \in Desc /\ CountInv'
  BY CountStep DEF CountInv, TypeOK
<1>2. CASE refs[d] = 0
  <2>1. refs \in [Desc -> Nat] /\ next_desc \in Nat
    BY DEF CountInv, TypeOK
  <2>2. d \in ends /\ d \in opened
    <3>1. CASE d = next_desc \/ d = next_desc + 1
      <4>1. d \notin ends /\ d \notin opened
        BY <1>1, <2>1, <3>1 DEF CountInv, Unused
      <4>2. opened' = opened \cup {next_desc, next_desc + 1}
            /\ refs' = Increment(Increment(refs, next_desc), next_desc + 1)
            /\ next_desc \in Desc /\ next_desc + 1 \in Desc
        BY <4>1, EndsFrom
      <4> DEFINE rc == Increment(refs, next_desc)
      <4>3. rc \in [Desc -> Nat] /\ rc[next_desc] # 0
        BY <2>1, <4>2, Incremented
      <4> HIDE DEF rc
      <4>4. Increment(rc, next_desc + 1)[next_desc] # 0 /\ Increment(rc, next_desc + 1)[next_desc + 1] # 0
        BY <2>1, <4>2, <4>3, Incremented
      <4> QED
        BY <3>1, <4>2, <4>4 DEF rc
    <3>2. CASE d # next_desc /\ d # next_desc + 1
      <4>1. ASSUME NEW t \in Thread, CloseEnd(t) PROVE ends' \subseteq ends
        BY <4>1 DEF CloseEnd
      <4> QED
        BY <3>2, <4>1, EndsFrom
    <3> QED
      BY <3>1, <3>2
  <2>3. d \notin missed
    BY MissedGrows
  <2>4. PICK t \in Thread : job[t].pc \in {"close", "closing"} /\ d \in job[t].todo
    BY <1>2, <2>2, <2>3 DEF LastCloseCloses
  <2> QED
    BY Zenon, <1>1, <1>2, <2>4, ListKept
<1>3. CASE refs[d] # 0
  BY <1>1, <1>3, LastTaken
<1> QED
  BY <1>2, <1>3

--------------------------------------------------------------------------------
DescriptorInv ==
    CountInv /\ ClosingUnused /\ NoDanglingDescriptor /\ JobsKnown /\ ExitedOwnsNothing /\ LastCloseCloses

\* It holds initially.
LEMMA DescriptorInit == Init => DescriptorInv
<1> SUFFICES ASSUME Init PROVE DescriptorInv
  OBVIOUS
<1>1. tables \in [Pid -> Table] /\ \A p \in Pid, f \in Fd : tables[p][f] = NoDesc
  BY DEF Init, NoTable, Table
<1>2. \A t \in Thread : job[t] = NoJob
  BY DEF Init
<1>3. TypeOK
  <2>1. 1 \in 1..(MaxDesc + 1) /\ Stdio \in 0..MaxFds
    BY DescriptorAssumption
  <2>2. job \in [Thread -> Job]
    BY Zenon, Jobs DEF Init
  <2> QED
    BY <1>1, <2>1, <2>2 DEF Init, TypeOK
<1>4. RefCountExact
  <2>1. ASSUME NEW d \in Desc PROVE refs[d] = Cardinality(Refs(tables, d))
    <3>1. Cardinality(Refs(tables, d)) = 0 <=> \A p \in Pid, f \in Fd : tables[p][f] # d
      BY <1>1, Referred
    <3>2. \A p \in Pid, f \in Fd : tables[p][f] # d
      BY <1>1 DEF Desc, NoDesc
    <3> QED
      BY <3>1, <3>2 DEF Init
  <2> QED
    BY <2>1 DEF RefCountExact, Refs
<1>5. Unused
  BY Zenon, <1>2, Jobs DEF Init, Unused
<1>6. Registered
  BY DEF Init, Registered
<1>7. ClosingUnused /\ JobsKnown
  BY Zenon, <1>2, Jobs DEF Init, ClosingUnused, JobsKnown, Thread
<1>8. NoDanglingDescriptor /\ ExitedOwnsNothing /\ LastCloseCloses
  BY DEF Init, NoDanglingDescriptor, ExitedOwnsNothing, LastCloseCloses
<1> QED
  BY <1>3, <1>4, <1>5, <1>6, <1>7, <1>8 DEF DescriptorInv, CountInv

\* Every step keeps it.
LEMMA DescriptorStep == DescriptorInv /\ [Next]_vars => DescriptorInv'
BY CountStep, DanglingStep, ExitStep, LastCloseStep DEF DescriptorInv

\* It is invariant.
LEMMA DescriptorAlways == Spec => []DescriptorInv
BY DescriptorInit, DescriptorStep, PTL DEF Spec

\* The variables of fd_table.rs keep their types.
THEOREM DescriptorTypes == Spec => []TypeOK
<1>1. DescriptorInv => TypeOK
  BY DEF DescriptorInv, CountInv
<1> QED
  BY <1>1, DescriptorAlways, PTL

\* The reference counts equal the numbers of descriptors, for any number of processes and any
\* size of their tables, so that the saturating decrement of fd_table.rs never saturates.
THEOREM CountsAreExact == Spec => []RefCountExact
<1>1. DescriptorInv => RefCountExact
  BY DEF DescriptorInv, CountInv
<1> QED
  BY <1>1, DescriptorAlways, PTL

\* No fork or dup gets in between the look at a count and the close of the end.
THEOREM NoDescriptorDangles == Spec => []NoDanglingDescriptor
<1>1. DescriptorInv => NoDanglingDescriptor
  BY DEF DescriptorInv
<1> QED
  BY <1>1, DescriptorAlways, PTL

\* An end that has lost its last descriptor will be closed, unless the cleanup did not see it.
THEOREM LastCloseIsSeen == Spec => []LastCloseCloses
<1>1. DescriptorInv => LastCloseCloses
  BY DEF DescriptorInv
<1> QED
  BY <1>1, DescriptorAlways, PTL

\* A process whose cleanups are through has no table; it has no driver either, unless it ended
\* while it was being registered and has not been waited for.
THEOREM ExitedProcessesOwnNothing == Spec => []ExitedOwnsNothing
<1>1. DescriptorInv => ExitedOwnsNothing
  BY DEF DescriptorInv
<1> QED
  BY <1>1, DescriptorAlways, PTL
================================================================================
