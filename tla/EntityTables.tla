---------------------------- MODULE EntityTables ----------------------------
(***************************************************************************)
(* The five tables of the Entity MIB module of the SNMP agent (components/ *)
(* net-snmp/sun/agent/modules/entityMib): physical and logical entities,   *)
(* what contains what, and the two mappings between them.  Other modules   *)
(* of the agent fill and change them through the calls that                *)
(* entity_apidoc.txt lists; the agent is one thread and a call is atomic.  *)
(*                                                                         *)
(* The physical and the logical table are linked lists ordered by the      *)
(* absolute value of the index; a negative index is a stale entry, kept in *)
(* memory and hidden from SNMP.  The other three are rows of arrays; their *)
(* deleted slots are skipped by every reader and are left out here, an     *)
(* empty row is not.  Of an entity only its parent (entPhysicalContainedIn *)
(* and, as given, the one it was allocated in) and whether it is a port    *)
(* are kept.  A call that is refused changes nothing and is no step;       *)
(* configChanged(), at the end of the others, is an action of EntityTraps. *)
(***************************************************************************)
EXTENDS Integers, Sequences, FiniteSets, SequencesExt

CONSTANTS
    MAX_ENTITY_INDEX,
    LARGE_TABLE,        \* above this size an entry is added at the tail
    PhysRequests,       \* indexes that callers ask for, 0 for any
    LogRequests,
    ClassOf(_),         \* class of the physical entities that are added to a parent
    MaxPhys, MaxLog,    \* bounds on the length of the lists
    MaxPairs            \* bound on the pairs in the three other tables

ASSUME IndexAssumption ==
    /\ MAX_ENTITY_INDEX \in Nat \ {0}
    /\ LARGE_TABLE \in Nat
    /\ PhysRequests \subseteq 0..MAX_ENTITY_INDEX
    /\ LogRequests \subseteq 0..MAX_ENTITY_INDEX
ASSUME ClassAssumption == \A p \in 0..MAX_ENTITY_INDEX : ClassOf(p) \in {"port", "other"}

VARIABLES
    physical,   \* the list gPhysicalTableHead
    physTail,   \* |index| of the entry gPhysicalTableTail points to, or Freed
    logical,    \* the list gLogicalTableHead
    logTail,
    contains,   \* gPhyContainsTableHead: children by parent
    lp,         \* gLPMappingTableHead: physical entities by logical one
    alias,      \* gAliasMappingTableHead: logical entities, or 0, by port
    unhandled   \* history: something happened that the code does not cope with

vars == <<physical, physTail, logical, logTail, contains, lp, alias, unhandled>>

Freed == -1
NoTail == 0
Indexes == 1..MAX_ENTITY_INDEX
Abs(n) == IF n < 0 THEN -n ELSE n

AreRows(rows, K, V) == DOMAIN rows \subseteq K /\ \A k \in DOMAIN rows : rows[k] \subseteq V

\* The tables hold indexes within the limit ("2^31 - 1 limit on all the indexes",
\* stdhdr.h), as long as no index has overflowed.
TypeOK ==
    /\ ~unhandled =>
         /\ \A i \in DOMAIN physical : Abs(physical[i].index) \in Indexes
         /\ \A i \in DOMAIN logical : Abs(logical[i].index) \in Indexes
    /\ \A i \in DOMAIN physical : physical[i].parent \in 0..MAX_ENTITY_INDEX
    /\ AreRows(contains, Indexes, Indexes)
    /\ AreRows(lp, Indexes, Indexes)
    /\ AreRows(alias, Indexes, 0..MAX_ENTITY_INDEX)
    /\ unhandled \in BOOLEAN

\* init_entity
Init ==
    /\ physical = <<>> /\ logical = <<>>
    /\ physTail = NoTail /\ logTail = NoTail
    /\ contains = <<>> /\ lp = <<>> /\ alias = <<>>
    /\ unhandled = FALSE

(***************************************************************************)
(* Lists: AddToPhysicalTable, AddToLogicalTable and the searches           *)
(***************************************************************************)
IndexesOf(tab) == {e.index : e \in ToSet(tab)}
Live(tab) == {n \in IndexesOf(tab) : n > 0}
Taken(tab) == {Abs(n) : n \in IndexesOf(tab)}

\* getPhysicalTableEntry, getLogicalTableEntry
Entry(tab, n) == CHOOSE e \in ToSet(tab) : e.index = n

\* Mutant: the index of a stale entry is given away.
Granted_Live(tab, want) == want > 0 /\ want \notin Live(tab)

\* The requested index is free.
Granted(tab, want) == want > 0 /\ want \notin Taken(tab)

\* Position of the first entry with a gap after it, or of the last.
FirstGap(tab) ==
    CHOOSE i \in DOMAIN tab :
       /\ i = Len(tab) \/ Abs(tab[i + 1].index) - Abs(tab[i].index) > 1
       /\ \A j \in 1..(i - 1) : Abs(tab[j + 1].index) - Abs(tab[j].index) <= 1

\* How many entries come before the first that is not below the requested index.
EntriesBefore(tab, want) ==
    CHOOSE k \in 0..Len(tab) :
       /\ \A i \in 1..k : Abs(tab[i].index) < want
       /\ k = Len(tab) \/ Abs(tab[k + 1].index) >= want

\* The entry is added after this many others.
Place(tab, want) ==
    IF Granted(tab, want) THEN EntriesBefore(tab, want)
    ELSE IF tab = <<>> THEN 0
    ELSE IF Len(tab) > LARGE_TABLE THEN Len(tab)
    ELSE FirstGap(tab)

\* The index is an int: one more than the limit is negative.
Wrap(n) == IF n > MAX_ENTITY_INDEX THEN n - 2 * (MAX_ENTITY_INDEX + 1) ELSE n

NewIndex(tab, want) ==
    IF Granted(tab, want) THEN want
    ELSE IF tab = <<>> THEN 1
    ELSE Wrap(Abs(tab[Place(tab, want)].index) + 1)

AddTo(tab, e) == InsertAt(tab, Place(tab, e.index) + 1, [e EXCEPT !.index = NewIndex(tab, @)])

TailAfterAdd(tab, tail, want) ==
    IF Place(tab, want) = Len(tab) THEN Abs(NewIndex(tab, want)) ELSE tail

\* An entry would be linked to a tail that was freed.
UsesFreedTail(tab, tail, want) ==
    ~Granted(tab, want) /\ Len(tab) > LARGE_TABLE /\ tail = Freed

Reindexed(tab, from, to) ==
    [i \in DOMAIN tab |-> IF tab[i].index = from THEN [tab[i] EXCEPT !.index = to] ELSE tab[i]]

\* FreePhysicalEntry, FreeLogicalEntry: the first entry with the index is unlinked and
\* the tail is not moved.
Without(tab, n) ==
    RemoveAt(tab, CHOOSE i \in DOMAIN tab : /\ tab[i].index = n
                                           /\ \A j \in 1..(i - 1) : tab[j].index # n)
TailAfterDelete(tail, n) == IF tail = n THEN Freed ELSE tail

(***************************************************************************)
(* Rows of the mapping tables                                              *)
(***************************************************************************)
HasRow(rows, k) == k \in DOMAIN rows
Row(rows, k) == IF HasRow(rows, k) THEN rows[k] ELSE {}
WithPair(rows, k, v) ==
    [x \in DOMAIN rows \cup {k} |-> IF x = k THEN Row(rows, k) \cup {v} ELSE rows[x]]
WithoutRow(rows, k) == [x \in DOMAIN rows \ {k} |-> rows[x]]
WithoutPair(rows, k, v) == [rows EXCEPT ![k] = @ \ {v}]
RowLost(rows, k) == [rows EXCEPT ![k] = {}]
WithoutValue(rows, v) == [x \in DOMAIN rows |-> rows[x] \ {v}]
KeysWith(rows, v) == {k \in DOMAIN rows : v \in rows[k]}

PairsIn(rows) == Cardinality({p \in (DOMAIN rows) \X (0..MAX_ENTITY_INDEX) : p[2] \in rows[p[1]]})
RoomForPair == PairsIn(contains) + PairsIn(lp) + PairsIn(alias) < MaxPairs

(***************************************************************************)
(* Containment: entPhysicalContainedIn of an entry, its lowest parent, and *)
(* the rows of entPhysicalContainsTable                                    *)
(***************************************************************************)
\* Mutant: -1 for an entity without a parent.
Lowest_MinusOne(rows, c) ==
    LET P == KeysWith(rows, c) IN IF P = {} THEN -1 ELSE CHOOSE p \in P : \A q \in P : p <= q

\* The lowest of the parents that are left, or 0.
Lowest(rows, c) ==
    LET P == KeysWith(rows, c) IN IF P = {} THEN 0 ELSE CHOOSE p \in P : \A q \in P : p <= q

\* Children that named p as their parent get another one.
Reparented(tab, rows, kids, p) ==
    [i \in DOMAIN tab |->
       IF tab[i].index \in kids /\ tab[i].parent = p
       THEN [tab[i] EXCEPT !.parent = Lowest(rows, tab[i].index)] ELSE tab[i]]

\* deletePhysicalContainsParentIndex
AfterDeleteParent(tab, rows, p) == Reparented(tab, WithoutRow(rows, p), Row(rows, p), p)

\* deletePhysicalContainsTableEntry
AfterDeletePair(tab, rows, p, c) == Reparented(tab, WithoutPair(rows, p, c), {c}, p)

\* deletePhysicalContainsChildIndex deletes one pair after the other: a parent that
\* is in the table is followed by the next one and in the end by none.
AfterDeleteChild(tab, rows, c) ==
    [i \in DOMAIN tab |->
       IF tab[i].index = c /\ tab[i].parent \in KeysWith(rows, c)
       THEN [tab[i] EXCEPT !.parent = Lowest(WithoutValue(rows, c), c)] ELSE tab[i]]

\* getAllChildrenFromPhysicalContainedIn: the position in the result is not advanced
\* after the second child, so of three or more only the first and the last are there.
ContainedInList(n) ==
    LET kids == {i \in DOMAIN physical : physical[i].parent = n}
        ends == {i \in kids : (\A j \in kids : i <= j) \/ (\A j \in kids : j <= i)}
    IN {physical[i].index : i \in ends}

\* getPhysicalContainsChildren
ContainsChildren(n) == IF n \in Live(physical) THEN Row(contains, n) ELSE {}

Kids(n) == ContainedInList(n) \cup ContainsChildren(n)

\* What is reached from the elements of S along the relation next in n rounds.
Reached(next, S, n) ==
    LET r[k \in 0..n] == IF k = 0 THEN S
                         ELSE r[k - 1] \cup UNION {next[x] : x \in r[k - 1] \cap DOMAIN next}
    IN r[n]

\* What the recursion of isRecursiveChild visits; a stale child has no children.
Below(n) == Reached([x \in Indexes |-> Kids(x)], Kids(n), Len(physical))

\* Mutant: only entPhysicalContainedIn is followed.
isRecursiveChild_OneRelation(n, c) ==
    c \in Reached([x \in Indexes |-> ContainedInList(x)], {n}, Len(physical))

isRecursiveChild(n, c) == n = c \/ c \in Below(n)

\* The recursion runs into a cycle and does not come back.
Recurses(n) == \E x \in {n} \cup Below(n) : x \in Below(x)

(***************************************************************************)
(* Physical entities                                                       *)
(***************************************************************************)
Undefined == unhandled' = TRUE

NewEntity(want, parent) ==
    [index |-> want, parent |-> parent, given |-> parent, class |-> ClassOf(parent)]

\* allocPhysicalEntry: the parent must be live.
allocPhysicalEntry(want, parent) ==
    /\ Len(physical) < MaxPhys
    /\ parent \in {0} \cup Live(physical)
    /\ IF UsesFreedTail(physical, physTail, want)
       THEN Undefined /\ UNCHANGED <<physical, physTail>>
       ELSE /\ physical' = AddTo(physical, NewEntity(want, parent))
            /\ physTail' = TailAfterAdd(physical, physTail, want)
            /\ unhandled' = (unhandled \/ NewIndex(physical, want) < 0)
    /\ UNCHANGED <<logical, logTail, contains, lp, alias>>

\* What deletePhysicalTableEntry and makePhysicalTableEntryStale do first.
DropPhysicalRows(n) ==
    /\ alias' = WithoutRow(alias, n)
    /\ lp' = WithoutValue(lp, n)
    /\ contains' = WithoutValue(WithoutRow(contains, n), n)

\* The physical table once n is out of the contains table.
Uncontained(n) ==
    AfterDeleteChild(AfterDeleteParent(physical, contains, n), WithoutRow(contains, n), n)

deletePhysicalTableEntry(n) ==
    /\ n \in Live(physical)
    /\ DropPhysicalRows(n)
    /\ physical' = Without(Uncontained(n), n)
    /\ physTail' = TailAfterDelete(physTail, n)
    /\ UNCHANGED <<logical, logTail, unhandled>>

\* Mutant: the rows are dropped when the index is already negative,
\* and are not found.
makePhysicalTableEntryStale_Late(n) ==
    /\ n \in Live(physical)
    /\ physical' = Reindexed(physical, n, -n)
    /\ UNCHANGED <<contains, lp, alias, physTail, logical, logTail, unhandled>>

makePhysicalTableEntryStale(n) ==
    /\ n \in Live(physical)
    /\ DropPhysicalRows(n)
    /\ physical' = Reindexed(Uncontained(n), n, -n)
    /\ UNCHANGED <<physTail, logical, logTail, unhandled>>

makePhysicalTableEntryLive(n) ==
    /\ -n \in IndexesOf(physical)
    /\ physical' = Reindexed(physical, -n, n)
    /\ UNCHANGED <<physTail, logical, logTail, contains, lp, alias, unhandled>>

(***************************************************************************)
(* entPhysicalContainsTable                                                *)
(***************************************************************************)
\* Mutant: the last parent wins.
addPhysicalContainsTableEntry_Replaces(p, c) ==
    /\ p # c /\ {p, c} \subseteq Live(physical)
    /\ RoomForPair
    /\ ~Recurses(c) /\ ~isRecursiveChild(c, p)
    /\ c \notin Row(contains, p)
    /\ contains' = WithPair(contains, p, c)
    /\ physical' = [i \in DOMAIN physical |->
                      IF physical[i].index = c THEN [physical[i] EXCEPT !.parent = p]
                      ELSE physical[i]]
    /\ UNCHANGED <<physTail, logical, logTail, lp, alias, unhandled>>

\* The parent of the child is replaced by a lower one.  When the array of a row cannot
\* grow it is lost with its pairs, and the children in it keep the parent.
addPhysicalContainsTableEntry(p, c) ==
    /\ p # c /\ {p, c} \subseteq Live(physical)
    /\ RoomForPair
    /\ \/ /\ ~Recurses(c) /\ ~isRecursiveChild(c, p)
          /\ c \notin Row(contains, p)
          /\ contains' = WithPair(contains, p, c)
          /\ physical' = [i \in DOMAIN physical |->
                            IF physical[i].index = c
                               /\ (physical[i].parent = 0 \/ physical[i].parent > p)
                            THEN [physical[i] EXCEPT !.parent = p] ELSE physical[i]]
          /\ UNCHANGED unhandled
       \/ /\ ~Recurses(c) /\ ~isRecursiveChild(c, p)
          /\ Row(contains, p) # {} /\ c \notin Row(contains, p)
          /\ contains' = RowLost(contains, p)
          /\ Undefined /\ UNCHANGED physical
       \/ Recurses(c) /\ Undefined /\ UNCHANGED <<contains, physical>>
    /\ UNCHANGED <<physTail, logical, logTail, lp, alias>>

deletePhysicalContainsTableEntry(p, c) ==
    /\ c \in Row(contains, p)
    /\ contains' = WithoutPair(contains, p, c)
    /\ physical' = AfterDeletePair(physical, contains, p, c)
    /\ UNCHANGED <<physTail, logical, logTail, lp, alias, unhandled>>

deletePhysicalContainsParentIndex(p) ==
    /\ HasRow(contains, p)
    /\ contains' = WithoutRow(contains, p)
    /\ physical' = AfterDeleteParent(physical, contains, p)
    /\ UNCHANGED <<physTail, logical, logTail, lp, alias, unhandled>>

deletePhysicalContainsChildIndex(c) ==
    /\ KeysWith(contains, c) # {}
    /\ contains' = WithoutValue(contains, c)
    /\ physical' = AfterDeleteChild(physical, contains, c)
    /\ UNCHANGED <<physTail, logical, logTail, lp, alias, unhandled>>

(***************************************************************************)
(* Logical entities                                                        *)
(***************************************************************************)
allocLogicalEntry(want) ==
    /\ Len(logical) < MaxLog
    /\ IF UsesFreedTail(logical, logTail, want)
       THEN Undefined /\ UNCHANGED <<logical, logTail>>
       ELSE /\ logical' = AddTo(logical, [index |-> want])
            /\ logTail' = TailAfterAdd(logical, logTail, want)
            /\ unhandled' = (unhandled \/ NewIndex(logical, want) < 0)
    /\ UNCHANGED <<physical, physTail, contains, lp, alias>>

DropLogicalRows(n) ==
    /\ alias' = WithoutValue(alias, n)
    /\ lp' = WithoutRow(lp, n)

deleteLogicalTableEntry(n) ==
    /\ n \in Live(logical)
    /\ DropLogicalRows(n)
    /\ logical' = Without(logical, n)
    /\ logTail' = TailAfterDelete(logTail, n)
    /\ UNCHANGED <<physical, physTail, contains, unhandled>>

makeLogicalTableEntryStale(n) ==
    /\ n \in Live(logical)
    /\ DropLogicalRows(n)
    /\ logical' = Reindexed(logical, n, -n)
    /\ UNCHANGED <<logTail, physical, physTail, contains, unhandled>>

makeLogicalTableEntryLive(n) ==
    /\ -n \in IndexesOf(logical)
    /\ logical' = Reindexed(logical, -n, n)
    /\ UNCHANGED <<logTail, physical, physTail, contains, lp, alias, unhandled>>

(***************************************************************************)
(* entLPMappingTable and entAliasMappingTable                              *)
(***************************************************************************)
addLPMappingTableEntry(l, p) ==
    /\ l \in Live(logical) /\ p \in Live(physical)
    /\ p \notin Row(lp, l)
    /\ RoomForPair
    /\ lp' = WithPair(lp, l, p)
    /\ UNCHANGED <<physical, physTail, logical, logTail, contains, alias, unhandled>>

deleteLPMappingTableEntry(l, p) ==
    /\ p \in Row(lp, l)
    /\ lp' = WithoutPair(lp, l, p)
    /\ UNCHANGED <<physical, physTail, logical, logTail, contains, alias, unhandled>>

deleteLPMappingPhysicalIndex(p) ==
    /\ KeysWith(lp, p) # {}
    /\ lp' = WithoutValue(lp, p)
    /\ UNCHANGED <<physical, physTail, logical, logTail, contains, alias, unhandled>>

deleteLPMappingLogicalIndex(l) ==
    /\ HasRow(lp, l)
    /\ lp' = WithoutRow(lp, l)
    /\ UNCHANGED <<physical, physTail, logical, logTail, contains, alias, unhandled>>

\* Only a port has aliases; 0 stands for every logical entity.
addAliasMappingTableEntry(p, l) ==
    /\ p \in Live(physical) /\ Entry(physical, p).class = "port"
    /\ l \in {0} \cup Live(logical)
    /\ l \notin Row(alias, p)
    /\ RoomForPair
    /\ alias' = WithPair(alias, p, l)
    /\ UNCHANGED <<physical, physTail, logical, logTail, contains, lp, unhandled>>

deleteAliasMappingTableEntry(p, l) ==
    /\ l \in Row(alias, p)
    /\ alias' = WithoutPair(alias, p, l)
    /\ UNCHANGED <<physical, physTail, logical, logTail, contains, lp, unhandled>>

deleteAliasMappingPhysicalIndex(p) ==
    /\ HasRow(alias, p)
    /\ alias' = WithoutRow(alias, p)
    /\ UNCHANGED <<physical, physTail, logical, logTail, contains, lp, unhandled>>

deleteAliasMappingLogicalIndex(l) ==
    /\ KeysWith(alias, l) # {}
    /\ alias' = WithoutValue(alias, l)
    /\ UNCHANGED <<physical, physTail, logical, logTail, contains, lp, unhandled>>

ChangeEntities ==
    \/ \E want \in PhysRequests, parent \in 0..MAX_ENTITY_INDEX :
          allocPhysicalEntry(want, parent)
    \/ \E want \in LogRequests : allocLogicalEntry(want)
    \/ \E n \in Indexes :
          \/ deletePhysicalTableEntry(n)
          \/ makePhysicalTableEntryStale(n)
          \/ makePhysicalTableEntryLive(n)
          \/ deleteLogicalTableEntry(n)
          \/ makeLogicalTableEntryStale(n)
          \/ makeLogicalTableEntryLive(n)

ChangePairs ==
    \E n, m \in Indexes :
       \/ addPhysicalContainsTableEntry(n, m)
       \/ deletePhysicalContainsTableEntry(n, m)
       \/ addLPMappingTableEntry(n, m)
       \/ deleteLPMappingTableEntry(n, m)
       \/ \E l \in {0, m} : addAliasMappingTableEntry(n, l) \/ deleteAliasMappingTableEntry(n, l)

DropRows ==
    \E n \in Indexes :
       \/ deletePhysicalContainsParentIndex(n)
       \/ deletePhysicalContainsChildIndex(n)
       \/ deleteLPMappingPhysicalIndex(n)
       \/ deleteLPMappingLogicalIndex(n)
       \/ deleteAliasMappingPhysicalIndex(n)
       \/ deleteAliasMappingLogicalIndex(n)

Next == ChangeEntities \/ ChangePairs \/ DropRows

Spec == Init /\ [][Next]_vars

(***************************************************************************)
(* Properties                                                              *)
(***************************************************************************)
InOrder(tab, tail) ==
    /\ \A i, j \in DOMAIN tab : i < j => Abs(tab[i].index) < Abs(tab[j].index)
    /\ tail # Freed => tail = (IF tab = <<>> THEN NoTail ELSE Abs(tab[Len(tab)].index))

\* The lists stay in the order that the searches and SNMP's GETNEXT rely on, with no
\* index used twice, by a live and a stale entry for instance; a tail that was not
\* freed is the last entry.
ListsInOrder == ~unhandled => InOrder(physical, physTail) /\ InOrder(logical, logTail)

\* "integrity among the various Entity MIB tables" (entity_apidoc.txt): no row names
\* an entity that was deleted or made stale, and only ports have aliases.
RowsNameLiveEntities ==
    ~unhandled =>
      /\ \A p \in DOMAIN contains : {p} \cup contains[p] \subseteq Live(physical)
      /\ \A l \in DOMAIN lp : l \in Live(logical) /\ lp[l] \subseteq Live(physical)
      /\ \A p \in DOMAIN alias : /\ p \in Live(physical) /\ Entry(physical, p).class = "port"
                                 /\ alias[p] \subseteq {0} \cup Live(logical)

\* entPhysicalContainedIn is the lowest parent in the contains table, or 0 (the fixes for
\* 4891869), but for an entity that still names the parent it was allocated in, which is
\* lower than all of these.  That parent need not be in the contains table and may have
\* been deleted: deletePhysicalContainsParentIndex resets only the children of its row.
ParentIsLowest ==
    ~unhandled =>
      \A i \in DOMAIN physical :
         LET e == physical[i] IN
         \/ e.parent = Lowest(contains, e.index)
         \/ /\ e.parent = e.given /\ e.given # 0
            /\ \A p \in KeysWith(contains, e.index) : e.given < p

RowsAbove(n) ==
    Reached([x \in Indexes |-> KeysWith(contains, x)], KeysWith(contains, n), Len(physical))

\* The rows of the contains table never put an entity into itself, whatever the other
\* relation (entPhysicalContainedIn) looks like.
ContainsAcyclic == ~unhandled => \A n \in Live(physical) : n \notin RowsAbove(n)

\* "Check to see if childIndex is really related to the parentIndex, in a directed
\* graph way" (entPhysicalContainsTable.c:724-725), so that no entity is contained in
\* itself by the two relations together.
ParentsOf(n) == KeysWith(contains, n) \cup ({Entry(physical, n).parent} \cap Live(physical))
Above(n) == Reached([x \in Live(physical) |-> ParentsOf(x)], ParentsOf(n), Len(physical))
NothingContainsItself == \A n \in Live(physical) : n \notin Above(n)

=============================================================================
