------------------------- MODULE EntityTablesProofs -------------------------
(***************************************************************************)
(* Proofs about EntityTables, for every limit on the indexes, every bound  *)
(* on the tables and whatever indexes callers ask for.  The invariant says *)
(* of each table what its readers rely on; it holds until an index         *)
(* overflows, an entry is linked to a freed tail, isRecursiveChild meets a *)
(* cycle or a row is lost for want of memory (unhandled).                  *)
(***************************************************************************)
EXTENDS EntityTables, SequenceTheorems, FiniteSetTheorems, WellFoundedInduction, TLAPS

(***************************************************************************)
(* The inductive invariant.  What the rows say of an entity is stated of   *)
(* the entry at a position of the list, which is what the calls change.    *)
(***************************************************************************)
PhysEntries == [index : Int, parent : 0..MAX_ENTITY_INDEX, given : 0..MAX_ENTITY_INDEX,
                class : {"port", "other"}]
LogEntries == [index : Int]

Limited(tab) == \A i \in DOMAIN tab : Abs(tab[i].index) \in Indexes

Ordered(tab) == \A i, j \in DOMAIN tab : i < j => Abs(tab[i].index) < Abs(tab[j].index)

TailIsLast(tab, tail) ==
    tail # Freed => tail = (IF tab = <<>> THEN NoTail ELSE Abs(tab[Len(tab)].index))

\* Every state, after an overflow or the use of a freed tail too.
Types ==
    /\ physical \in Seq(PhysEntries)
    /\ logical \in Seq(LogEntries)
    /\ AreRows(contains, Indexes, Indexes)
    /\ AreRows(lp, Indexes, Indexes)
    /\ AreRows(alias, Indexes, 0..MAX_ENTITY_INDEX)
    /\ unhandled \in BOOLEAN

\* The lists, until something happens that the code does not cope with.
Lists ==
    /\ Limited(physical) /\ Ordered(physical) /\ TailIsLast(physical, physTail)
    /\ Limited(logical) /\ Ordered(logical) /\ TailIsLast(logical, logTail)

\* Whom the rows name.
ContainsNames == \A p \in DOMAIN contains : {p} \cup contains[p] \subseteq Live(physical)
LpNames == \A l \in DOMAIN lp : l \in Live(logical) /\ lp[l] \subseteq Live(physical)
AliasNames == \A p \in DOMAIN alias : p \in Live(physical) /\ alias[p] \subseteq {0} \cup Live(logical)

\* Of the entry at position i: a port if it has aliases, and inside its lowest parent, or
\* the one it was allocated in.
PortAt(tab, al, i) == tab[i].index \in DOMAIN al => tab[i].class = "port"
LowestOf(e, rows) ==
    \/ e.parent = Lowest(rows, e.index)
    \/ e.parent = e.given /\ e.given # 0 /\ \A p \in KeysWith(rows, e.index) : e.given < p
LowestAt(tab, rows, i) == LowestOf(tab[i], rows)

AllPorts(tab, al) == \A i \in DOMAIN tab : PortAt(tab, al, i)
AllLowest(tab, rows) == \A i \in DOMAIN tab : LowestAt(tab, rows, i)

Rows ==
    /\ ContainsNames /\ LpNames /\ AliasNames
    /\ AllPorts(physical, alias) /\ AllLowest(physical, contains)

TableInv == Types /\ (~unhandled => Lists /\ Rows)

(***************************************************************************)
(* Least elements                                                          *)
(***************************************************************************)
\* A set of natural numbers that is not empty has a least element.
LEMMA LeastElement ==
    ASSUME NEW T, T \subseteq Nat, T # {}
    PROVE  \E m \in T : \A x \in T : m <= x
<1>1. \E m \in T : \A x \in T : ~(<<x, m>> \in OpToRel(<, Nat))
  BY NatLessThanWellFounded, WFMin
<1>2. \A x, m \in T : x < m => <<x, m>> \in OpToRel(<, Nat)
  BY DEF OpToRel
<1>3. PICK m \in T : \A x \in T : ~(x < m)
  BY <1>1, <1>2
<1>4. \A x \in T : m <= x
  BY <1>3
<1> QED BY <1>3, <1>4

\* The lowest parent of an entity is one of its parents and at most each of them; 0
\* stands for none.
LEMMA LowestParent ==
    ASSUME NEW rows, NEW c, KeysWith(rows, c) \subseteq Indexes
    PROVE  /\ KeysWith(rows, c) = {} => Lowest(rows, c) = 0
           /\ KeysWith(rows, c) # {} => Lowest(rows, c) \in KeysWith(rows, c)
           /\ \A p \in KeysWith(rows, c) : Lowest(rows, c) \in 1..p
           /\ Lowest(rows, c) \in 0..MAX_ENTITY_INDEX
<1> DEFINE P == KeysWith(rows, c)
<1>1. Indexes \subseteq Nat /\ Indexes = 1..MAX_ENTITY_INDEX /\ MAX_ENTITY_INDEX \in Nat
  BY IndexAssumption DEF Indexes
<1>2. CASE P = {}
  BY <1>1, <1>2 DEF Lowest
<1>3. CASE P # {}
  <2>1. \E p \in P : \A q \in P : p <= q
    <3>1. P \subseteq Nat
      BY <1>1
    <3> HIDE DEF P
    <3> QED BY <1>3, <3>1, LeastElement
  <2>2. Lowest(rows, c) = CHOOSE p \in P : \A q \in P : p <= q
    BY <1>3 DEF Lowest
  <2>3. Lowest(rows, c) \in P /\ \A q \in P : Lowest(rows, c) <= q
    BY <2>1, <2>2
  <2>4. Lowest(rows, c) \in 1..MAX_ENTITY_INDEX
    BY <1>1, <2>3
  <2>5. \A p \in P : Lowest(rows, c) \in 1..p
    BY <1>1, <2>3, <2>4
  <2> QED BY <1>1, <1>3, <2>3, <2>4, <2>5
<1> QED BY <1>2, <1>3

\* A parent that is at most each of the parents is the lowest one.
LEMMA LowestIs ==
    ASSUME NEW rows, NEW c, KeysWith(rows, c) \subseteq Indexes, NEW m \in KeysWith(rows, c),
           \A q \in KeysWith(rows, c) : m <= q
    PROVE  Lowest(rows, c) = m
<1>1. Lowest(rows, c) \in KeysWith(rows, c) /\ Lowest(rows, c) \in 1..m
  BY LowestParent
<1>2. m <= Lowest(rows, c) /\ m \in Int
  BY <1>1, IndexAssumption DEF Indexes
<1> QED BY <1>1, <1>2

\* The search for the place of a requested index ends: before the place every entry is
\* below it, and the entry at the place is not.
LEMMA EntriesBeforeExists ==
    ASSUME NEW S, NEW tab \in Seq(S), NEW want \in Int,
           \A i \in DOMAIN tab : tab[i].index \in Int
    PROVE  LET k == EntriesBefore(tab, want) IN
           /\ k \in 0..Len(tab)
           /\ \A i \in 1..k : Abs(tab[i].index) < want
           /\ k = Len(tab) \/ Abs(tab[k + 1].index) >= want
<1> DEFINE T == {i \in 1..Len(tab) : ~(Abs(tab[i].index) < want)}
<1>1. Len(tab) \in Nat /\ DOMAIN tab = 1..Len(tab)
  BY LenProperties
<1>2. \A i \in 1..Len(tab) : Abs(tab[i].index) \in Int
  BY <1>1 DEF Abs
<1>3. \E k \in 0..Len(tab) : /\ \A i \in 1..k : Abs(tab[i].index) < want
                             /\ k = Len(tab) \/ Abs(tab[k + 1].index) >= want
  <2>1. CASE T = {}
    <3>1. \A i \in 1..Len(tab) : Abs(tab[i].index) < want
      BY <2>1
    <3>2. Len(tab) \in 0..Len(tab)
      BY <1>1
    <3> QED BY <3>1, <3>2
  <2>2. CASE T # {}
    <3>1. T \subseteq Nat
      BY <1>1
    <3>2. PICK m \in T : \A x \in T : m <= x
      <4> HIDE DEF T
      <4> QED BY <3>1, <2>2, LeastElement
    <3>3. m \in 1..Len(tab) /\ Abs(tab[m].index) >= want
      BY <1>2
    <3>4. \A i \in 1..(m - 1) : Abs(tab[i].index) < want
      BY <1>1, <3>2, <3>3
    <3>5. m - 1 \in 0..Len(tab) /\ (m - 1) + 1 = m
      BY <1>1, <3>3
    <3> QED BY <3>3, <3>4, <3>5
  <2> QED BY <2>1, <2>2
<1> QED BY <1>3 DEF EntriesBefore

\* The search for a gap ends at an entry with a gap after it, or at the last.
LEMMA FirstGapExists ==
    ASSUME NEW S, NEW tab \in Seq(S), tab # <<>>,
           \A i \in DOMAIN tab : tab[i].index \in Int
    PROVE  /\ FirstGap(tab) \in DOMAIN tab
           /\ \/ FirstGap(tab) = Len(tab)
              \/ Abs(tab[FirstGap(tab) + 1].index) - Abs(tab[FirstGap(tab)].index) > 1
<1> DEFINE G(i) == i = Len(tab) \/ Abs(tab[i + 1].index) - Abs(tab[i].index) > 1
<1> DEFINE T == {i \in 1..Len(tab) : G(i)}
<1>1. Len(tab) \in Nat /\ DOMAIN tab = 1..Len(tab) /\ Len(tab) # 0
  BY LenProperties, EmptySeq
<1>2. \A i \in 1..Len(tab) : Abs(tab[i].index) \in Int
  BY <1>1 DEF Abs
<1>3. T \subseteq Nat /\ Len(tab) \in T
  BY <1>1
<1>4. PICK m \in T : \A x \in T : m <= x
  <2> HIDE DEF T
  <2> QED BY <1>3, LeastElement
<1>5. m \in 1..Len(tab) /\ G(m)
  OBVIOUS
<1>6. m \in Int /\ \A x \in 1..Len(tab) : G(x) => m <= x
  <2>1. \A x \in 1..Len(tab) : G(x) => x \in T
    OBVIOUS
  <2> HIDE DEF G, T
  <2> QED BY <1>1, <1>4, <1>5, <2>1
<1>7. ASSUME NEW j \in 1..(m - 1)
      PROVE  Abs(tab[j + 1].index) - Abs(tab[j].index) <= 1
  <2> HIDE DEF G, T
  <2>1. j \in 1..Len(tab) /\ j + 1 \in 1..Len(tab) /\ j < m
    BY <1>1, <1>5, <1>6
  <2>2. ~G(j)
    BY <1>6, <2>1
  <2>3. Abs(tab[j + 1].index) \in Int /\ Abs(tab[j].index) \in Int
    BY <1>2, <2>1
  <2> QED BY <2>2, <2>3 DEF G
<1>8. \E i \in DOMAIN tab :
         /\ i = Len(tab) \/ Abs(tab[i + 1].index) - Abs(tab[i].index) > 1
         /\ \A j \in 1..(i - 1) : Abs(tab[j + 1].index) - Abs(tab[j].index) <= 1
  BY <1>1, <1>5, <1>7
<1> QED BY <1>8 DEF FirstGap

(***************************************************************************)
(* Adding and removing an entry                                            *)
(***************************************************************************)
\* A list with e after the first k entries of another.
HasAfter(new, tab, k, e) ==
    /\ Len(new) = Len(tab) + 1
    /\ \A i \in 1..(Len(tab) + 1) :
          new[i] = IF i <= k THEN tab[i] ELSE IF i = k + 1 THEN e ELSE tab[i - 1]

\* InsertAt moves the entries from a position on by one.
LEMMA Inserted ==
    ASSUME NEW S, NEW tab \in Seq(S), NEW k \in 0..Len(tab), NEW e \in S
    PROVE  InsertAt(tab, k + 1, e) \in Seq(S) /\ HasAfter(InsertAt(tab, k + 1, e), tab, k, e)
<1> DEFINE a == SubSeq(tab, 1, k)  b == SubSeq(tab, k + 1, Len(tab))
<1>1. Len(tab) \in Nat /\ k \in Int /\ \A i \in 1..Len(tab) : tab[i] \in S
  BY LenProperties, ElementOfSeq
<1>2. a \in Seq(S) /\ Len(a) = k /\ \A i \in 1..k : a[i] = tab[i]
  <2>1. \A i \in 1..k : tab[i] \in S
    BY <1>1
  <2> QED BY <1>1, <2>1, SubSeqProperties
<1>3. b \in Seq(S) /\ Len(b) = Len(tab) - k /\ \A i \in 1..(Len(tab) - k) : b[i] = tab[k + i]
  <2>1. \A i \in (k + 1)..Len(tab) : tab[i] \in S
    BY <1>1
  <2> QED BY <1>1, <2>1, SubSeqProperties
<1>4. <<e>> \in Seq(S) /\ Len(<<e>>) = 1 /\ <<e>>[1] = e
  OBVIOUS
<1> DEFINE ae == a \o <<e>>
<1> HIDE DEF a, b
<1>5. ae \in Seq(S) /\ Len(ae) = k + 1
      /\ \A i \in 1..(k + 1) : ae[i] = IF i <= k THEN tab[i] ELSE e
  BY <1>1, <1>2, <1>4, ConcatProperties
<1> HIDE DEF ae
<1> DEFINE new == ae \o b
<1>6. new \in Seq(S) /\ Len(new) = Len(tab) + 1
      /\ \A i \in 1..(Len(tab) + 1) : new[i] = IF i <= k + 1 THEN ae[i] ELSE b[i - (k + 1)]
  <2>1. new \in Seq(S) /\ Len(new) = Len(ae) + Len(b)
        /\ \A i \in 1..(Len(ae) + Len(b)) : new[i] = IF i <= Len(ae) THEN ae[i] ELSE b[i - Len(ae)]
    BY <1>3, <1>5, ConcatProperties
  <2>2. Len(ae) = k + 1 /\ Len(ae) + Len(b) = Len(tab) + 1
    BY <1>1, <1>3, <1>5
  <2> HIDE DEF new
  <2> QED BY <2>1, <2>2
<1>7. \A i \in 1..(Len(tab) + 1) :
         new[i] = IF i <= k THEN tab[i] ELSE IF i = k + 1 THEN e ELSE tab[i - 1]
  <2> SUFFICES ASSUME NEW i \in 1..(Len(tab) + 1)
               PROVE  new[i] = IF i <= k THEN tab[i] ELSE IF i = k + 1 THEN e ELSE tab[i - 1]
    OBVIOUS
  <2> HIDE DEF new
  <2>1. CASE i <= k + 1
    BY <1>1, <1>5, <1>6, <2>1
  <2>2. CASE ~(i <= k + 1)
    <3>1. i - (k + 1) \in 1..(Len(tab) - k) /\ k + (i - (k + 1)) = i - 1
      BY <1>1, <2>2
    <3> QED BY <1>1, <1>3, <1>6, <2>2, <3>1
  <2> QED BY <2>1, <2>2
<1>8. InsertAt(tab, k + 1, e) = new
  <2>1. (k + 1) - 1 = k
    BY <1>1
  <2> QED BY <2>1 DEF InsertAt, new, ae, a, b
<1> HIDE DEF new
<1> QED BY <1>6, <1>7, <1>8 DEF HasAfter

\* RemoveAt moves the entries after a position by one.
LEMMA Removed ==
    ASSUME NEW S, NEW tab \in Seq(S), NEW r \in 1..Len(tab)
    PROVE  LET new == RemoveAt(tab, r) IN
           /\ new \in Seq(S)
           /\ Len(new) = Len(tab) - 1
           /\ \A i \in 1..(Len(tab) - 1) : new[i] = IF i < r THEN tab[i] ELSE tab[i + 1]
<1> DEFINE a == SubSeq(tab, 1, r - 1)  b == SubSeq(tab, r + 1, Len(tab))
<1>1. Len(tab) \in Nat /\ r \in Int /\ \A i \in 1..Len(tab) : tab[i] \in S
  BY LenProperties, ElementOfSeq
<1>2. a \in Seq(S) /\ Len(a) = r - 1 /\ \A i \in 1..(r - 1) : a[i] = tab[i]
  <2>1. \A i \in 1..(r - 1) : tab[i] \in S
    BY <1>1
  <2> QED BY <1>1, <2>1, SubSeqProperties
<1>3. b \in Seq(S) /\ Len(b) = Len(tab) - r /\ \A i \in 1..(Len(tab) - r) : b[i] = tab[r + i]
  <2>1. \A i \in (r + 1)..Len(tab) : tab[i] \in S
    BY <1>1
  <2> QED BY <1>1, <2>1, SubSeqProperties
<1> HIDE DEF a, b
<1> DEFINE new == a \o b
<1>4. new \in Seq(S) /\ Len(new) = Len(tab) - 1
      /\ \A i \in 1..(Len(tab) - 1) : new[i] = IF i <= r - 1 THEN a[i] ELSE b[i - (r - 1)]
  BY <1>1, <1>2, <1>3, ConcatProperties
<1>5. \A i \in 1..(Len(tab) - 1) : new[i] = IF i < r THEN tab[i] ELSE tab[i + 1]
  <2> SUFFICES ASSUME NEW i \in 1..(Len(tab) - 1)
               PROVE  new[i] = IF i < r THEN tab[i] ELSE tab[i + 1]
    OBVIOUS
  <2> HIDE DEF new
  <2>1. CASE i < r
    BY <1>1, <1>2, <1>4, <2>1
  <2>2. CASE ~(i < r)
    <3>1. i - (r - 1) \in 1..(Len(tab) - r) /\ r + (i - (r - 1)) = i + 1
      BY <1>1, <2>2
    <3> QED BY <1>1, <1>3, <1>4, <2>2, <3>1
  <2> QED BY <2>1, <2>2
<1>6. RemoveAt(tab, r) = new
  BY DEF RemoveAt, new, a, b
<1> QED BY <1>4, <1>5, <1>6

(***************************************************************************)
(* What the calls do to a list: the order, the limit and the tail          *)
(***************************************************************************)
\* A list whose entries keep the absolute value of their index keeps its order.
LEMMA SameIndexes ==
    ASSUME NEW S, NEW tab \in Seq(S), NEW new \in Seq(S), NEW tail,
           Len(new) = Len(tab),
           \A i \in 1..Len(tab) : Abs(new[i].index) = Abs(tab[i].index),
           Limited(tab), Ordered(tab), TailIsLast(tab, tail)
    PROVE  Limited(new) /\ Ordered(new) /\ TailIsLast(new, tail)
<1>1. Len(tab) \in Nat /\ DOMAIN tab = 1..Len(tab) /\ DOMAIN new = 1..Len(tab)
  BY LenProperties
<1>2. Limited(new)
  BY <1>1 DEF Limited
<1>3. Ordered(new)
  BY <1>1 DEF Ordered
<1>4. (new = <<>>) <=> (tab = <<>>)
  BY EmptySeq
<1>5. tab # <<>> => Len(tab) \in 1..Len(tab)
  BY <1>1, EmptySeq
<1>6. TailIsLast(new, tail)
  BY <1>1, <1>4, <1>5 DEF TailIsLast
<1> QED BY <1>2, <1>3, <1>6

\* Deleting the entry with a live index keeps the order; the tail is freed with the
\* last entry.
LEMMA DeleteKeepsOrder ==
    ASSUME NEW S, NEW tab \in Seq(S), NEW tail, NEW n \in Nat \ {0},
           NEW r \in 1..Len(tab), tab[r].index = n,
           \A i \in DOMAIN tab : tab[i].index \in Int,
           Limited(tab), Ordered(tab), TailIsLast(tab, tail)
    PROVE  LET new == RemoveAt(tab, r) IN
           Limited(new) /\ Ordered(new) /\ TailIsLast(new, TailAfterDelete(tail, n))
<1> DEFINE new == RemoveAt(tab, r)
<1>1. Len(tab) \in Nat /\ DOMAIN tab = 1..Len(tab)
  BY LenProperties
<1>2. new \in Seq(S) /\ Len(new) = Len(tab) - 1
      /\ \A i \in 1..(Len(tab) - 1) : new[i] = IF i < r THEN tab[i] ELSE tab[i + 1]
  BY Removed
<1> HIDE DEF new
<1>3. DOMAIN new = 1..(Len(tab) - 1)
  BY <1>2, LenProperties
<1>4. Limited(new)
  <2> SUFFICES ASSUME NEW i \in 1..(Len(tab) - 1)
               PROVE  Abs(new[i].index) \in Indexes
    BY <1>3 DEF Limited
  <2>1. i \in 1..Len(tab) /\ i + 1 \in 1..Len(tab)
    BY <1>1
  <2> QED BY <1>1, <1>2, <2>1 DEF Limited
<1>5. Ordered(new)
  <2> SUFFICES ASSUME NEW i \in 1..(Len(tab) - 1), NEW j \in 1..(Len(tab) - 1), i < j
               PROVE  Abs(new[i].index) < Abs(new[j].index)
    BY <1>3 DEF Ordered
  <2>1. PICK a : a = IF i < r THEN i ELSE i + 1
    OBVIOUS
  <2>2. PICK b : b = IF j < r THEN j ELSE j + 1
    OBVIOUS
  <2>3. a \in 1..Len(tab) /\ b \in 1..Len(tab) /\ a < b
    BY <1>1, <2>1, <2>2
  <2>4. new[i] = tab[a] /\ new[j] = tab[b]
    BY <1>2, <2>1, <2>2
  <2> QED BY <1>1, <2>3, <2>4 DEF Ordered
<1>6. TailIsLast(new, TailAfterDelete(tail, n))
  <2> SUFFICES ASSUME TailAfterDelete(tail, n) # Freed
               PROVE  TailAfterDelete(tail, n) =
                         (IF new = <<>> THEN NoTail ELSE Abs(new[Len(new)].index))
    BY DEF TailIsLast
  <2>1. TailAfterDelete(tail, n) = tail /\ tail # n /\ tail # Freed
    BY DEF TailAfterDelete
  <2>2. tab # <<>>
    BY <1>1, EmptySeq
  <2>3. tail = Abs(tab[Len(tab)].index)
    BY <2>1, <2>2 DEF TailIsLast
  <2>4. r # Len(tab)
    BY <2>1, <2>3 DEF Abs
  <2>5. Len(tab) - 1 \in 1..(Len(tab) - 1) /\ ~(Len(tab) - 1 < r)
    <3>1. PICK L \in Nat : L = Len(tab)
      BY <1>1
    <3>2. r \in 1..L /\ r # L
      BY <2>4, <3>1
    <3>3. L - 1 \in 1..(L - 1) /\ ~(L - 1 < r)
      BY <3>2
    <3> QED BY <3>1, <3>3
  <2>6. new[Len(new)] = tab[(Len(tab) - 1) + 1] /\ (Len(tab) - 1) + 1 = Len(tab)
    BY <1>1, <1>2, <2>5
  <2>7. new # <<>>
    BY <1>2, <2>5, EmptySeq
  <2> QED BY <2>1, <2>3, <2>6, <2>7
<1> QED BY <1>4, <1>5, <1>6 DEF new

\* The place and the new index, whatever the list: the code always finds them.
LEMMA PlaceType ==
    ASSUME NEW S, NEW tab \in Seq(S), NEW want \in Int,
           \A i \in DOMAIN tab : tab[i].index \in Int
    PROVE  Place(tab, want) \in 0..Len(tab) /\ NewIndex(tab, want) \in Int
<1>1. Len(tab) \in Nat /\ DOMAIN tab = 1..Len(tab)
  BY LenProperties
<1>2. Place(tab, want) \in 0..Len(tab)
  <2>1. CASE Granted(tab, want)
    BY <2>1, EntriesBeforeExists DEF Place
  <2>2. CASE ~Granted(tab, want) /\ tab = <<>>
    BY <1>1, <2>2 DEF Place
  <2>3. CASE ~Granted(tab, want) /\ tab # <<>> /\ Len(tab) > LARGE_TABLE
    BY <1>1, <2>3 DEF Place
  <2>4. CASE ~Granted(tab, want) /\ tab # <<>> /\ ~(Len(tab) > LARGE_TABLE)
    <3>1. FirstGap(tab) \in 1..Len(tab)
      BY <1>1, <2>4, FirstGapExists
    <3> QED BY <1>1, <2>4, <3>1 DEF Place
  <2> QED BY <2>1, <2>2, <2>3, <2>4
<1>3. ~Granted(tab, want) /\ tab # <<>> => Place(tab, want) \in 1..Len(tab)
  <2> SUFFICES ASSUME ~Granted(tab, want), tab # <<>>
               PROVE  Place(tab, want) \in 1..Len(tab)
    OBVIOUS
  <2>1. Len(tab) \in 1..Len(tab) /\ FirstGap(tab) \in 1..Len(tab)
    BY <1>1, EmptySeq, FirstGapExists
  <2> QED BY <2>1 DEF Place
<1>4. NewIndex(tab, want) \in Int
  <2>1. CASE Granted(tab, want) \/ tab = <<>>
    BY <2>1 DEF NewIndex
  <2>2. CASE ~Granted(tab, want) /\ tab # <<>>
    <3>1. Abs(tab[Place(tab, want)].index) + 1 \in Int
      BY <1>1, <1>3, <2>2 DEF Abs
    <3>2. \A x \in Int : Wrap(x) \in Int
      BY IndexAssumption DEF Wrap
    <3> QED BY <2>2, <3>1, <3>2 DEF NewIndex
  <2> QED BY <2>1, <2>2
<1> QED BY <1>2, <1>4

\* A new index that has not overflowed is within the limit and lies between its
\* neighbours: it is nobody's, stale entries included.
LEMMA NewIndexFits ==
    ASSUME NEW S, NEW tab \in Seq(S), NEW want \in 0..MAX_ENTITY_INDEX,
           \A i \in DOMAIN tab : tab[i].index \in Int,
           Limited(tab), Ordered(tab), ~(NewIndex(tab, want) < 0)
    PROVE  /\ NewIndex(tab, want) \in Indexes
           /\ \A i \in 1..Place(tab, want) : Abs(tab[i].index) < NewIndex(tab, want)
           /\ \A i \in (Place(tab, want) + 1)..Len(tab) : NewIndex(tab, want) < Abs(tab[i].index)
<1>1. Len(tab) \in Nat /\ DOMAIN tab = 1..Len(tab) /\ MAX_ENTITY_INDEX \in Nat \ {0}
      /\ want \in Int
  BY LenProperties, IndexAssumption
<1>2. PICK k \in 0..Len(tab) : k = Place(tab, want)
  BY <1>1, PlaceType
<1>3. PICK x \in Int : x = NewIndex(tab, want)
  BY <1>1, PlaceType
<1>4. \A i \in 1..Len(tab) : Abs(tab[i].index) \in 1..MAX_ENTITY_INDEX
  BY <1>1 DEF Limited, Indexes
<1>5. \A i, j \in 1..Len(tab) : i < j => Abs(tab[i].index) < Abs(tab[j].index)
  BY <1>1 DEF Ordered
<1> SUFFICES /\ x \in 1..MAX_ENTITY_INDEX
             /\ \A i \in 1..k : Abs(tab[i].index) < x
             /\ \A i \in (k + 1)..Len(tab) : x < Abs(tab[i].index)
  BY <1>2, <1>3 DEF Indexes
<1>6. CASE Granted(tab, want)
  <2>1. x = want /\ want > 0 /\ k = EntriesBefore(tab, want)
    BY <1>2, <1>3, <1>6 DEF NewIndex, Place, Granted
  <2>2. /\ \A i \in 1..k : Abs(tab[i].index) < want
        /\ k = Len(tab) \/ Abs(tab[k + 1].index) >= want
    BY <1>1, <2>1, EntriesBeforeExists
  <2>3. \A i \in 1..Len(tab) : Abs(tab[i].index) # want
    <3>1. \A i \in 1..Len(tab) : Abs(tab[i].index) \in Taken(tab)
      BY <1>1 DEF Taken, IndexesOf, ToSet
    <3> QED BY <1>6, <3>1 DEF Granted
  <2>4. ASSUME NEW i \in (k + 1)..Len(tab)
        PROVE  want < Abs(tab[i].index)
    <3>1. k # Len(tab) /\ k + 1 \in 1..Len(tab) /\ i \in 1..Len(tab)
      BY <1>1, <1>2
    <3>2. want < Abs(tab[k + 1].index)
      BY <1>1, <1>2, <1>4, <2>2, <2>3, <3>1
    <3>3. CASE i = k + 1
      BY <3>2, <3>3
    <3>4. CASE k + 1 < i
      BY <1>1, <1>2, <1>4, <1>5, <3>1, <3>2, <3>4
    <3> QED BY <1>1, <1>2, <3>1, <3>3, <3>4
  <2> QED BY <1>1, <2>1, <2>2, <2>4
<1>7. CASE ~Granted(tab, want) /\ tab = <<>>
  <2>1. x = 1 /\ k = 0 /\ Len(tab) = 0
    BY <1>2, <1>3, <1>7 DEF NewIndex, Place
  <2> QED BY <1>1, <2>1
<1>8. CASE ~Granted(tab, want) /\ tab # <<>>
  <2>1. k \in 1..Len(tab) /\ x = Wrap(Abs(tab[k].index) + 1)
    <3>1. k \in {Len(tab), FirstGap(tab)}
      BY <1>2, <1>8 DEF Place
    <3>2. Len(tab) \in 1..Len(tab) /\ FirstGap(tab) \in 1..Len(tab)
      BY <1>1, <1>8, EmptySeq, FirstGapExists
    <3> QED BY <1>2, <1>3, <1>8, <3>1, <3>2 DEF NewIndex
  <2>2. k = Len(tab) \/ Abs(tab[k + 1].index) - Abs(tab[k].index) > 1
    BY <1>2, <1>8, FirstGapExists DEF Place
  <2>3. PICK a \in 1..MAX_ENTITY_INDEX : a = Abs(tab[k].index)
    BY <1>4, <2>1
  <2>4. x = a + 1 /\ x \in 1..MAX_ENTITY_INDEX
    <3>1. x = Wrap(a + 1) /\ ~(x < 0)
      BY <1>3, <2>1, <2>3
    <3> QED BY <1>1, <3>1 DEF Wrap
  <2>5. ASSUME NEW i \in 1..k
        PROVE  Abs(tab[i].index) < x
    <3>1. i \in 1..Len(tab) /\ (i = k \/ i < k)
      BY <1>1, <2>1
    <3>2. CASE i = k
      BY <2>3, <2>4, <3>2
    <3>3. CASE i < k
      <4>1. Abs(tab[i].index) \in Int /\ Abs(tab[i].index) < a
        BY <1>1, <1>4, <1>5, <2>1, <2>3, <3>1, <3>3
      <4> QED BY <2>4, <4>1
    <3> QED BY <3>1, <3>2, <3>3
  <2>6. ASSUME NEW i \in (k + 1)..Len(tab)
        PROVE  x < Abs(tab[i].index)
    <3>1. k # Len(tab) /\ k + 1 \in 1..Len(tab) /\ i \in 1..Len(tab)
      BY <1>1, <2>1
    <3>2. x < Abs(tab[k + 1].index) /\ Abs(tab[k + 1].index) \in Int
      <4>1. PICK b \in 1..MAX_ENTITY_INDEX : b = Abs(tab[k + 1].index)
        BY <1>4, <3>1
      <4>2. b - a > 1
        BY <2>2, <2>3, <3>1, <4>1
      <4> QED BY <1>1, <2>4, <4>1, <4>2
    <3>3. CASE i = k + 1
      BY <3>2, <3>3
    <3>4. CASE k + 1 < i
      BY <1>3, <1>4, <1>5, <3>1, <3>2, <3>4
    <3> QED BY <1>1, <1>2, <3>1, <3>3, <3>4
  <2> QED BY <2>4, <2>5, <2>6
<1> QED BY <1>6, <1>7, <1>8

\* Inserting an entry between the lower and the higher ones keeps the order.
LEMMA InsertKeepsOrder ==
    ASSUME NEW S, NEW tab \in Seq(S), NEW k \in 0..Len(tab), NEW e \in S, NEW x \in Int,
           x = Abs(e.index), x \in Indexes,
           \A i \in 1..k : Abs(tab[i].index) < x,
           \A i \in (k + 1)..Len(tab) : x < Abs(tab[i].index),
           Limited(tab), Ordered(tab)
    PROVE  /\ Limited(InsertAt(tab, k + 1, e)) /\ Ordered(InsertAt(tab, k + 1, e))
           /\ InsertAt(tab, k + 1, e) # <<>>
           /\ InsertAt(tab, k + 1, e)[Len(InsertAt(tab, k + 1, e))] =
                 IF k = Len(tab) THEN e ELSE tab[Len(tab)]
<1> DEFINE new == InsertAt(tab, k + 1, e)
<1>1. Len(tab) \in Nat /\ DOMAIN tab = 1..Len(tab)
  BY LenProperties
<1>5. new \in Seq(S) /\ HasAfter(new, tab, k, e)
  BY Inserted
<1> HIDE DEF new
<1>6. /\ new \in Seq(S) /\ Len(new) = Len(tab) + 1
      /\ \A i \in 1..(Len(tab) + 1) :
            new[i] = IF i <= k THEN tab[i] ELSE IF i = k + 1 THEN e ELSE tab[i - 1]
  BY <1>5 DEF HasAfter
<1>7. DOMAIN new = 1..(Len(tab) + 1)
  BY <1>6, LenProperties
<1>8. Limited(new)
  <2> SUFFICES ASSUME NEW i \in 1..(Len(tab) + 1)
               PROVE  Abs(new[i].index) \in Indexes
    BY <1>7 DEF Limited
  <2>1. CASE i <= k
    <3>1. i \in 1..Len(tab)
      BY <1>1, <2>1
    <3> QED BY <1>1, <1>6, <2>1, <3>1 DEF Limited
  <2>2. CASE i = k + 1
    <3>1. new[i] = e
      BY <1>1, <1>6, <2>2
    <3> QED BY <3>1
  <2>3. CASE k + 1 < i
    <3>1. i - 1 \in 1..Len(tab) /\ ~(i <= k) /\ i # k + 1
      BY <1>1, <2>3
    <3> QED BY <1>1, <1>6, <3>1 DEF Limited
  <2> QED BY <1>1, <2>1, <2>2, <2>3
<1>9. Ordered(new)
  <2> SUFFICES ASSUME NEW i \in 1..(Len(tab) + 1), NEW j \in 1..(Len(tab) + 1), i < j
               PROVE  Abs(new[i].index) < Abs(new[j].index)
    BY <1>7 DEF Ordered
  <2>1. CASE i <= k /\ j <= k
    <3>1. i \in 1..Len(tab) /\ j \in 1..Len(tab) /\ new[i] = tab[i] /\ new[j] = tab[j]
      BY <1>1, <1>6, <2>1
    <3> QED BY <1>1, <3>1 DEF Ordered
  <2>2. CASE i <= k /\ j = k + 1
    <3>1. i \in 1..k /\ new[i] = tab[i] /\ new[j] = e
      BY <1>1, <1>6, <2>2
    <3> QED BY <3>1
  <2>3. CASE i <= k /\ k + 1 < j
    <3>1. i \in 1..Len(tab) /\ j - 1 \in 1..Len(tab) /\ i < j - 1
      BY <1>1, <2>3
    <3>2. new[i] = tab[i] /\ new[j] = tab[j - 1]
      BY <1>1, <1>6, <2>3
    <3> QED BY <1>1, <3>1, <3>2 DEF Ordered
  <2>4. CASE i = k + 1 /\ k + 1 < j
    <3>1. j - 1 \in (k + 1)..Len(tab) /\ new[i] = e /\ new[j] = tab[j - 1]
      BY <1>1, <1>6, <2>4
    <3> QED BY <3>1
  <2>5. CASE k + 1 < i /\ k + 1 < j
    <3>1. i - 1 \in 1..Len(tab) /\ j - 1 \in 1..Len(tab) /\ i - 1 < j - 1
      BY <1>1, <2>5
    <3>2. new[i] = tab[i - 1] /\ new[j] = tab[j - 1]
      BY <1>1, <1>6, <2>5
    <3> QED BY <1>1, <3>1, <3>2 DEF Ordered
  <2> QED BY <1>1, <2>1, <2>2, <2>3, <2>4, <2>5
<1>10. new # <<>> /\ new[Len(new)] = IF k = Len(tab) THEN e ELSE tab[Len(tab)]
  <2>1. new # <<>> /\ Len(tab) + 1 \in 1..(Len(tab) + 1)
    BY <1>1, <1>6, EmptySeq
  <2>2. CASE k = Len(tab)
    BY <1>1, <1>6, <2>1, <2>2
  <2>3. CASE k # Len(tab)
    <3>1. ~(Len(tab) + 1 <= k) /\ Len(tab) + 1 # k + 1 /\ (Len(tab) + 1) - 1 = Len(tab)
      <4>1. PICK n \in Nat : n = Len(tab)
        BY <1>1
      <4>2. k \in 0..n /\ k # n
        BY <2>3, <4>1
      <4>3. ~(n + 1 <= k) /\ n + 1 # k + 1 /\ (n + 1) - 1 = n
        BY <4>2
      <4> QED BY <4>1, <4>3
    <3>2. new[Len(tab) + 1] = tab[(Len(tab) + 1) - 1]
      BY <1>6, <2>1, <3>1
    <3> QED BY <1>6, <2>1, <2>3, <3>1, <3>2
  <2> QED BY <2>2, <2>3
<1> QED BY <1>8, <1>9, <1>10 DEF new

\* AddTo keeps the order, and the tail the last entry.
LEMMA AddKeepsOrder ==
    ASSUME NEW S, NEW tab \in Seq(S), NEW tail, NEW want \in 0..MAX_ENTITY_INDEX,
           NEW k \in 0..Len(tab), k = Place(tab, want),
           NEW e \in S, e.index = NewIndex(tab, want),
           \A i \in DOMAIN tab : tab[i].index \in Int,
           Limited(tab), Ordered(tab), TailIsLast(tab, tail), ~(NewIndex(tab, want) < 0)
    PROVE  /\ Limited(InsertAt(tab, k + 1, e)) /\ Ordered(InsertAt(tab, k + 1, e))
           /\ TailIsLast(InsertAt(tab, k + 1, e), TailAfterAdd(tab, tail, want))
<1> DEFINE new == InsertAt(tab, k + 1, e)
<1>1. Len(tab) \in Nat /\ DOMAIN tab = 1..Len(tab) /\ want \in Int
  BY LenProperties, IndexAssumption
<1>3. PICK x : x = NewIndex(tab, want)
  OBVIOUS
<1>4. /\ x \in Indexes
      /\ \A i \in 1..k : Abs(tab[i].index) < x
      /\ \A i \in (k + 1)..Len(tab) : x < Abs(tab[i].index)
  BY <1>3, NewIndexFits
<1>5. x = Abs(e.index) /\ x \in Int
  BY <1>3, <1>4, IndexAssumption DEF Indexes, Abs
<1>6. /\ Limited(new) /\ Ordered(new) /\ new # <<>>
      /\ new[Len(new)] = IF k = Len(tab) THEN e ELSE tab[Len(tab)]
  BY SMTT(30), <1>4, <1>5, InsertKeepsOrder
<1> HIDE DEF new
<1>7. TailIsLast(new, TailAfterAdd(tab, tail, want))
  <2>1. CASE k = Len(tab)
    <3>1. TailAfterAdd(tab, tail, want) = Abs(e.index)
      BY <2>1 DEF TailAfterAdd
    <3> QED BY <1>6, <2>1, <3>1 DEF TailIsLast
  <2>2. CASE k # Len(tab)
    <3>1. TailAfterAdd(tab, tail, want) = tail
      BY <2>2 DEF TailAfterAdd
    <3>2. tab # <<>>
      BY <1>1, <2>2, EmptySeq
    <3> QED BY <1>6, <2>2, <3>1, <3>2 DEF TailIsLast
  <2> QED BY <2>1, <2>2
<1> QED BY <1>6, <1>7 DEF new

(***************************************************************************)
(* Rows, and the entries they are about                                    *)
(***************************************************************************)
\* Rows from which pairs were taken and none was added.
Fewer(new, rows) ==
    DOMAIN new \subseteq DOMAIN rows /\ \A x \in DOMAIN new : new[x] \subseteq rows[x]

\* Entries that kept their index and their class, as when parents are replaced.
SameEntries(new, tab) ==
    /\ new \in Seq(PhysEntries) /\ Len(new) = Len(tab)
    /\ \A i \in 1..Len(tab) : new[i].index = tab[i].index /\ new[i].class = tab[i].class

\* Who is live, by position in the list.
LEMMA LiveByPosition ==
    ASSUME NEW tab, NEW n
    PROVE  n \in Live(tab) <=> n > 0 /\ \E i \in DOMAIN tab : tab[i].index = n
BY DEF Live, IndexesOf, ToSet

\* The deletions of the mapping tables only take pairs away.
LEMMA DeletionsAreFewer ==
    ASSUME NEW rows, NEW k, NEW v
    PROVE  /\ Fewer(rows, rows)
           /\ Fewer(WithoutRow(rows, k), rows) /\ k \notin DOMAIN WithoutRow(rows, k)
           /\ Fewer(WithoutValue(rows, v), rows)
           /\ \A x \in DOMAIN WithoutValue(rows, v) : v \notin WithoutValue(rows, v)[x]
           /\ k \in DOMAIN rows => Fewer(WithoutPair(rows, k, v), rows)
<1>1. Fewer(rows, rows)
  BY DEF Fewer
<1>2. Fewer(WithoutRow(rows, k), rows) /\ k \notin DOMAIN WithoutRow(rows, k)
  BY DEF Fewer, WithoutRow
<1>3. Fewer(WithoutValue(rows, v), rows)
      /\ \A x \in DOMAIN WithoutValue(rows, v) : v \notin WithoutValue(rows, v)[x]
  BY DEF Fewer, WithoutValue
<1>4. k \in DOMAIN rows => Fewer(WithoutPair(rows, k, v), rows)
  BY DEF Fewer, WithoutPair
<1> QED BY <1>1, <1>2, <1>3, <1>4

\* Taking pairs away twice is taking pairs away.
LEMMA FewerTransitive ==
    ASSUME NEW a, NEW b, NEW c, Fewer(a, b), Fewer(b, c)
    PROVE  Fewer(a, c)
BY DEF Fewer

\* With fewer pairs the rows have their type and an entity has no new parent.
LEMMA FewerKeeps ==
    ASSUME NEW rows, NEW new, Fewer(new, rows)
    PROVE  /\ \A K, V : AreRows(rows, K, V) => AreRows(new, K, V)
           /\ \A c : KeysWith(new, c) \subseteq KeysWith(rows, c)
BY DEF Fewer, AreRows, KeysWith

\* The parents of an entity have indexes.
LEMMA KeysAreIndexes ==
    ASSUME NEW rows, NEW c, AreRows(rows, Indexes, Indexes)
    PROVE  KeysWith(rows, c) \subseteq Indexes
BY DEF AreRows, KeysWith

\* A pair added to two indexes in range.
LEMMA PairAdded ==
    ASSUME NEW rows, NEW k, NEW v, NEW K, NEW V, AreRows(rows, K, V), k \in K, v \in V
    PROVE  /\ AreRows(WithPair(rows, k, v), K, V)
           /\ DOMAIN WithPair(rows, k, v) = DOMAIN rows \cup {k}
           /\ \A x \in DOMAIN rows \cup {k} :
                 WithPair(rows, k, v)[x] \subseteq Row(rows, x) \cup (IF x = k THEN {v} ELSE {})
<1> DEFINE new == WithPair(rows, k, v)
<1>1. DOMAIN new = DOMAIN rows \cup {k}
  BY DEF WithPair
<1>2. ASSUME NEW x \in DOMAIN rows \cup {k}
      PROVE  new[x] = IF x = k THEN Row(rows, k) \cup {v} ELSE rows[x]
  BY DEF WithPair
<1> HIDE DEF new
<1>3. \A x : Row(rows, x) \subseteq V
  BY DEF Row, HasRow, AreRows
<1>4. \A x \in DOMAIN rows : Row(rows, x) = rows[x]
  BY DEF Row, HasRow
<1>5. ASSUME NEW x \in DOMAIN rows \cup {k}
      PROVE  /\ new[x] \subseteq V
             /\ new[x] \subseteq Row(rows, x) \cup (IF x = k THEN {v} ELSE {})
  <2>1. CASE x = k
    BY <1>2, <1>3, <2>1
  <2>2. CASE x # k
    BY <1>2, <1>3, <1>4, <2>2
  <2> QED BY <2>1, <2>2
<1>6. AreRows(new, K, V)
  BY <1>1, <1>5 DEF AreRows
<1> QED BY <1>1, <1>5, <1>6 DEF new

\* A list given by its entries at every position of another.
LEMMA ListOfEntries ==
    ASSUME NEW S, NEW tab \in Seq(S), NEW new, DOMAIN new = DOMAIN tab,
           new = [i \in DOMAIN new |-> new[i]], \A i \in DOMAIN tab : new[i] \in S
    PROVE  new \in Seq(S) /\ Len(new) = Len(tab)
<1>1. Len(tab) \in Nat /\ DOMAIN tab = 1..Len(tab)
  BY LenProperties
<1>2. new \in [1..Len(tab) -> S]
  BY <1>1
<1> QED BY <1>1, <1>2

(***************************************************************************)
(* Replacing parents                                                       *)
(***************************************************************************)
\* An entry with another parent or another index is still an entry.
LEMMA EntryTypes ==
    ASSUME NEW e \in PhysEntries
    PROVE  /\ e.index \in Int /\ e.parent \in 0..MAX_ENTITY_INDEX
           /\ e.given \in 0..MAX_ENTITY_INDEX
           /\ \A q \in 0..MAX_ENTITY_INDEX :
                 LET f == [e EXCEPT !.parent = q] IN
                 f \in PhysEntries /\ f.index = e.index /\ f.class = e.class /\ f.parent = q
                 /\ f.given = e.given
           /\ \A x \in Int :
                 LET f == [e EXCEPT !.index = x] IN
                 f \in PhysEntries /\ f.index = x /\ f.class = e.class /\ f.parent = e.parent
                 /\ f.given = e.given
BY DEF PhysEntries

\* The parent of an entry is not one that is taken away.
Stays(e, rows, rest) ==
    e.parent \in KeysWith(rows, e.index) => e.parent \in KeysWith(rest, e.index)

\* The lowest parent is the lowest one when others are taken away.
LEMMA StaysLowest ==
    ASSUME NEW e \in PhysEntries, NEW rows, NEW rest, AreRows(rows, Indexes, Indexes),
           Fewer(rest, rows), Stays(e, rows, rest), LowestOf(e, rows)
    PROVE  LowestOf(e, rest)
<1>1. KeysWith(rest, e.index) \subseteq KeysWith(rows, e.index)
      /\ KeysWith(rows, e.index) \subseteq Indexes
  BY FewerKeeps, KeysAreIndexes
<1>2. CASE e.parent = Lowest(rows, e.index)
  <2>1. CASE KeysWith(rows, e.index) = {}
    BY <1>1, <1>2, <2>1 DEF Lowest, LowestOf
  <2>2. CASE KeysWith(rows, e.index) # {}
    <3>1. e.parent \in KeysWith(rows, e.index)
          /\ \A q \in KeysWith(rows, e.index) : e.parent \in 1..q
      BY <1>1, <1>2, <2>2, LowestParent
    <3>2. e.parent \in KeysWith(rest, e.index)
      BY <3>1 DEF Stays
    <3>3. \A q \in KeysWith(rest, e.index) : e.parent <= q
      BY <1>1, <3>1
    <3>4. Lowest(rest, e.index) = e.parent
      BY <1>1, <3>2, <3>3, LowestIs
    <3> QED BY <3>4 DEF LowestOf
  <2> QED BY <2>1, <2>2
<1>3. CASE e.parent = e.given /\ e.given # 0 /\ \A p \in KeysWith(rows, e.index) : e.given < p
  BY <1>1, <1>3 DEF LowestOf
<1> QED BY <1>2, <1>3 DEF LowestOf

\* Parents are replaced when rows are deleted: an entry either keeps its parent, which is
\* not taken away, or gets the lowest one of the rows that are left.
LEMMA ReparentKeeps ==
    ASSUME NEW tab \in Seq(PhysEntries), NEW new, NEW rows, NEW rest,
           AreRows(rows, Indexes, Indexes), Fewer(rest, rows),
           DOMAIN new = DOMAIN tab, new = [i \in DOMAIN new |-> new[i]],
           \A i \in DOMAIN tab :
              \/ new[i] = tab[i] /\ Stays(tab[i], rows, rest)
              \/ new[i] = [tab[i] EXCEPT !.parent = Lowest(rest, tab[i].index)]
    PROVE  SameEntries(new, tab) /\ (AllLowest(tab, rows) => AllLowest(new, rest))
<1>1. DOMAIN tab = 1..Len(tab) /\ \A i \in 1..Len(tab) : tab[i] \in PhysEntries
  BY LenProperties, ElementOfSeq
<1>0. AreRows(rest, Indexes, Indexes)
  BY FewerKeeps
<1>2. ASSUME NEW i \in 1..Len(tab)
      PROVE  /\ new[i] \in PhysEntries /\ new[i].index = tab[i].index
             /\ new[i].class = tab[i].class
             /\ \/ new[i] = tab[i] /\ Stays(tab[i], rows, rest)
                \/ new[i].parent = Lowest(rest, new[i].index)
  <2>1. PICK e \in PhysEntries : e = tab[i]
    BY <1>1
  <2>2. PICK q \in 0..MAX_ENTITY_INDEX : q = Lowest(rest, e.index)
    <3>1. KeysWith(rest, e.index) \subseteq Indexes
      BY <1>0, KeysAreIndexes
    <3> QED BY <3>1, LowestParent
  <2>3. \/ new[i] = e /\ Stays(e, rows, rest)
        \/ new[i] = [e EXCEPT !.parent = q]
    BY <1>1, <2>1, <2>2
  <2>4. CASE new[i] = e /\ Stays(e, rows, rest)
    BY <2>1, <2>4
  <2>5. CASE new[i] = [e EXCEPT !.parent = q]
    BY <2>1, <2>2, <2>5, EntryTypes
  <2> QED BY <2>3, <2>4, <2>5
<1>3. new \in Seq(PhysEntries) /\ Len(new) = Len(tab)
  BY <1>1, <1>2, ListOfEntries
<1>4. SameEntries(new, tab)
  BY <1>2, <1>3 DEF SameEntries
<1>5. ASSUME AllLowest(tab, rows), NEW i \in 1..Len(tab)
      PROVE  LowestAt(new, rest, i)
  <2>1. PICK e \in PhysEntries : e = tab[i]
    BY <1>1
  <2>2. LowestOf(e, rows)
    BY <1>1, <1>5, <2>1 DEF AllLowest, LowestAt
  <2>3. CASE new[i] = e /\ Stays(e, rows, rest)
    BY <2>2, <2>3, StaysLowest DEF LowestAt
  <2>4. CASE new[i].parent = Lowest(rest, new[i].index)
    BY <2>4 DEF LowestAt, LowestOf
  <2> QED BY <1>2, <2>1, <2>3, <2>4
<1> QED BY <1>1, <1>3, <1>4, <1>5 DEF AllLowest, SameEntries

\* deletePhysicalContainsParentIndex.
LEMMA DeleteParentKeeps ==
    ASSUME NEW tab \in Seq(PhysEntries), NEW rows, AreRows(rows, Indexes, Indexes), NEW p
    PROVE  LET new == AfterDeleteParent(tab, rows, p) IN
           SameEntries(new, tab) /\ (AllLowest(tab, rows) => AllLowest(new, WithoutRow(rows, p)))
<1> DEFINE new == AfterDeleteParent(tab, rows, p)  rest == WithoutRow(rows, p)
<1>1. Fewer(rest, rows) /\ AreRows(rest, Indexes, Indexes)
  BY DeletionsAreFewer, FewerKeeps
<1>2. DOMAIN new = DOMAIN tab /\ new = [i \in DOMAIN new |-> new[i]]
  BY DEF AfterDeleteParent, Reparented
<1>3. \A i \in DOMAIN tab : \/ new[i] = tab[i] /\ Stays(tab[i], rows, rest)
                            \/ new[i] = [tab[i] EXCEPT !.parent = Lowest(rest, tab[i].index)]
  BY DEF AfterDeleteParent, Reparented, Stays, KeysWith, WithoutRow, Row, HasRow
<1> HIDE DEF new, rest
<1>4. SameEntries(new, tab) /\ (AllLowest(tab, rows) => AllLowest(new, rest))
  BY <1>1, <1>2, <1>3, ReparentKeeps
<1> QED BY <1>4 DEF new, rest

\* deletePhysicalContainsTableEntry.
LEMMA DeletePairKeeps ==
    ASSUME NEW tab \in Seq(PhysEntries), NEW rows, AreRows(rows, Indexes, Indexes),
           NEW p \in DOMAIN rows, NEW c
    PROVE  LET new == AfterDeletePair(tab, rows, p, c) IN
           SameEntries(new, tab) /\ (AllLowest(tab, rows) => AllLowest(new, WithoutPair(rows, p, c)))
<1> DEFINE new == AfterDeletePair(tab, rows, p, c)  rest == WithoutPair(rows, p, c)
<1>1. Fewer(rest, rows) /\ AreRows(rest, Indexes, Indexes)
  BY DeletionsAreFewer, FewerKeeps
<1>2. DOMAIN new = DOMAIN tab /\ new = [i \in DOMAIN new |-> new[i]]
  BY DEF AfterDeletePair, Reparented
<1>3. \A i \in DOMAIN tab : \/ new[i] = tab[i] /\ Stays(tab[i], rows, rest)
                            \/ new[i] = [tab[i] EXCEPT !.parent = Lowest(rest, tab[i].index)]
  BY DEF AfterDeletePair, Reparented, Stays, KeysWith, WithoutPair
<1> HIDE DEF new, rest
<1>4. SameEntries(new, tab) /\ (AllLowest(tab, rows) => AllLowest(new, rest))
  BY <1>1, <1>2, <1>3, ReparentKeeps
<1> QED BY <1>4 DEF new, rest

\* deletePhysicalContainsChildIndex.
LEMMA DeleteChildKeeps ==
    ASSUME NEW tab \in Seq(PhysEntries), NEW rows, AreRows(rows, Indexes, Indexes), NEW c
    PROVE  LET new == AfterDeleteChild(tab, rows, c) IN
           SameEntries(new, tab) /\ (AllLowest(tab, rows) => AllLowest(new, WithoutValue(rows, c)))
<1> DEFINE new == AfterDeleteChild(tab, rows, c)  rest == WithoutValue(rows, c)
<1>1. Fewer(rest, rows) /\ AreRows(rest, Indexes, Indexes)
  BY DeletionsAreFewer, FewerKeeps
<1>2. DOMAIN new = DOMAIN tab /\ new = [i \in DOMAIN new |-> new[i]]
  BY DEF AfterDeleteChild
<1>3. \A i \in DOMAIN tab : \/ new[i] = tab[i] /\ Stays(tab[i], rows, rest)
                            \/ new[i] = [tab[i] EXCEPT !.parent = Lowest(rest, tab[i].index)]
  BY DEF AfterDeleteChild, Stays, KeysWith, WithoutValue
<1> HIDE DEF new, rest
<1>4. SameEntries(new, tab) /\ (AllLowest(tab, rows) => AllLowest(new, rest))
  BY <1>1, <1>2, <1>3, ReparentKeeps
<1> QED BY <1>4 DEF new, rest

(***************************************************************************)
(* The calls: rows only                                                    *)
(***************************************************************************)
\* Entries that kept index and class are live and ports as before, and in order.
LEMMA SameEntriesKeep ==
    ASSUME NEW tab \in Seq(PhysEntries), NEW new, SameEntries(new, tab)
    PROVE  /\ DOMAIN new = 1..Len(tab) /\ DOMAIN tab = 1..Len(tab)
           /\ Live(new) = Live(tab)
           /\ \A al, less : AllPorts(tab, al) /\ Fewer(less, al) => AllPorts(new, less)
           /\ \A tail : Limited(tab) /\ Ordered(tab) /\ TailIsLast(tab, tail)
                        => Limited(new) /\ Ordered(new) /\ TailIsLast(new, tail)
<1>1. DOMAIN new = 1..Len(tab) /\ DOMAIN tab = 1..Len(tab)
  BY LenProperties DEF SameEntries
<1>2. \A i \in 1..Len(tab) : new[i].index = tab[i].index /\ new[i].class = tab[i].class
  BY DEF SameEntries
<1>3. Live(new) = Live(tab)
  <2>1. \A n : n \in Live(new) <=> n > 0 /\ \E i \in DOMAIN new : new[i].index = n
    BY LiveByPosition
  <2>2. \A n : n \in Live(tab) <=> n > 0 /\ \E i \in DOMAIN tab : tab[i].index = n
    BY LiveByPosition
  <2>3. \A n : n \in Live(new) <=> n \in Live(tab)
    BY <1>1, <1>2, <2>1, <2>2
  <2> QED BY <2>3
<1>4. \A al, less : AllPorts(tab, al) /\ Fewer(less, al) => AllPorts(new, less)
  BY <1>1, <1>2 DEF AllPorts, PortAt, Fewer
<1>5. ASSUME NEW tail, Limited(tab), Ordered(tab), TailIsLast(tab, tail)
      PROVE  Limited(new) /\ Ordered(new) /\ TailIsLast(new, tail)
  <2>1. new \in Seq(PhysEntries) /\ Len(new) = Len(tab)
    BY DEF SameEntries
  <2>2. \A i \in 1..Len(tab) : Abs(new[i].index) = Abs(tab[i].index)
    BY <1>2
  <2> QED BY <1>5, <2>1, <2>2, SameIndexes
<1> QED BY <1>1, <1>3, <1>4, <1>5

\* The physical table is as it was.
LEMMA SameIsSame ==
    ASSUME NEW tab \in Seq(PhysEntries)
    PROVE  SameEntries(tab, tab)
BY LenProperties DEF SameEntries

\* A call that takes pairs away, and replaces the parents in them, keeps the invariant.
LEMMA ShrinkKeeps ==
    ASSUME TableInv, SameEntries(physical', physical),
           Fewer(contains', contains), Fewer(lp', lp), Fewer(alias', alias),
           AllLowest(physical, contains) => AllLowest(physical', contains'),
           UNCHANGED <<physTail, logical, logTail, unhandled>>
    PROVE  TableInv'
<1>1. Types
  BY DEF TableInv
<1>2. Types'
  <2>1. AreRows(contains, Indexes, Indexes)' /\ AreRows(lp, Indexes, Indexes)'
        /\ AreRows(alias, Indexes, 0..MAX_ENTITY_INDEX)'
    BY <1>1, FewerKeeps DEF Types
  <2>2. physical' \in Seq(PhysEntries)
    BY DEF SameEntries
  <2> QED BY <1>1, <2>1, <2>2 DEF Types
<1>3. ASSUME ~unhandled'
      PROVE  Lists' /\ Rows'
  <2>1. Lists /\ Rows
    BY <1>3 DEF TableInv
  <2>2. physical \in Seq(PhysEntries)
    BY <1>1 DEF Types
  <2>3. Live(physical') = Live(physical)
    BY <2>2, SameEntriesKeep
  <2>4. Lists'
    BY <2>1, <2>2, SameEntriesKeep DEF Lists
  <2>5. ContainsNames'
    BY <2>1, <2>3 DEF Rows, ContainsNames, Fewer
  <2>6. LpNames'
    BY <2>1, <2>3 DEF Rows, LpNames, Fewer
  <2>7. AliasNames'
    BY <2>1, <2>3 DEF Rows, AliasNames, Fewer
  <2>8. AllPorts(physical, alias)'
    BY <2>1, <2>2, SameEntriesKeep DEF Rows
  <2>9. AllLowest(physical, contains)'
    BY <2>1 DEF Rows
  <2> QED BY <2>4, <2>5, <2>6, <2>7, <2>8, <2>9 DEF Rows
<1> QED BY <1>2, <1>3 DEF TableInv

\* The deletions in the two mapping tables.
LEMMA DeleteMappingsKeep ==
    ASSUME TableInv, Fewer(lp', lp), Fewer(alias', alias),
           UNCHANGED <<physical, physTail, logical, logTail, contains, unhandled>>
    PROVE  TableInv'
<1>1. physical \in Seq(PhysEntries)
  BY DEF TableInv, Types
<1>2. SameEntries(physical', physical)
  BY <1>1, SameIsSame
<1>3. Fewer(contains', contains)
  BY DeletionsAreFewer
<1>4. AllLowest(physical, contains) => AllLowest(physical', contains')
  OBVIOUS
<1> QED BY <1>2, <1>3, <1>4, ShrinkKeeps

\* deleteLPMapping... and deleteAliasMapping... take pairs away.
LEMMA MappingDeletionsKeep ==
    ASSUME TableInv, NEW n, NEW m,
           \/ deleteLPMappingTableEntry(n, m) \/ deleteLPMappingPhysicalIndex(n)
           \/ deleteLPMappingLogicalIndex(n) \/ deleteAliasMappingTableEntry(n, m)
           \/ deleteAliasMappingPhysicalIndex(n) \/ deleteAliasMappingLogicalIndex(n)
    PROVE  TableInv'
<1>1. \A rows : m \in Row(rows, n) => n \in DOMAIN rows
  BY DEF Row, HasRow
<1>2. CASE deleteLPMappingTableEntry(n, m)
  <2>1. Fewer(lp', lp) /\ Fewer(alias', alias)
    BY <1>1, <1>2, DeletionsAreFewer DEF deleteLPMappingTableEntry
  <2> QED BY <1>2, <2>1, DeleteMappingsKeep DEF deleteLPMappingTableEntry
<1>3. CASE deleteLPMappingPhysicalIndex(n)
  <2>1. Fewer(lp', lp) /\ Fewer(alias', alias)
    BY <1>3, DeletionsAreFewer DEF deleteLPMappingPhysicalIndex
  <2> QED BY <1>3, <2>1, DeleteMappingsKeep DEF deleteLPMappingPhysicalIndex
<1>4. CASE deleteLPMappingLogicalIndex(n)
  <2>1. Fewer(lp', lp) /\ Fewer(alias', alias)
    BY <1>4, DeletionsAreFewer DEF deleteLPMappingLogicalIndex
  <2> QED BY <1>4, <2>1, DeleteMappingsKeep DEF deleteLPMappingLogicalIndex
<1>5. CASE deleteAliasMappingTableEntry(n, m)
  <2>1. Fewer(lp', lp) /\ Fewer(alias', alias)
    BY <1>1, <1>5, DeletionsAreFewer DEF deleteAliasMappingTableEntry
  <2> QED BY <1>5, <2>1, DeleteMappingsKeep DEF deleteAliasMappingTableEntry
<1>6. CASE deleteAliasMappingPhysicalIndex(n)
  <2>1. Fewer(lp', lp) /\ Fewer(alias', alias)
    BY <1>6, DeletionsAreFewer DEF deleteAliasMappingPhysicalIndex
  <2> QED BY <1>6, <2>1, DeleteMappingsKeep DEF deleteAliasMappingPhysicalIndex
<1>7. CASE deleteAliasMappingLogicalIndex(n)
  <2>1. Fewer(lp', lp) /\ Fewer(alias', alias)
    BY <1>7, DeletionsAreFewer DEF deleteAliasMappingLogicalIndex
  <2> QED BY <1>7, <2>1, DeleteMappingsKeep DEF deleteAliasMappingLogicalIndex
<1> QED BY <1>2, <1>3, <1>4, <1>5, <1>6, <1>7

\* The deletions in the contains table give the children their lowest remaining parent.
LEMMA ContainsDeletionsKeep ==
    ASSUME TableInv, NEW p, NEW c,
           \/ deletePhysicalContainsTableEntry(p, c)
           \/ deletePhysicalContainsParentIndex(p)
           \/ deletePhysicalContainsChildIndex(c)
    PROVE  TableInv'
<1>1. physical \in Seq(PhysEntries) /\ AreRows(contains, Indexes, Indexes)
  BY DEF TableInv, Types
<1>2. UNCHANGED <<physTail, logical, logTail, lp, alias, unhandled>>
  BY DEF deletePhysicalContainsTableEntry, deletePhysicalContainsParentIndex,
         deletePhysicalContainsChildIndex
<1>3. Fewer(lp', lp) /\ Fewer(alias', alias)
  BY <1>2, DeletionsAreFewer
<1>4. /\ SameEntries(physical', physical) /\ Fewer(contains', contains)
      /\ AllLowest(physical, contains) => AllLowest(physical', contains')
  <2>1. CASE deletePhysicalContainsTableEntry(p, c)
    <3>1. p \in DOMAIN contains
      BY <2>1 DEF deletePhysicalContainsTableEntry, Row, HasRow
    <3>2. contains' = WithoutPair(contains, p, c)
          /\ physical' = AfterDeletePair(physical, contains, p, c)
      BY <2>1 DEF deletePhysicalContainsTableEntry
    <3> QED BY <1>1, <3>1, <3>2, DeletionsAreFewer, DeletePairKeeps
  <2>2. CASE deletePhysicalContainsParentIndex(p)
    <3>1. contains' = WithoutRow(contains, p)
          /\ physical' = AfterDeleteParent(physical, contains, p)
      BY <2>2 DEF deletePhysicalContainsParentIndex
    <3> QED BY <1>1, <3>1, DeletionsAreFewer, DeleteParentKeeps
  <2>3. CASE deletePhysicalContainsChildIndex(c)
    <3>1. contains' = WithoutValue(contains, c)
          /\ physical' = AfterDeleteChild(physical, contains, c)
      BY <2>3 DEF deletePhysicalContainsChildIndex
    <3> QED BY <1>1, <3>1, DeletionsAreFewer, DeleteChildKeeps
  <2> QED BY <2>1, <2>2, <2>3
<1> QED BY <1>2, <1>3, <1>4, ShrinkKeeps

\* A new pair gives its child one parent more, and the others none.
LEMMA OtherKeysStay ==
    ASSUME NEW rows, NEW p, NEW c
    PROVE  /\ KeysWith(WithPair(rows, p, c), c) = KeysWith(rows, c) \cup {p}
           /\ \A n : n # c => KeysWith(WithPair(rows, p, c), n) = KeysWith(rows, n)
BY DEF KeysWith, WithPair, Row, HasRow

\* The child keeps its parent if that is not above the new one ...
LEMMA KeptParentIsLowest ==
    ASSUME NEW rows, AreRows(rows, Indexes, Indexes), NEW p \in Indexes,
           NEW e \in PhysEntries, LowestOf(e, rows), ~(e.parent = 0 \/ e.parent > p)
    PROVE  LowestOf(e, WithPair(rows, p, e.index))
<1> DEFINE new == WithPair(rows, p, e.index)
<1>1. /\ KeysWith(new, e.index) = KeysWith(rows, e.index) \cup {p}
      /\ KeysWith(rows, e.index) \subseteq Indexes
  BY OtherKeysStay, KeysAreIndexes
<1>2. e.parent \in Int /\ p \in Int /\ Indexes \subseteq Int /\ e.parent <= p
  BY EntryTypes, IndexAssumption DEF Indexes
<1> HIDE DEF new
<1>3. CASE e.parent = Lowest(rows, e.index)
  <2>1. KeysWith(rows, e.index) # {}
    BY <1>1, <1>3, LowestParent
  <2>2. e.parent \in KeysWith(rows, e.index)
        /\ \A q \in KeysWith(rows, e.index) : e.parent \in 1..q
    BY <1>1, <1>3, <2>1, LowestParent
  <2>3. e.parent \in KeysWith(new, e.index) /\ \A q \in KeysWith(new, e.index) : e.parent <= q
    BY <1>1, <1>2, <2>2
  <2>4. Lowest(new, e.index) = e.parent
    BY <1>1, <2>3, LowestIs
  <2> QED BY <2>4 DEF LowestOf, new
<1>4. CASE e.parent = e.given /\ e.given # 0 /\ \A q \in KeysWith(rows, e.index) : e.given < q
  <2>1. CASE e.parent = p
    <3>0. ASSUME NEW q \in KeysWith(rows, e.index) PROVE p <= q
      <4>1. p < q /\ q \in Int
        BY <1>1, <1>2, <1>4, <2>1
      <4> QED BY <1>2, <4>1
    <3>1. p \in KeysWith(new, e.index) /\ \A q \in KeysWith(new, e.index) : p <= q
      BY <1>1, <1>2, <3>0
    <3>2. Lowest(new, e.index) = p
      BY <1>1, <3>1, LowestIs
    <3> QED BY <2>1, <3>2 DEF LowestOf, new
  <2>2. CASE e.parent # p
    <3>1. \A q \in KeysWith(new, e.index) : e.given < q
      BY <1>1, <1>2, <1>4, <2>2
    <3> QED BY <1>4, <3>1 DEF LowestOf, new
  <2> QED BY <2>1, <2>2
<1> QED BY <1>3, <1>4 DEF LowestOf

\* ... and gets the new one, the lowest of all, if it has none or a higher one.
LEMMA NewParentIsLowest ==
    ASSUME NEW rows, AreRows(rows, Indexes, Indexes), NEW p \in Indexes,
           NEW e \in PhysEntries, LowestOf(e, rows), e.parent = 0 \/ e.parent > p
    PROVE  Lowest(WithPair(rows, p, e.index), e.index) = p
<1> DEFINE new == WithPair(rows, p, e.index)
<1>1. /\ KeysWith(new, e.index) = KeysWith(rows, e.index) \cup {p}
      /\ KeysWith(rows, e.index) \subseteq Indexes
  BY OtherKeysStay, KeysAreIndexes
<1>2. e.parent \in Int /\ p \in Int /\ Indexes \subseteq Int
  BY EntryTypes, IndexAssumption DEF Indexes
<1> HIDE DEF new
<1>3. ASSUME NEW q \in KeysWith(rows, e.index) PROVE p <= q
  <2>1. q \in Int /\ q # 0 /\ q > 0
    BY <1>1, IndexAssumption DEF Indexes
  <2>2. e.parent # 0 /\ e.parent <= q
    <3>1. CASE e.parent = Lowest(rows, e.index)
      <4>1. e.parent \in 1..q
        BY <1>1, <3>1, LowestParent
      <4> QED BY <1>2, <2>1, <4>1
    <3>2. CASE e.parent = e.given /\ e.given # 0 /\ \A x \in KeysWith(rows, e.index) : e.given < x
      <4>1. e.parent < q /\ e.parent # 0
        BY <3>2
      <4> QED BY <1>2, <2>1, <4>1
    <3> QED BY <3>1, <3>2 DEF LowestOf
  <2> QED BY <1>2, <2>1, <2>2
<1>4. p \in KeysWith(new, e.index) /\ \A q \in KeysWith(new, e.index) : p <= q
  BY <1>1, <1>2, <1>3
<1> QED BY <1>1, <1>4, LowestIs DEF new

\* addPhysicalContainsTableEntry: the new parent is the child's parent if it has none
\* or a higher one.
LEMMA AddContainsKeeps ==
    ASSUME TableInv, NEW p \in Indexes, NEW c \in Indexes, addPhysicalContainsTableEntry(p, c)
    PROVE  TableInv'
<1>1. Types /\ MAX_ENTITY_INDEX \in Nat /\ p \in 1..MAX_ENTITY_INDEX
  BY IndexAssumption DEF TableInv, Indexes
<1>2. p \in Live(physical) /\ c \in Live(physical)
  BY DEF addPhysicalContainsTableEntry
<1>3. UNCHANGED <<physTail, logical, logTail, lp, alias>>
  BY DEF addPhysicalContainsTableEntry
<1>4. CASE Undefined /\ UNCHANGED <<contains, physical>>
  BY <1>1, <1>3, <1>4 DEF TableInv, Types, Undefined
<1>6. CASE contains' = RowLost(contains, p) /\ Row(contains, p) # {} /\ Undefined
           /\ UNCHANGED physical
  <2>1. p \in DOMAIN contains
    BY <1>6 DEF Row, HasRow
  <2>2. AreRows(contains', Indexes, Indexes)
    BY <1>1, <1>6, <2>1 DEF Types, AreRows, RowLost
  <2> QED BY <1>1, <1>3, <1>6, <2>2 DEF TableInv, Types, Undefined
<1>5. CASE /\ contains' = WithPair(contains, p, c)
           /\ physical' = [i \in DOMAIN physical |->
                             IF physical[i].index = c
                                /\ (physical[i].parent = 0 \/ physical[i].parent > p)
                             THEN [physical[i] EXCEPT !.parent = p] ELSE physical[i]]
           /\ UNCHANGED unhandled
  <2>1. physical \in Seq(PhysEntries) /\ DOMAIN physical = 1..Len(physical)
        /\ \A i \in 1..Len(physical) : physical[i] \in PhysEntries
    BY <1>1, LenProperties, ElementOfSeq DEF Types
  <2>2. /\ AreRows(contains', Indexes, Indexes)
        /\ DOMAIN contains' = DOMAIN contains \cup {p}
        /\ \A x \in DOMAIN contains \cup {p} :
              contains'[x] \subseteq Row(contains, x) \cup (IF x = p THEN {c} ELSE {})
    BY <1>1, <1>5, PairAdded DEF Types
  <2>3. ASSUME NEW i \in 1..Len(physical)
        PROVE  /\ physical'[i] \in PhysEntries
               /\ physical'[i].index = physical[i].index
               /\ physical'[i].class = physical[i].class
               /\ \/ /\ physical'[i] = physical[i]
                     /\ physical[i].index = c => ~(physical[i].parent = 0 \/ physical[i].parent > p)
                  \/ physical[i].index = c /\ physical'[i].parent = p
                     /\ (physical[i].parent = 0 \/ physical[i].parent > p)
    <3>1. PICK e \in PhysEntries : e = physical[i]
      BY <2>1
    <3>2. CASE e.index = c /\ (e.parent = 0 \/ e.parent > p)
      <4>1. physical'[i] = [e EXCEPT !.parent = p] /\ p \in 0..MAX_ENTITY_INDEX
        BY <1>1, <1>5, <2>1, <3>1, <3>2
      <4> QED BY <3>1, <3>2, <4>1, EntryTypes
    <3>3. CASE ~(e.index = c /\ (e.parent = 0 \/ e.parent > p))
      <4>1. physical'[i] = e
        BY <1>5, <2>1, <3>1, <3>3
      <4> QED BY <3>1, <3>3, <4>1
    <3> QED BY <3>2, <3>3
  <2>4. SameEntries(physical', physical)
    <3>1. physical' \in Seq(PhysEntries) /\ Len(physical') = Len(physical)
      <4>1. DOMAIN physical' = DOMAIN physical /\ physical' = [i \in DOMAIN physical' |-> physical'[i]]
        BY <1>5
      <4> QED BY <2>1, <2>3, <4>1, ListOfEntries
    <3> QED BY <2>3, <3>1 DEF SameEntries
  <2>5. Types'
    BY <1>1, <1>3, <1>5, <2>2, <2>4 DEF Types, SameEntries
  <2>6. ASSUME ~unhandled'
        PROVE  Lists' /\ Rows'
    <3>1. Lists /\ Rows
      BY <1>5, <2>6 DEF TableInv
    <3>2. Live(physical') = Live(physical) /\ DOMAIN physical' = 1..Len(physical)
      BY <2>1, <2>4, SameEntriesKeep
    <3>3. Lists'
      BY <1>3, <2>1, <2>4, <3>1, SameEntriesKeep DEF Lists
    <3>4. ContainsNames'
      <4> SUFFICES ASSUME NEW x \in DOMAIN contains \cup {p}
                   PROVE  {x} \cup contains'[x] \subseteq Live(physical)
        BY <2>2, <3>2 DEF ContainsNames
      <4>1. x \in Live(physical)
        BY <1>2, <3>1 DEF Rows, ContainsNames
      <4>2. Row(contains, x) \subseteq Live(physical)
        BY <3>1 DEF Rows, ContainsNames, Row, HasRow
      <4> QED BY <1>2, <2>2, <4>1, <4>2
    <3>5. LpNames' /\ AliasNames'
      BY <1>3, <3>1, <3>2 DEF Rows, LpNames, AliasNames
    <3>6. AllPorts(physical, alias)'
      <4>1. Fewer(alias', alias)
        BY <1>3, DeletionsAreFewer
      <4> QED BY <2>1, <2>4, <3>1, <4>1, SameEntriesKeep DEF Rows
    <3>7. AllLowest(physical, contains)'
      <4> SUFFICES ASSUME NEW i \in 1..Len(physical)
                   PROVE  LowestOf(physical'[i], contains')
        BY <3>2 DEF AllLowest, LowestAt
      <4>1. PICK e \in PhysEntries : e = physical[i]
        BY <2>1
      <4>2. LowestOf(e, contains)
        BY <2>1, <3>1, <4>1 DEF Rows, AllLowest, LowestAt
      <4>3. e.parent \in Int /\ AreRows(contains, Indexes, Indexes)
        BY <1>1, IndexAssumption, EntryTypes DEF Types
      <4>4. CASE e.index # c
        <5>1. KeysWith(contains', e.index) = KeysWith(contains, e.index)
          BY <1>5, <4>4, OtherKeysStay
        <5>2. physical'[i] = e
          BY <2>3, <4>1, <4>4
        <5> QED BY <4>2, <5>1, <5>2 DEF LowestOf, Lowest
      <4>5. CASE e.index = c
        <5>1. CASE physical'[i] = e /\ ~(e.parent = 0 \/ e.parent > p)
          BY <1>5, <4>2, <4>3, <4>5, <5>1, KeptParentIsLowest
        <5>2. CASE physical'[i].parent = p /\ (e.parent = 0 \/ e.parent > p)
          <6>1. Lowest(contains', c) = p
            BY <1>5, <4>2, <4>3, <4>5, <5>2, NewParentIsLowest
          <6> QED BY <2>3, <4>1, <4>5, <5>2, <6>1 DEF LowestOf
        <5> QED BY <2>3, <4>1, <4>5, <5>1, <5>2
      <4> QED BY <4>4, <4>5
    <3> QED BY <3>3, <3>4, <3>5, <3>6, <3>7 DEF Rows
  <2> QED BY <2>5, <2>6 DEF TableInv
<1> QED BY <1>4, <1>5, <1>6 DEF addPhysicalContainsTableEntry

\* addLPMappingTableEntry adds a pair of live entities.
LEMMA AddLPKeeps ==
    ASSUME TableInv, NEW l \in Indexes, NEW p \in Indexes, addLPMappingTableEntry(l, p)
    PROVE  TableInv'
<1>1. Types
  BY DEF TableInv
<1>2. /\ l \in Live(logical) /\ p \in Live(physical) /\ lp' = WithPair(lp, l, p)
      /\ UNCHANGED unhandled
      /\ UNCHANGED <<physical, physTail, logical, logTail, contains, alias>>
  BY DEF addLPMappingTableEntry
<1>3. /\ AreRows(lp', Indexes, Indexes)
      /\ DOMAIN lp' = DOMAIN lp \cup {l}
      /\ \A x \in DOMAIN lp \cup {l} : lp'[x] \subseteq Row(lp, x) \cup (IF x = l THEN {p} ELSE {})
  BY <1>1, <1>2, PairAdded DEF Types
<1>4. Types'
  BY <1>1, <1>2, <1>3 DEF Types
<1>5. ASSUME ~unhandled'
      PROVE  Lists' /\ Rows'
  <2>1. Lists /\ Rows
    BY <1>2, <1>5 DEF TableInv
  <2>2. LpNames'
    <3> SUFFICES ASSUME NEW x \in DOMAIN lp \cup {l}
                 PROVE  x \in Live(logical) /\ lp'[x] \subseteq Live(physical)
      BY <1>2, <1>3 DEF LpNames
    <3>1. x \in Live(logical)
      BY <1>2, <2>1 DEF Rows, LpNames
    <3>2. Row(lp, x) \subseteq Live(physical)
      BY <2>1 DEF Rows, LpNames, Row, HasRow
    <3> QED BY <1>2, <1>3, <3>1, <3>2
  <2> QED BY <1>2, <2>1, <2>2 DEF Lists, Rows, ContainsNames, AliasNames
<1> QED BY <1>4, <1>5 DEF TableInv

\* Two entries of a list in order have different indexes.
LEMMA OrderedIsUnique ==
    ASSUME NEW S, NEW tab \in Seq(S), Ordered(tab), Limited(tab),
           NEW i \in DOMAIN tab, NEW j \in DOMAIN tab, Abs(tab[i].index) = Abs(tab[j].index)
    PROVE  i = j
<1>1. DOMAIN tab = 1..Len(tab) /\ Len(tab) \in Nat
  BY LenProperties
<1>2. Abs(tab[i].index) \in Int /\ i \in Int /\ j \in Int
  BY <1>1, IndexAssumption DEF Limited, Indexes
<1>3. ~(i < j) /\ ~(j < i)
  BY <1>2 DEF Ordered
<1> QED BY <1>2, <1>3

\* The search for a live entity finds the entry at its position.
LEMMA EntryAt ==
    ASSUME NEW S, NEW tab \in Seq(S), Ordered(tab), Limited(tab), NEW n \in Live(tab)
    PROVE  \E i \in DOMAIN tab : tab[i].index = n /\ Entry(tab, n) = tab[i]
<1>1. \E i \in DOMAIN tab : tab[i].index = n
  BY LiveByPosition
<1>2. \E e \in ToSet(tab) : e.index = n
  BY <1>1 DEF ToSet
<1>3. Entry(tab, n) \in ToSet(tab) /\ Entry(tab, n).index = n
  BY <1>2 DEF Entry
<1> QED BY <1>3 DEF ToSet

\* addAliasMappingTableEntry adds a pair of a live port and a live logical entity, or 0.
LEMMA AddAliasKeeps ==
    ASSUME TableInv, NEW p \in Indexes, NEW l \in {0} \cup Indexes, addAliasMappingTableEntry(p, l)
    PROVE  TableInv'
<1>1. Types
  BY DEF TableInv
<1>2. /\ p \in Live(physical) /\ Entry(physical, p).class = "port"
      /\ l \in {0} \cup Live(logical) /\ alias' = WithPair(alias, p, l)
      /\ UNCHANGED unhandled
      /\ UNCHANGED <<physical, physTail, logical, logTail, contains, lp>>
  BY DEF addAliasMappingTableEntry
<1>3. l \in 0..MAX_ENTITY_INDEX
  BY IndexAssumption DEF Indexes
<1>4. /\ AreRows(alias', Indexes, 0..MAX_ENTITY_INDEX)
      /\ DOMAIN alias' = DOMAIN alias \cup {p}
      /\ \A x \in DOMAIN alias \cup {p} :
            alias'[x] \subseteq Row(alias, x) \cup (IF x = p THEN {l} ELSE {})
  <2>1. PICK V : V = 0..MAX_ENTITY_INDEX
    OBVIOUS
  <2>2. AreRows(alias, Indexes, V) /\ l \in V
    BY <1>1, <1>3, <2>1 DEF Types
  <2>3. /\ AreRows(WithPair(alias, p, l), Indexes, V)
        /\ DOMAIN WithPair(alias, p, l) = DOMAIN alias \cup {p}
        /\ \A x \in DOMAIN alias \cup {p} :
              WithPair(alias, p, l)[x] \subseteq Row(alias, x) \cup (IF x = p THEN {l} ELSE {})
    BY <2>2, PairAdded
  <2> QED BY <1>2, <2>1, <2>3
<1>5. Types'
  BY <1>1, <1>2, <1>4 DEF Types
<1>6. ASSUME ~unhandled'
      PROVE  Lists' /\ Rows'
  <2>1. Lists /\ Rows
    BY <1>2, <1>6 DEF TableInv
  <2>2. AliasNames'
    <3> SUFFICES ASSUME NEW x \in DOMAIN alias \cup {p}
                 PROVE  x \in Live(physical) /\ alias'[x] \subseteq {0} \cup Live(logical)
      BY <1>2, <1>4 DEF AliasNames
    <3>1. x \in Live(physical)
      BY <1>2, <2>1 DEF Rows, AliasNames
    <3>2. Row(alias, x) \subseteq {0} \cup Live(logical)
      BY <2>1 DEF Rows, AliasNames, Row, HasRow
    <3> QED BY <1>2, <1>4, <3>1, <3>2
  <2>3. AllPorts(physical, alias)'
    <3>1. physical \in Seq(PhysEntries) /\ Ordered(physical) /\ Limited(physical)
      BY <1>1, <2>1 DEF Types, Lists
    <3>2. PICK i \in DOMAIN physical : physical[i].index = p /\ Entry(physical, p) = physical[i]
      BY <1>2, <3>1, EntryAt
    <3> SUFFICES ASSUME NEW j \in DOMAIN physical, physical[j].index \in DOMAIN alias \cup {p}
                 PROVE  physical[j].class = "port"
      BY <1>2, <1>4 DEF AllPorts, PortAt
    <3>3. CASE physical[j].index \in DOMAIN alias
      BY <2>1, <3>3 DEF Rows, AllPorts, PortAt
    <3>4. CASE physical[j].index = p
      <4>1. i = j
        BY <3>1, <3>2, <3>4, OrderedIsUnique
      <4> QED BY <1>2, <3>2, <4>1
    <3> QED BY <3>3, <3>4
  <2> QED BY <1>2, <2>1, <2>2, <2>3 DEF Lists, Rows, ContainsNames, LpNames
<1> QED BY <1>5, <1>6 DEF TableInv

(***************************************************************************)
(* The calls: entities come and go                                         *)
(***************************************************************************)
\* A list with the entries of another and one more.
OneMore(new, tab, e) ==
    /\ \A i \in DOMAIN new : new[i] = e \/ \E j \in DOMAIN tab : new[i] = tab[j]
    /\ \A j \in DOMAIN tab : \E i \in DOMAIN new : new[i] = tab[j]

\* The entries of a list after an insertion: those there were, and the new one.
LEMMA Added ==
    ASSUME NEW S, NEW tab \in Seq(S), NEW k \in 0..Len(tab), NEW e \in S
    PROVE  InsertAt(tab, k + 1, e) \in Seq(S) /\ OneMore(InsertAt(tab, k + 1, e), tab, e)
<1> DEFINE new == InsertAt(tab, k + 1, e)
<1>1. Len(tab) \in Nat /\ DOMAIN tab = 1..Len(tab) /\ k \in Int
  BY LenProperties
<1>2. new \in Seq(S) /\ HasAfter(new, tab, k, e)
  BY Inserted
<1> HIDE DEF new
<1>3. /\ new \in Seq(S) /\ Len(new) = Len(tab) + 1
      /\ \A i \in 1..(Len(tab) + 1) :
            new[i] = IF i <= k THEN tab[i] ELSE IF i = k + 1 THEN e ELSE tab[i - 1]
  BY <1>2 DEF HasAfter
<1>4. DOMAIN new = 1..(Len(tab) + 1)
  BY <1>3, LenProperties
<1>5. ASSUME NEW i \in 1..(Len(tab) + 1)
      PROVE  new[i] = e \/ \E j \in 1..Len(tab) : new[i] = tab[j]
  <2>1. CASE i <= k
    <3>1. i \in 1..Len(tab) /\ new[i] = tab[i]
      BY <1>1, <1>3, <2>1
    <3> QED BY <3>1
  <2>2. CASE i = k + 1
    BY <1>1, <1>3, <2>2
  <2>3. CASE k + 1 < i
    <3>1. i - 1 \in 1..Len(tab) /\ new[i] = tab[i - 1]
      BY <1>1, <1>3, <2>3
    <3> QED BY <3>1
  <2> QED BY <1>1, <2>1, <2>2, <2>3
<1>6. ASSUME NEW j \in 1..Len(tab)
      PROVE  \E i \in 1..(Len(tab) + 1) : new[i] = tab[j]
  <2>1. CASE j <= k
    <3>1. j \in 1..(Len(tab) + 1) /\ new[j] = tab[j]
      BY <1>1, <1>3, <2>1
    <3> QED BY <3>1
  <2>2. CASE k < j
    <3>1. j + 1 \in 1..(Len(tab) + 1) /\ ~(j + 1 <= k) /\ j + 1 # k + 1 /\ (j + 1) - 1 = j
      BY <1>1, <2>2
    <3>2. new[j + 1] = tab[(j + 1) - 1]
      BY <1>3, <3>1
    <3> QED BY <3>1, <3>2
  <2> QED BY <1>1, <2>1, <2>2
<1>7. OneMore(new, tab, e)
  BY <1>1, <1>4, <1>5, <1>6 DEF OneMore
<1> QED BY <1>3, <1>7 DEF new

\* The index of an entry that fits is no live entity's.
LEMMA NewIndexIsNew ==
    ASSUME NEW S, NEW tab \in Seq(S), NEW want \in 0..MAX_ENTITY_INDEX,
           \A i \in DOMAIN tab : tab[i].index \in Int,
           Limited(tab), Ordered(tab), ~(NewIndex(tab, want) < 0)
    PROVE  NewIndex(tab, want) \notin Live(tab)
<1>1. Len(tab) \in Nat /\ DOMAIN tab = 1..Len(tab) /\ want \in Int
  BY LenProperties, IndexAssumption
<1>2. PICK k \in 0..Len(tab) : k = Place(tab, want)
  BY <1>1, PlaceType
<1>3. PICK x \in Int : x = NewIndex(tab, want)
  BY <1>1, PlaceType
<1>4. /\ \A i \in 1..k : Abs(tab[i].index) < x
      /\ \A i \in (k + 1)..Len(tab) : x < Abs(tab[i].index)
      /\ x \in 1..MAX_ENTITY_INDEX
  BY <1>2, <1>3, NewIndexFits DEF Indexes
<1> SUFFICES ASSUME NEW i \in 1..Len(tab), tab[i].index = x
             PROVE  FALSE
  BY <1>1, <1>3, LiveByPosition
<1>5. Abs(tab[i].index) = x
  BY <1>3, <1>4, IndexAssumption DEF Abs
<1>6. i \in 1..k \/ i \in (k + 1)..Len(tab)
  BY <1>1, <1>2
<1> QED BY <1>3, <1>4, <1>5, <1>6

\* allocPhysicalEntry.
LEMMA AllocPhysicalKeeps ==
    ASSUME TableInv, NEW want \in PhysRequests, NEW parent \in 0..MAX_ENTITY_INDEX,
           allocPhysicalEntry(want, parent)
    PROVE  TableInv'
<1>1. Types /\ want \in 0..MAX_ENTITY_INDEX
  BY IndexAssumption DEF TableInv
<1>2. UNCHANGED <<logical, logTail, contains, lp, alias>>
  BY DEF allocPhysicalEntry
<1>3. CASE UsesFreedTail(physical, physTail, want)
  <2>1. Undefined /\ UNCHANGED <<physical, physTail>>
    BY <1>3 DEF allocPhysicalEntry
  <2> QED BY <1>1, <1>2, <2>1 DEF TableInv, Types, Undefined
<1>4. CASE ~UsesFreedTail(physical, physTail, want)
  <2>1. PICK e0 : e0 = NewEntity(want, parent)
    OBVIOUS
  <2>2. e0 \in PhysEntries /\ e0.index = want /\ e0.parent = e0.given
    <3>1. ClassOf(parent) \in {"port", "other"} /\ want \in Int
      BY <1>1, ClassAssumption, IndexAssumption
    <3> QED BY <2>1, <3>1 DEF NewEntity, PhysEntries
  <2>3. physical \in Seq(PhysEntries) /\ DOMAIN physical = 1..Len(physical)
        /\ \A i \in 1..Len(physical) : physical[i] \in PhysEntries
    BY <1>1, LenProperties, ElementOfSeq DEF Types
  <2>4. \A i \in DOMAIN physical : physical[i].index \in Int
    BY <2>3, EntryTypes
  <2>5. PICK x \in Int : x = NewIndex(physical, want)
    <3>1. want \in Int
      BY <1>1, IndexAssumption
    <3> QED BY <2>3, <2>4, <3>1, PlaceType
  <2>6. PICK e \in PhysEntries : e = [e0 EXCEPT !.index = x]
    BY <2>2, <2>5, EntryTypes
  <2>7. e.index = x /\ e.parent = e.given
    BY <2>2, <2>6, EntryTypes
  <2>8. PICK k : k = Place(physical, want)
    OBVIOUS
  <2>9. /\ physical' = InsertAt(physical, k + 1, e)
        /\ physTail' = TailAfterAdd(physical, physTail, want)
        /\ unhandled' = (unhandled \/ x < 0)
    <3>1. /\ physical' = AddTo(physical, e0)
          /\ physTail' = TailAfterAdd(physical, physTail, want)
          /\ unhandled' = (unhandled \/ x < 0)
      BY <1>4, <2>1, <2>5 DEF allocPhysicalEntry
    <3>2. AddTo(physical, e0) = InsertAt(physical, k + 1, e)
      BY <2>2, <2>5, <2>6, <2>8 DEF AddTo
    <3> QED BY <3>1, <3>2
  <2>10. /\ k \in 0..Len(physical)
         /\ physical' \in Seq(PhysEntries)
         /\ \A i \in DOMAIN physical' : physical'[i] = e \/ \E j \in DOMAIN physical : physical'[i] = physical[j]
         /\ \A j \in DOMAIN physical : \E i \in DOMAIN physical' : physical'[i] = physical[j]
    <3>1. k \in 0..Len(physical)
      <4>1. want \in Int
        BY <1>1, IndexAssumption
      <4> QED BY <2>3, <2>4, <2>8, <4>1, PlaceType
    <3>2. InsertAt(physical, k + 1, e) \in Seq(PhysEntries)
          /\ OneMore(InsertAt(physical, k + 1, e), physical, e)
      BY <2>3, <2>6, <3>1, Added
    <3> QED BY <2>9, <3>1, <3>2 DEF OneMore
  <2>11. Types'
    BY <1>1, <1>2, <2>9, <2>10 DEF Types
  <2>12. ASSUME ~unhandled'
         PROVE  Lists' /\ Rows'
    <3>1. ~(x < 0) /\ Lists /\ Rows
      BY <2>9, <2>12 DEF TableInv
    <3>2. Lists'
      <4>1. Limited(physical) /\ Ordered(physical) /\ TailIsLast(physical, physTail)
        BY <3>1 DEF Lists
      <4>2. Limited(physical') /\ Ordered(physical') /\ TailIsLast(physical', physTail')
        BY <1>1, <2>3, <2>4, <2>5, <2>7, <2>8, <2>9, <2>10, <3>1, <4>1, AddKeepsOrder
      <4> QED BY <1>2, <3>1, <4>2 DEF Lists
    <3>3. x \notin Live(physical)
      BY <1>1, <2>3, <2>4, <2>5, <3>1, NewIndexIsNew DEF Lists
    <3>4. Live(physical) \subseteq Live(physical')
      <4> SUFFICES ASSUME NEW n \in Live(physical)
                   PROVE  n \in Live(physical')
        OBVIOUS
      <4>1. n > 0 /\ \E i \in DOMAIN physical : physical[i].index = n
        BY LiveByPosition
      <4>2. \E i \in DOMAIN physical' : physical'[i].index = n
        BY <2>10, <4>1
      <4> QED BY <4>1, <4>2, LiveByPosition
    <3>5. ContainsNames' /\ LpNames' /\ AliasNames'
      BY <1>2, <3>1, <3>4 DEF Rows, ContainsNames, LpNames, AliasNames
    <3>6. x \notin DOMAIN alias /\ KeysWith(contains, x) = {}
      BY <3>1, <3>3 DEF Rows, ContainsNames, AliasNames, KeysWith
    <3>7. AllPorts(physical, alias)'
      <4> SUFFICES ASSUME NEW i \in DOMAIN physical', physical'[i].index \in DOMAIN alias
                   PROVE  physical'[i].class = "port"
        BY <1>2 DEF AllPorts, PortAt
      <4>1. physical'[i] # e
        BY <2>7, <3>6
      <4>2. PICK j \in DOMAIN physical : physical'[i] = physical[j]
        BY <2>10, <4>1
      <4> QED BY <3>1, <4>2 DEF Rows, AllPorts, PortAt
    <3>8. AllLowest(physical, contains)'
      <4> SUFFICES ASSUME NEW i \in DOMAIN physical'
                   PROVE  LowestOf(physical'[i], contains)
        BY <1>2 DEF AllLowest, LowestAt
      <4>1. LowestOf(e, contains)
        BY <2>7, <3>6 DEF LowestOf, Lowest
      <4>2. CASE \E j \in DOMAIN physical : physical'[i] = physical[j]
        BY <3>1, <4>2 DEF Rows, AllLowest, LowestAt
      <4> QED BY <2>10, <4>1, <4>2
    <3> QED BY <3>2, <3>5, <3>7, <3>8 DEF Rows
  <2> QED BY <2>11, <2>12 DEF TableInv
<1> QED BY <1>3, <1>4

\* A list with the entries of another but the one at r.
OneLess(new, tab, r) ==
    /\ \A i \in DOMAIN new : \E j \in DOMAIN tab : new[i] = tab[j]
    /\ \A j \in DOMAIN tab : j # r => \E i \in DOMAIN new : new[i] = tab[j]

\* The entries of a list after a removal.
LEMMA RemovedEntries ==
    ASSUME NEW S, NEW tab \in Seq(S), NEW r \in 1..Len(tab)
    PROVE  RemoveAt(tab, r) \in Seq(S) /\ OneLess(RemoveAt(tab, r), tab, r)
<1> DEFINE new == RemoveAt(tab, r)
<1>1. Len(tab) \in Nat /\ DOMAIN tab = 1..Len(tab) /\ r \in Int
  BY LenProperties
<1>2. /\ new \in Seq(S) /\ Len(new) = Len(tab) - 1
      /\ \A i \in 1..(Len(tab) - 1) : new[i] = IF i < r THEN tab[i] ELSE tab[i + 1]
  BY Removed
<1> HIDE DEF new
<1>3. DOMAIN new = 1..(Len(tab) - 1)
  BY <1>2, LenProperties
<1>4. ASSUME NEW i \in 1..(Len(tab) - 1)
      PROVE  \E j \in 1..Len(tab) : new[i] = tab[j]
  <2>1. i \in 1..Len(tab) /\ i + 1 \in 1..Len(tab)
    BY <1>1
  <2>2. new[i] = tab[i] \/ new[i] = tab[i + 1]
    BY <1>2
  <2> QED BY <2>1, <2>2
<1>5. ASSUME NEW j \in 1..Len(tab), j # r
      PROVE  \E i \in 1..(Len(tab) - 1) : new[i] = tab[j]
  <2>1. CASE j < r
    <3>1. j \in 1..(Len(tab) - 1)
      BY <1>1, <2>1
    <3> QED BY <1>2, <2>1, <3>1
  <2>2. CASE r < j
    <3>1. j - 1 \in 1..(Len(tab) - 1) /\ ~(j - 1 < r) /\ (j - 1) + 1 = j
      BY <1>1, <2>2
    <3>2. new[j - 1] = tab[(j - 1) + 1]
      BY <1>2, <3>1
    <3> QED BY <3>1, <3>2
  <2> QED BY <1>1, <1>5, <2>1, <2>2
<1>6. OneLess(new, tab, r)
  BY <1>1, <1>3, <1>4, <1>5 DEF OneLess
<1> QED BY <1>2, <1>6 DEF new

\* The entry that is unlinked is one with the index.
LEMMA WithoutRemoves ==
    ASSUME NEW S, NEW tab \in Seq(S), NEW n, \E i \in DOMAIN tab : tab[i].index = n
    PROVE  \E r \in 1..Len(tab) : tab[r].index = n /\ Without(tab, n) = RemoveAt(tab, r)
<1> DEFINE T == {i \in 1..Len(tab) : tab[i].index = n}
<1>1. Len(tab) \in Nat /\ DOMAIN tab = 1..Len(tab)
  BY LenProperties
<1>2. T \subseteq Nat /\ T # {}
  BY <1>1
<1>3. PICK m \in T : \A x \in T : m <= x
  <2> HIDE DEF T
  <2> QED BY <1>2, LeastElement
<1>4. m \in 1..Len(tab) /\ tab[m].index = n /\ \A x \in 1..Len(tab) : tab[x].index = n => m <= x
  BY <1>3
<1> HIDE DEF T
<1>5. \A j \in 1..(m - 1) : tab[j].index # n
  <2> SUFFICES ASSUME NEW j \in 1..(m - 1)
               PROVE  tab[j].index # n
    OBVIOUS
  <2>1. j \in 1..Len(tab) /\ ~(m <= j)
    BY <1>1, <1>4
  <2> QED BY <1>4, <2>1
<1>6. \E i \in DOMAIN tab : tab[i].index = n /\ \A j \in 1..(i - 1) : tab[j].index # n
  BY <1>1, <1>4, <1>5
<1>7. PICK r : r = CHOOSE i \in DOMAIN tab : /\ tab[i].index = n
                                             /\ \A j \in 1..(i - 1) : tab[j].index # n
  OBVIOUS
<1>8. r \in DOMAIN tab /\ tab[r].index = n
  BY <1>6, <1>7
<1>9. Without(tab, n) = RemoveAt(tab, r)
  BY <1>7 DEF Without
<1> QED BY <1>1, <1>8, <1>9

\* A list in which the entries with one index have another.
Flipped(new, tab, from, to) ==
    /\ DOMAIN new = DOMAIN tab
    /\ \A i \in DOMAIN tab : IF tab[i].index = from
                             THEN new[i] = [tab[i] EXCEPT !.index = to] /\ new[i].index = to
                             ELSE new[i] = tab[i]
    /\ \A tail : Limited(tab) /\ Ordered(tab) /\ TailIsLast(tab, tail)
                 => Limited(new) /\ Ordered(new) /\ TailIsLast(new, tail)

\* An index that changes its sign.
LEMMA ReindexKeeps ==
    ASSUME NEW S, NEW tab \in Seq(S), NEW from \in Int, NEW to \in Int, Abs(from) = Abs(to),
           \A e \in S : [e EXCEPT !.index = to] \in S /\ [e EXCEPT !.index = to].index = to
    PROVE  Reindexed(tab, from, to) \in Seq(S)
           /\ Flipped(Reindexed(tab, from, to), tab, from, to)
<1> DEFINE new == Reindexed(tab, from, to)
<1>1. DOMAIN tab = 1..Len(tab) /\ \A i \in 1..Len(tab) : tab[i] \in S
  BY LenProperties, ElementOfSeq
<1>2. DOMAIN new = DOMAIN tab /\ new = [i \in DOMAIN new |-> new[i]]
  BY DEF Reindexed
<1>3. \A i \in DOMAIN tab : new[i] = IF tab[i].index = from THEN [tab[i] EXCEPT !.index = to] ELSE tab[i]
  BY DEF Reindexed
<1> HIDE DEF new
<1>4. ASSUME NEW i \in 1..Len(tab)
      PROVE  /\ new[i] \in S /\ Abs(new[i].index) = Abs(tab[i].index)
             /\ tab[i].index = from => new[i] = [tab[i] EXCEPT !.index = to] /\ new[i].index = to
             /\ tab[i].index # from => new[i] = tab[i]
  <2>1. PICK e \in S : e = tab[i]
    BY <1>1
  <2>2. CASE e.index = from
    <3>1. new[i] = [e EXCEPT !.index = to]
      BY <1>1, <1>3, <2>1, <2>2
    <3> QED BY <2>1, <2>2, <3>1
  <2>3. CASE e.index # from
    <3>1. new[i] = e
      BY <1>1, <1>3, <2>1, <2>3
    <3> QED BY <2>1, <2>3, <3>1
  <2> QED BY <2>2, <2>3
<1>5. new \in Seq(S) /\ Len(new) = Len(tab)
  BY <1>1, <1>2, <1>4, ListOfEntries
<1>6. ASSUME NEW tail, Limited(tab), Ordered(tab), TailIsLast(tab, tail)
      PROVE  Limited(new) /\ Ordered(new) /\ TailIsLast(new, tail)
  BY <1>4, <1>5, <1>6, SameIndexes
<1>7. Flipped(new, tab, from, to)
  BY <1>1, <1>2, <1>4, <1>6 DEF Flipped
<1> QED BY <1>5, <1>7 DEF new

\* A new index that has no parents, for one that has none, leaves the lowest parents.
LEMMA FlippedStaysLowest ==
    ASSUME NEW tab \in Seq(PhysEntries), NEW new, NEW rows, NEW from, NEW to \in Int,
           Flipped(new, tab, from, to), AllLowest(tab, rows),
           KeysWith(rows, from) = {}, KeysWith(rows, to) = {}
    PROVE  AllLowest(new, rows)
<1> SUFFICES ASSUME NEW i \in DOMAIN tab PROVE LowestOf(new[i], rows)
  BY DEF AllLowest, LowestAt, Flipped
<1>1. PICK e \in PhysEntries : e = tab[i]
  BY LenProperties, ElementOfSeq
<1>2. LowestOf(e, rows)
  BY <1>1 DEF AllLowest, LowestAt
<1>3. CASE e.index = from
  <2>1. new[i] = [e EXCEPT !.index = to]
    BY <1>1, <1>3 DEF Flipped
  <2>2. new[i].index = to /\ new[i].parent = e.parent /\ new[i].given = e.given
    BY <2>1, EntryTypes
  <2>3. Lowest(rows, from) = 0 /\ Lowest(rows, to) = 0
    BY DEF Lowest
  <2>4. e.parent = 0 \/ (e.parent = e.given /\ e.given # 0)
    BY <1>2, <1>3, <2>3 DEF LowestOf
  <2> QED BY <2>2, <2>3, <2>4 DEF LowestOf
<1>4. CASE e.index # from
  BY <1>1, <1>2, <1>4 DEF Flipped
<1> QED BY <1>3, <1>4

\* DropPhysicalRows: no row names the entity any more, and none names a new one.
LEMMA DropPhysical ==
    ASSUME NEW n, DropPhysicalRows(n)
    PROVE  /\ Fewer(alias', alias) /\ Fewer(lp', lp) /\ Fewer(contains', contains)
           /\ n \notin DOMAIN alias' /\ n \notin DOMAIN contains'
           /\ \A x \in DOMAIN lp' : n \notin lp'[x]
           /\ \A x \in DOMAIN contains' : n \notin contains'[x]
<1>1. Fewer(alias', alias) /\ n \notin DOMAIN alias'
  BY DeletionsAreFewer DEF DropPhysicalRows
<1>2. Fewer(lp', lp) /\ \A x \in DOMAIN lp' : n \notin lp'[x]
  BY DeletionsAreFewer DEF DropPhysicalRows
<1>3. PICK rows : rows = WithoutRow(contains, n)
  OBVIOUS
<1>4. Fewer(rows, contains) /\ n \notin DOMAIN rows
  BY <1>3, DeletionsAreFewer
<1>5. contains' = WithoutValue(rows, n)
  BY <1>3 DEF DropPhysicalRows
<1>6. Fewer(contains', rows) /\ \A x \in DOMAIN contains' : n \notin contains'[x]
  BY <1>5, DeletionsAreFewer
<1>7. Fewer(contains', contains)
  BY <1>4, <1>6, FewerTransitive
<1>8. n \notin DOMAIN contains'
  BY <1>4, <1>6 DEF Fewer
<1> QED BY <1>1, <1>2, <1>6, <1>7, <1>8

\* Uncontained: the entries keep their index and class, and those that are left in the
\* contains table are inside their lowest parent.
LEMMA UncontainedKeeps ==
    ASSUME physical \in Seq(PhysEntries), AreRows(contains, Indexes, Indexes), NEW n,
           DropPhysicalRows(n)
    PROVE  /\ SameEntries(Uncontained(n), physical)
           /\ AllLowest(physical, contains) => AllLowest(Uncontained(n), contains')
<1>1. PICK rows : rows = WithoutRow(contains, n)
  OBVIOUS
<1>2. PICK t : t = AfterDeleteParent(physical, contains, n)
  OBVIOUS
<1>3. SameEntries(t, physical) /\ (AllLowest(physical, contains) => AllLowest(t, rows))
  BY <1>1, <1>2, DeleteParentKeeps
<1>4. t \in Seq(PhysEntries) /\ AreRows(rows, Indexes, Indexes)
  BY <1>1, <1>3, DeletionsAreFewer, FewerKeeps DEF SameEntries
<1>5. PICK u : u = AfterDeleteChild(t, rows, n)
  OBVIOUS
<1>6. SameEntries(u, t) /\ (AllLowest(t, rows) => AllLowest(u, WithoutValue(rows, n)))
  BY <1>4, <1>5, DeleteChildKeeps
<1>7. u = Uncontained(n) /\ contains' = WithoutValue(rows, n)
  BY <1>1, <1>2, <1>5 DEF Uncontained, DropPhysicalRows
<1>8. SameEntries(u, physical)
  BY <1>3, <1>6 DEF SameEntries
<1> QED BY <1>3, <1>6, <1>7, <1>8

\* Once no row names n, the rows are right when the other entities are still live.
LEMMA NamesWithout ==
    ASSUME NEW n, DropPhysicalRows(n), ContainsNames, LpNames, AliasNames,
           UNCHANGED logical, Live(physical) \ {n} \subseteq Live(physical')
    PROVE  ContainsNames' /\ LpNames' /\ AliasNames'
<1>1. /\ Fewer(alias', alias) /\ Fewer(lp', lp) /\ Fewer(contains', contains)
      /\ n \notin DOMAIN alias' /\ n \notin DOMAIN contains'
      /\ \A x \in DOMAIN lp' : n \notin lp'[x]
      /\ \A x \in DOMAIN contains' : n \notin contains'[x]
  BY DropPhysical
<1>2. ContainsNames'
  BY <1>1 DEF ContainsNames, Fewer
<1>3. LpNames'
  BY <1>1 DEF LpNames, Fewer
<1>4. AliasNames'
  BY <1>1 DEF AliasNames, Fewer
<1> QED BY <1>2, <1>3, <1>4

\* deletePhysicalTableEntry.
LEMMA DeletePhysicalKeeps ==
    ASSUME TableInv, NEW n \in Indexes, deletePhysicalTableEntry(n)
    PROVE  TableInv'
<1>1. Types /\ n \in Nat \ {0}
  BY IndexAssumption DEF TableInv, Indexes
<1>2. /\ n \in Live(physical) /\ DropPhysicalRows(n)
      /\ UNCHANGED unhandled
      /\ physical' = Without(Uncontained(n), n) /\ physTail' = TailAfterDelete(physTail, n)
      /\ UNCHANGED <<logical, logTail>>
  BY DEF deletePhysicalTableEntry
<1>3. physical \in Seq(PhysEntries) /\ AreRows(contains, Indexes, Indexes)
  BY <1>1 DEF Types
<1>4. PICK u : u = Uncontained(n)
  OBVIOUS
<1>5. SameEntries(u, physical) /\ (AllLowest(physical, contains) => AllLowest(u, contains'))
  BY <1>2, <1>3, <1>4, UncontainedKeeps
<1>6. u \in Seq(PhysEntries) /\ DOMAIN u = 1..Len(u) /\ Live(u) = Live(physical)
      /\ \A i \in DOMAIN u : u[i].index \in Int
  <2>1. u \in Seq(PhysEntries)
    BY <1>5 DEF SameEntries
  <2>2. DOMAIN u = 1..Len(u) /\ \A i \in 1..Len(u) : u[i] \in PhysEntries
    BY <2>1, LenProperties, ElementOfSeq
  <2> QED BY <1>3, <1>5, <2>1, <2>2, SameEntriesKeep, EntryTypes
<1>7. PICK r \in 1..Len(u) : u[r].index = n /\ physical' = RemoveAt(u, r)
  <2>1. \E i \in DOMAIN u : u[i].index = n
    BY <1>2, <1>6, LiveByPosition
  <2> QED BY <1>2, <1>4, <1>6, <2>1, WithoutRemoves
<1>8. physical' \in Seq(PhysEntries) /\ OneLess(physical', u, r)
  BY <1>6, <1>7, RemovedEntries
<1>9. Fewer(alias', alias) /\ Fewer(lp', lp) /\ Fewer(contains', contains)
  BY <1>2, DropPhysical
<1>10. Types'
  BY <1>1, <1>2, <1>8, <1>9, FewerKeeps DEF Types
<1>11. ASSUME ~unhandled'
       PROVE  Lists' /\ Rows'
  <2>1. Lists /\ Rows
    BY <1>2, <1>11 DEF TableInv
  <2>2. Lists'
    <3>1. Limited(u) /\ Ordered(u) /\ TailIsLast(u, physTail)
      BY <1>3, <1>5, <2>1, SameEntriesKeep DEF Lists
    <3>2. Limited(physical') /\ Ordered(physical') /\ TailIsLast(physical', physTail')
      BY <1>1, <1>2, <1>6, <1>7, <3>1, DeleteKeepsOrder
    <3> QED BY <1>2, <2>1, <3>2 DEF Lists
  <2>3. Live(physical) \ {n} \subseteq Live(physical')
    <3> SUFFICES ASSUME NEW m \in Live(physical), m # n
                 PROVE  m \in Live(physical')
      OBVIOUS
    <3>1. m > 0 /\ \E j \in DOMAIN u : u[j].index = m
      BY <1>6, LiveByPosition
    <3>2. \E i \in DOMAIN physical' : physical'[i].index = m
      BY <1>7, <1>8, <3>1 DEF OneLess
    <3> QED BY <3>1, <3>2, LiveByPosition
  <2>4. ContainsNames' /\ LpNames' /\ AliasNames'
    BY <1>2, <2>1, <2>3, NamesWithout DEF Rows
  <2>5. AllPorts(u, alias') /\ AllLowest(u, contains')
    BY <1>3, <1>5, <1>9, <2>1, SameEntriesKeep DEF Rows
  <2>6. AllPorts(physical, alias)'
    BY <1>8, <2>5 DEF OneLess, AllPorts, PortAt
  <2>7. AllLowest(physical, contains)'
    BY <1>8, <2>5 DEF OneLess, AllLowest, LowestAt
  <2> QED BY <2>2, <2>4, <2>6, <2>7 DEF Rows
<1> QED BY <1>10, <1>11 DEF TableInv

\* makePhysicalTableEntryStale.
LEMMA StalePhysicalKeeps ==
    ASSUME TableInv, NEW n \in Indexes, makePhysicalTableEntryStale(n)
    PROVE  TableInv'
<1>0. PICK o \in Int : o = -n
  BY IndexAssumption DEF Indexes
<1>1. Types /\ n \in Nat \ {0} /\ n \in Int /\ Abs(n) = Abs(o) /\ o \notin Indexes
  BY <1>0, IndexAssumption DEF TableInv, Indexes, Abs
<1>2. /\ n \in Live(physical) /\ DropPhysicalRows(n)
      /\ UNCHANGED unhandled
      /\ physical' = Reindexed(Uncontained(n), n, o)
      /\ UNCHANGED <<physTail, logical, logTail>>
  BY <1>0 DEF makePhysicalTableEntryStale
<1>3. physical \in Seq(PhysEntries) /\ AreRows(contains, Indexes, Indexes)
  BY <1>1 DEF Types
<1>4. PICK u : u = Uncontained(n)
  OBVIOUS
<1>5. SameEntries(u, physical) /\ (AllLowest(physical, contains) => AllLowest(u, contains'))
  BY <1>2, <1>3, <1>4, UncontainedKeeps
<1>6. u \in Seq(PhysEntries) /\ Live(u) = Live(physical)
  BY <1>3, <1>5, SameEntriesKeep DEF SameEntries
<1>7. \A e \in PhysEntries : [e EXCEPT !.index = o] \in PhysEntries
                             /\ [e EXCEPT !.index = o].index = o
  BY <1>0, EntryTypes
<1>8. physical' \in Seq(PhysEntries) /\ Flipped(physical', u, n, o)
  BY <1>0, <1>1, <1>2, <1>4, <1>6, <1>7, ReindexKeeps
<1>9. Fewer(alias', alias) /\ Fewer(lp', lp) /\ Fewer(contains', contains)
  BY <1>2, DropPhysical
<1>10. Types'
  BY <1>1, <1>2, <1>8, <1>9, FewerKeeps DEF Types
<1>11. ASSUME ~unhandled'
       PROVE  Lists' /\ Rows'
  <2>1. Lists /\ Rows
    BY <1>2, <1>11 DEF TableInv
  <2>2. Lists'
    <3>1. Limited(u) /\ Ordered(u) /\ TailIsLast(u, physTail)
      BY <1>3, <1>5, <2>1, SameEntriesKeep DEF Lists
    <3> QED BY <1>2, <1>8, <2>1, <3>1 DEF Lists, Flipped
  <2>3. Live(physical) \ {n} \subseteq Live(physical')
    <3> SUFFICES ASSUME NEW m \in Live(physical), m # n
                 PROVE  m \in Live(physical')
      OBVIOUS
    <3>1. m > 0 /\ \E j \in DOMAIN u : u[j].index = m
      BY <1>6, LiveByPosition
    <3>2. \E i \in DOMAIN physical' : physical'[i].index = m
      BY <1>8, <3>1 DEF Flipped
    <3> QED BY <3>1, <3>2, LiveByPosition
  <2>4. ContainsNames' /\ LpNames' /\ AliasNames'
    BY <1>2, <2>1, <2>3, NamesWithout DEF Rows
  <2>5. AllPorts(u, alias') /\ AllLowest(u, contains')
    BY <1>3, <1>5, <1>9, <2>1, SameEntriesKeep DEF Rows
  <2>6. o \notin DOMAIN alias' /\ KeysWith(contains', o) = {}
    BY <1>1, <1>10 DEF Types, AreRows, KeysWith
  <2>7. AllPorts(physical, alias)'
    BY <1>8, <2>5, <2>6 DEF AllPorts, PortAt, Flipped
  <2>8. AllLowest(physical, contains)'
    <3>1. KeysWith(contains', n) = {}
      BY <1>2, DropPhysical DEF KeysWith
    <3> QED BY <1>6, <1>7, <1>8, <2>5, <2>6, <3>1, FlippedStaysLowest
  <2> QED BY <2>2, <2>4, <2>7, <2>8 DEF Rows
<1> QED BY <1>10, <1>11 DEF TableInv

\* No entity is live and stale at once.
LEMMA StaleIsNotLive ==
    ASSUME NEW S, NEW tab \in Seq(S), Limited(tab), Ordered(tab),
           \A i \in DOMAIN tab : tab[i].index \in Int,
           NEW n \in Nat \ {0}, -n \in IndexesOf(tab)
    PROVE  n \notin Live(tab)
<1>1. PICK i \in DOMAIN tab : tab[i].index = -n
  BY DEF IndexesOf, ToSet
<1> SUFFICES ASSUME NEW j \in DOMAIN tab, tab[j].index = n
             PROVE  FALSE
  BY LiveByPosition
<1>2. Abs(tab[i].index) = Abs(tab[j].index)
  BY <1>1 DEF Abs
<1>3. i = j
  BY <1>2, OrderedIsUnique
<1> QED BY <1>1, <1>3

\* makePhysicalTableEntryLive.
LEMMA LivePhysicalKeeps ==
    ASSUME TableInv, NEW n \in Indexes, makePhysicalTableEntryLive(n)
    PROVE  TableInv'
<1>1. Types /\ n \in Nat \ {0} /\ n \in Int /\ -n \in Int /\ Abs(-n) = Abs(n)
  BY IndexAssumption DEF TableInv, Indexes, Abs
<1>2. /\ -n \in IndexesOf(physical) /\ physical' = Reindexed(physical, -n, n)
      /\ UNCHANGED unhandled
      /\ UNCHANGED <<physTail, logical, logTail, contains, lp, alias>>
  BY DEF makePhysicalTableEntryLive
<1>3. physical \in Seq(PhysEntries)
  BY <1>1 DEF Types
<1>4. \A i \in DOMAIN physical : physical[i].index \in Int
  BY <1>3, LenProperties, ElementOfSeq, EntryTypes
<1>5. \A e \in PhysEntries : [e EXCEPT !.index = n] \in PhysEntries
                             /\ [e EXCEPT !.index = n].index = n
  BY <1>1, EntryTypes
<1>6. physical' \in Seq(PhysEntries) /\ Flipped(physical', physical, -n, n)
  BY <1>1, <1>2, <1>3, <1>5, ReindexKeeps
<1>7. Types'
  BY <1>1, <1>2, <1>6 DEF Types
<1>8. ASSUME ~unhandled'
      PROVE  Lists' /\ Rows'
  <2>1. Lists /\ Rows
    BY <1>2, <1>8 DEF TableInv
  <2>2. Lists'
    BY <1>2, <1>6, <2>1 DEF Lists, Flipped
  <2>3. Live(physical) \subseteq Live(physical')
    <3> SUFFICES ASSUME NEW m \in Live(physical)
                 PROVE  m \in Live(physical')
      OBVIOUS
    <3>1. m > 0 /\ \E j \in DOMAIN physical : physical[j].index = m
      BY LiveByPosition
    <3>2. PICK j \in DOMAIN physical : physical[j].index = m
      BY <3>1
    <3>3. m # -n
      BY <1>1, <1>4, <3>1, <3>2
    <3>4. physical'[j].index = m
      BY <1>6, <3>2, <3>3 DEF Flipped
    <3> QED BY <1>6, <3>1, <3>4, LiveByPosition DEF Flipped
  <2>4. n \notin Live(physical)
    BY <1>1, <1>2, <1>3, <1>4, <2>1, StaleIsNotLive DEF Lists
  <2>5. n \notin DOMAIN alias /\ KeysWith(contains, n) = {}
    BY <2>1, <2>4 DEF Rows, ContainsNames, AliasNames, KeysWith
  <2>6. ContainsNames' /\ LpNames' /\ AliasNames'
    BY <1>2, <2>1, <2>3 DEF Rows, ContainsNames, LpNames, AliasNames
  <2>7. AllPorts(physical, alias)'
    BY <1>2, <1>6, <2>1, <2>5 DEF Rows, AllPorts, PortAt, Flipped
  <2>8. AllLowest(physical, contains)'
    <3>1. KeysWith(contains, -n) = {}
      BY <1>1, <1>7 DEF Types, AreRows, KeysWith, Indexes
    <3>2. contains' = contains /\ AllLowest(physical, contains)
      BY <1>2, <2>1 DEF Rows
    <3> QED BY <1>1, <1>3, <1>6, <2>5, <3>1, <3>2, FlippedStaysLowest
  <2> QED BY <2>2, <2>6, <2>7, <2>8 DEF Rows
<1> QED BY <1>7, <1>8 DEF TableInv

\* The type of a logical entry.
LEMMA LogicalTypes ==
    ASSUME NEW e \in LogEntries
    PROVE  /\ e.index \in Int
           /\ \A x \in Int : [e EXCEPT !.index = x] \in LogEntries /\ [e EXCEPT !.index = x].index = x
BY DEF LogEntries

\* The indexes of the logical list are integers.
LEMMA LogicalIndexes ==
    ASSUME NEW tab \in Seq(LogEntries)
    PROVE  DOMAIN tab = 1..Len(tab) /\ \A i \in DOMAIN tab : tab[i].index \in Int
BY LenProperties, ElementOfSeq, LogicalTypes

\* A call that changes only the logical list and the rows that name its entities.
LEMMA LogicalStep ==
    ASSUME TableInv, UNCHANGED <<physical, physTail, contains>>,
           logical' \in Seq(LogEntries), unhandled' \in BOOLEAN,
           ~unhandled' => ~unhandled,
           Fewer(lp', lp), Fewer(alias', alias),
           ~unhandled' /\ Lists /\ Rows =>
              /\ Limited(logical') /\ Ordered(logical') /\ TailIsLast(logical', logTail')
              /\ DOMAIN lp' \subseteq Live(logical')
              /\ \A p \in DOMAIN alias' : alias'[p] \subseteq {0} \cup Live(logical')
    PROVE  TableInv'
<1>1. Types'
  <2>1. Types
    BY DEF TableInv
  <2> QED BY <2>1, FewerKeeps DEF Types
<1>2. ASSUME ~unhandled'
      PROVE  Lists' /\ Rows'
  <2>1. Lists /\ Rows
    BY <1>2 DEF TableInv
  <2>2. Lists'
    BY <1>2, <2>1 DEF Lists
  <2>3. ContainsNames' /\ LpNames' /\ AliasNames'
    BY <1>2, <2>1 DEF Rows, ContainsNames, LpNames, AliasNames, Fewer
  <2>4. AllPorts(physical, alias)'
    BY <2>1 DEF Rows, AllPorts, PortAt, Fewer
  <2>5. AllLowest(physical, contains)'
    BY <2>1 DEF Rows
  <2> QED BY <2>2, <2>3, <2>4, <2>5 DEF Rows
<1> QED BY <1>1, <1>2 DEF TableInv

\* allocLogicalEntry.
LEMMA AllocLogicalKeeps ==
    ASSUME TableInv, NEW want \in LogRequests, allocLogicalEntry(want)
    PROVE  TableInv'
<1>1. Types /\ want \in 0..MAX_ENTITY_INDEX /\ want \in Int
  BY IndexAssumption DEF TableInv
<1>2. UNCHANGED <<physical, physTail, contains, lp, alias>>
  BY DEF allocLogicalEntry
<1>3. CASE UsesFreedTail(logical, logTail, want)
  <2>1. Undefined /\ UNCHANGED <<logical, logTail>>
    BY <1>3 DEF allocLogicalEntry
  <2> QED BY <1>1, <1>2, <2>1 DEF TableInv, Types, Undefined
<1>4. CASE ~UsesFreedTail(logical, logTail, want)
  <2>1. PICK e0 : e0 = [index |-> want]
    OBVIOUS
  <2>2. e0 \in LogEntries /\ e0.index = want
    BY <1>1, <2>1 DEF LogEntries
  <2>3. logical \in Seq(LogEntries)
    BY <1>1 DEF Types
  <2>4. \A i \in DOMAIN logical : logical[i].index \in Int
    BY <2>3, LogicalIndexes
  <2>5. PICK x \in Int : x = NewIndex(logical, want)
    BY <1>1, <2>3, <2>4, PlaceType
  <2>6. PICK e \in LogEntries : e = [e0 EXCEPT !.index = x]
    BY <2>2, <2>5, LogicalTypes
  <2>7. e.index = x
    BY <2>2, <2>6, LogicalTypes
  <2>8. PICK k \in 0..Len(logical) : k = Place(logical, want)
    BY <1>1, <2>3, <2>4, PlaceType
  <2>9. /\ logical' = InsertAt(logical, k + 1, e)
        /\ logTail' = TailAfterAdd(logical, logTail, want)
        /\ unhandled' = (unhandled \/ x < 0)
    <3>1. /\ logical' = AddTo(logical, e0)
          /\ logTail' = TailAfterAdd(logical, logTail, want)
          /\ unhandled' = (unhandled \/ x < 0)
      BY <1>4, <2>1, <2>5 DEF allocLogicalEntry
    <3>2. AddTo(logical, e0) = InsertAt(logical, k + 1, e)
      BY <2>2, <2>5, <2>6, <2>8 DEF AddTo
    <3> QED BY <3>1, <3>2
  <2>10. logical' \in Seq(LogEntries) /\ OneMore(logical', logical, e)
    <3>1. InsertAt(logical, k + 1, e) \in Seq(LogEntries)
          /\ OneMore(InsertAt(logical, k + 1, e), logical, e)
      BY <2>3, <2>6, <2>8, Added
    <3> QED BY <2>9, <3>1
  <2>11. Fewer(lp', lp) /\ Fewer(alias', alias)
    BY <1>2, DeletionsAreFewer
  <2>12. ASSUME ~unhandled', Lists, Rows
         PROVE  /\ Limited(logical') /\ Ordered(logical') /\ TailIsLast(logical', logTail')
                /\ DOMAIN lp' \subseteq Live(logical')
                /\ \A p \in DOMAIN alias' : alias'[p] \subseteq {0} \cup Live(logical')
    <3>1. ~(x < 0) /\ Limited(logical) /\ Ordered(logical) /\ TailIsLast(logical, logTail)
      BY <2>9, <2>12 DEF Lists
    <3>2. Limited(logical') /\ Ordered(logical') /\ TailIsLast(logical', logTail')
      BY <1>1, <2>3, <2>4, <2>5, <2>6, <2>7, <2>8, <2>9, <3>1, AddKeepsOrder
    <3>3. Live(logical) \subseteq Live(logical')
      <4> SUFFICES ASSUME NEW n \in Live(logical)
                   PROVE  n \in Live(logical')
        OBVIOUS
      <4>1. n > 0 /\ \E i \in DOMAIN logical : logical[i].index = n
        BY LiveByPosition
      <4>2. \E i \in DOMAIN logical' : logical'[i].index = n
        BY <2>10, <4>1 DEF OneMore
      <4> QED BY <4>1, <4>2, LiveByPosition
    <3> QED BY <1>2, <2>12, <3>2, <3>3 DEF Rows, LpNames, AliasNames
  <2>13. unhandled' \in BOOLEAN /\ (~unhandled' => ~unhandled)
    BY <1>1, <2>9 DEF Types
  <2> QED BY <1>2, <2>9, <2>10, <2>11, <2>12, <2>13, LogicalStep
<1> QED BY <1>3, <1>4

\* DropLogicalRows: no row names the logical entity any more, and none names a new one.
LEMMA DropLogical ==
    ASSUME NEW n, DropLogicalRows(n)
    PROVE  /\ Fewer(alias', alias) /\ Fewer(lp', lp) /\ n \notin DOMAIN lp'
           /\ \A x \in DOMAIN alias' : n \notin alias'[x]
BY DeletionsAreFewer DEF DropLogicalRows

\* The rows name live logical entities when the others are still live.
LEMMA LogicalNamesWithout ==
    ASSUME NEW n, DropLogicalRows(n), Rows, Live(logical) \ {n} \subseteq Live(logical')
    PROVE  /\ DOMAIN lp' \subseteq Live(logical')
           /\ \A p \in DOMAIN alias' : alias'[p] \subseteq {0} \cup Live(logical')
<1>1. /\ Fewer(alias', alias) /\ Fewer(lp', lp) /\ n \notin DOMAIN lp'
      /\ \A x \in DOMAIN alias' : n \notin alias'[x]
  BY DropLogical
<1> QED BY <1>1 DEF Rows, LpNames, AliasNames, Fewer

\* deleteLogicalTableEntry.
LEMMA DeleteLogicalKeeps ==
    ASSUME TableInv, NEW n \in Indexes, deleteLogicalTableEntry(n)
    PROVE  TableInv'
<1>1. Types /\ n \in Nat \ {0}
  BY IndexAssumption DEF TableInv, Indexes
<1>2. /\ n \in Live(logical) /\ DropLogicalRows(n)
      /\ UNCHANGED unhandled
      /\ logical' = Without(logical, n) /\ logTail' = TailAfterDelete(logTail, n)
      /\ UNCHANGED <<physical, physTail, contains>>
  BY DEF deleteLogicalTableEntry
<1>3. logical \in Seq(LogEntries) /\ DOMAIN logical = 1..Len(logical)
      /\ \A i \in DOMAIN logical : logical[i].index \in Int
  BY <1>1, LogicalIndexes DEF Types
<1>4. PICK r \in 1..Len(logical) : logical[r].index = n /\ logical' = RemoveAt(logical, r)
  <2>1. \E i \in DOMAIN logical : logical[i].index = n
    BY <1>2, LiveByPosition
  <2> QED BY <1>2, <1>3, <2>1, WithoutRemoves
<1>5. logical' \in Seq(LogEntries) /\ OneLess(logical', logical, r)
  BY <1>3, <1>4, RemovedEntries
<1>6. ASSUME ~unhandled', Lists, Rows
      PROVE  /\ Limited(logical') /\ Ordered(logical') /\ TailIsLast(logical', logTail')
             /\ DOMAIN lp' \subseteq Live(logical')
             /\ \A p \in DOMAIN alias' : alias'[p] \subseteq {0} \cup Live(logical')
  <2>1. Limited(logical) /\ Ordered(logical) /\ TailIsLast(logical, logTail)
    BY <1>6 DEF Lists
  <2>2. Limited(logical') /\ Ordered(logical') /\ TailIsLast(logical', logTail')
    BY <1>1, <1>2, <1>3, <1>4, <2>1, DeleteKeepsOrder
  <2>3. Live(logical) \ {n} \subseteq Live(logical')
    <3> SUFFICES ASSUME NEW m \in Live(logical), m # n
                 PROVE  m \in Live(logical')
      OBVIOUS
    <3>1. m > 0 /\ \E j \in DOMAIN logical : logical[j].index = m
      BY LiveByPosition
    <3>2. \E i \in DOMAIN logical' : logical'[i].index = m
      BY <1>4, <1>5, <3>1 DEF OneLess
    <3> QED BY <3>1, <3>2, LiveByPosition
  <2> QED BY <1>2, <1>6, <2>2, <2>3, LogicalNamesWithout
<1>7. Fewer(alias', alias) /\ Fewer(lp', lp)
  BY <1>2, DropLogical
<1>8. unhandled' \in BOOLEAN /\ (~unhandled' => ~unhandled)
  BY <1>1, <1>2 DEF Types
<1> QED BY <1>2, <1>5, <1>6, <1>7, <1>8, LogicalStep

\* makeLogicalTableEntryStale.
LEMMA StaleLogicalKeeps ==
    ASSUME TableInv, NEW n \in Indexes, makeLogicalTableEntryStale(n)
    PROVE  TableInv'
<1>1. PICK o \in Int : o = -n
  BY IndexAssumption DEF Indexes
<1>2. Types /\ n \in Int /\ Abs(n) = Abs(o)
  BY <1>1, IndexAssumption DEF TableInv, Indexes, Abs
<1>3. /\ n \in Live(logical) /\ DropLogicalRows(n)
      /\ UNCHANGED unhandled
      /\ logical' = Reindexed(logical, n, o)
      /\ UNCHANGED <<logTail, physical, physTail, contains>>
  BY <1>1 DEF makeLogicalTableEntryStale
<1>4. logical \in Seq(LogEntries)
  BY <1>2 DEF Types
<1>5. \A e \in LogEntries : [e EXCEPT !.index = o] \in LogEntries /\ [e EXCEPT !.index = o].index = o
  BY <1>1, LogicalTypes
<1>6. logical' \in Seq(LogEntries) /\ Flipped(logical', logical, n, o)
  BY <1>1, <1>2, <1>3, <1>4, <1>5, ReindexKeeps
<1>7. ASSUME ~unhandled', Lists, Rows
      PROVE  /\ Limited(logical') /\ Ordered(logical') /\ TailIsLast(logical', logTail')
             /\ DOMAIN lp' \subseteq Live(logical')
             /\ \A p \in DOMAIN alias' : alias'[p] \subseteq {0} \cup Live(logical')
  <2>1. Limited(logical') /\ Ordered(logical') /\ TailIsLast(logical', logTail')
    BY <1>3, <1>6, <1>7 DEF Lists, Flipped
  <2>2. Live(logical) \ {n} \subseteq Live(logical')
    <3> SUFFICES ASSUME NEW m \in Live(logical), m # n
                 PROVE  m \in Live(logical')
      OBVIOUS
    <3>1. m > 0 /\ \E j \in DOMAIN logical : logical[j].index = m
      BY LiveByPosition
    <3>2. \E i \in DOMAIN logical' : logical'[i].index = m
      BY <1>6, <3>1 DEF Flipped
    <3> QED BY <3>1, <3>2, LiveByPosition
  <2> QED BY <1>3, <1>7, <2>1, <2>2, LogicalNamesWithout
<1>8. Fewer(alias', alias) /\ Fewer(lp', lp)
  BY <1>3, DropLogical
<1>9. unhandled' \in BOOLEAN /\ (~unhandled' => ~unhandled)
  BY <1>2, <1>3 DEF Types
<1> QED BY <1>3, <1>6, <1>7, <1>8, <1>9, LogicalStep

\* makeLogicalTableEntryLive.
LEMMA LiveLogicalKeeps ==
    ASSUME TableInv, NEW n \in Indexes, makeLogicalTableEntryLive(n)
    PROVE  TableInv'
<1>1. PICK o \in Int : o = -n
  BY IndexAssumption DEF Indexes
<1>2. Types /\ n \in Int /\ Abs(o) = Abs(n) /\ ~(o > 0)
  BY <1>1, IndexAssumption DEF TableInv, Indexes, Abs
<1>3. /\ logical' = Reindexed(logical, o, n)
      /\ UNCHANGED unhandled
      /\ UNCHANGED <<logTail, physical, physTail, contains, lp, alias>>
  BY <1>1 DEF makeLogicalTableEntryLive
<1>4. logical \in Seq(LogEntries)
  BY <1>2 DEF Types
<1>5. \A e \in LogEntries : [e EXCEPT !.index = n] \in LogEntries /\ [e EXCEPT !.index = n].index = n
  BY <1>2, LogicalTypes
<1>6. logical' \in Seq(LogEntries) /\ Flipped(logical', logical, o, n)
  BY <1>1, <1>2, <1>3, <1>4, <1>5, ReindexKeeps
<1>7. ASSUME ~unhandled', Lists, Rows
      PROVE  /\ Limited(logical') /\ Ordered(logical') /\ TailIsLast(logical', logTail')
             /\ DOMAIN lp' \subseteq Live(logical')
             /\ \A p \in DOMAIN alias' : alias'[p] \subseteq {0} \cup Live(logical')
  <2>1. Limited(logical') /\ Ordered(logical') /\ TailIsLast(logical', logTail')
    BY <1>3, <1>6, <1>7 DEF Lists, Flipped
  <2>2. Live(logical) \subseteq Live(logical')
    <3> SUFFICES ASSUME NEW m \in Live(logical)
                 PROVE  m \in Live(logical')
      OBVIOUS
    <3>1. m > 0 /\ \E j \in DOMAIN logical : logical[j].index = m
      BY LiveByPosition
    <3>2. m # o
      BY <1>2, <3>1
    <3>3. \E i \in DOMAIN logical' : logical'[i].index = m
      BY <1>6, <3>1, <3>2 DEF Flipped
    <3> QED BY <3>1, <3>3, LiveByPosition
  <2> QED BY <1>3, <1>7, <2>1, <2>2 DEF Rows, LpNames, AliasNames
<1>8. Fewer(alias', alias) /\ Fewer(lp', lp)
  BY <1>3, DeletionsAreFewer
<1>9. unhandled' \in BOOLEAN /\ (~unhandled' => ~unhandled)
  BY <1>2, <1>3 DEF Types
<1> QED BY <1>3, <1>6, <1>7, <1>8, <1>9, LogicalStep

(***************************************************************************)
(* The theorems                                                            *)
(***************************************************************************)
\* The tables are empty at first.
LEMMA InitTables == Init => TableInv
<1> SUFFICES ASSUME Init
             PROVE  TableInv
  OBVIOUS
<1>1. DOMAIN <<>> = {} /\ \A S : <<>> \in Seq(S)
  BY EmptySeq, LenProperties
<1>2. Types
  BY <1>1 DEF Init, Types, AreRows
<1>3. Lists
  BY <1>1 DEF Init, Lists, Limited, Ordered, TailIsLast
<1>4. Rows
  BY <1>1 DEF Init, Rows, ContainsNames, LpNames, AliasNames, AllPorts, AllLowest
<1> QED BY <1>2, <1>3, <1>4 DEF TableInv

\* Every call keeps the invariant.
LEMMA NextTables == TableInv /\ [Next]_vars => TableInv'
<1> SUFFICES ASSUME TableInv, [Next]_vars
             PROVE  TableInv'
  OBVIOUS
<1>1. CASE ChangeEntities
  <2>1. CASE \E want \in PhysRequests, parent \in 0..MAX_ENTITY_INDEX :
                allocPhysicalEntry(want, parent)
    BY <2>1, AllocPhysicalKeeps
  <2>2. CASE \E want \in LogRequests : allocLogicalEntry(want)
    BY <2>2, AllocLogicalKeeps
  <2>3. CASE \E n \in Indexes : deletePhysicalTableEntry(n)
    BY <2>3, DeletePhysicalKeeps
  <2>4. CASE \E n \in Indexes : makePhysicalTableEntryStale(n)
    BY <2>4, StalePhysicalKeeps
  <2>5. CASE \E n \in Indexes : makePhysicalTableEntryLive(n)
    BY <2>5, LivePhysicalKeeps
  <2>6. CASE \E n \in Indexes : deleteLogicalTableEntry(n)
    BY <2>6, DeleteLogicalKeeps
  <2>7. CASE \E n \in Indexes : makeLogicalTableEntryStale(n)
    BY <2>7, StaleLogicalKeeps
  <2>8. CASE \E n \in Indexes : makeLogicalTableEntryLive(n)
    BY <2>8, LiveLogicalKeeps
  <2> QED BY <1>1, <2>1, <2>2, <2>3, <2>4, <2>5, <2>6, <2>7, <2>8 DEF ChangeEntities
<1>2. CASE ChangePairs
  <2>1. PICK n \in Indexes, m \in Indexes :
          \/ addPhysicalContainsTableEntry(n, m)
          \/ deletePhysicalContainsTableEntry(n, m)
          \/ addLPMappingTableEntry(n, m)
          \/ deleteLPMappingTableEntry(n, m)
          \/ \E l \in {0, m} : addAliasMappingTableEntry(n, l) \/ deleteAliasMappingTableEntry(n, l)
    BY <1>2 DEF ChangePairs
  <2>2. CASE addPhysicalContainsTableEntry(n, m)
    BY <2>2, AddContainsKeeps
  <2>3. CASE deletePhysicalContainsTableEntry(n, m)
    BY <2>3, ContainsDeletionsKeep
  <2>4. CASE addLPMappingTableEntry(n, m)
    BY <2>4, AddLPKeeps
  <2>5. CASE deleteLPMappingTableEntry(n, m)
    BY <2>5, MappingDeletionsKeep
  <2>6. CASE \E l \in {0, m} : addAliasMappingTableEntry(n, l)
    <3>1. PICK l \in {0, m} : addAliasMappingTableEntry(n, l)
      BY <2>6
    <3>2. l \in {0} \cup Indexes
      OBVIOUS
    <3> QED BY <3>1, <3>2, AddAliasKeeps
  <2>7. CASE \E l \in {0, m} : deleteAliasMappingTableEntry(n, l)
    BY <2>7, MappingDeletionsKeep
  <2> QED BY <2>1, <2>2, <2>3, <2>4, <2>5, <2>6, <2>7
<1>3. CASE DropRows
  <2>1. PICK n \in Indexes :
          \/ deletePhysicalContainsParentIndex(n)
          \/ deletePhysicalContainsChildIndex(n)
          \/ deleteLPMappingPhysicalIndex(n)
          \/ deleteLPMappingLogicalIndex(n)
          \/ deleteAliasMappingPhysicalIndex(n)
          \/ deleteAliasMappingLogicalIndex(n)
    BY <1>3 DEF DropRows
  <2>2. CASE deletePhysicalContainsParentIndex(n) \/ deletePhysicalContainsChildIndex(n)
    BY <2>2, ContainsDeletionsKeep
  <2>3. CASE \/ deleteLPMappingPhysicalIndex(n) \/ deleteLPMappingLogicalIndex(n)
             \/ deleteAliasMappingPhysicalIndex(n) \/ deleteAliasMappingLogicalIndex(n)
    BY <2>3, MappingDeletionsKeep
  <2> QED BY <2>1, <2>2, <2>3
<1>4. CASE UNCHANGED vars
  BY <1>4 DEF vars, TableInv, Types, Lists, Rows, ContainsNames, LpNames, AliasNames
<1> QED BY <1>1, <1>2, <1>3, <1>4 DEF Next

\* The invariant, for every limit on the indexes and every table size.
LEMMA TableInvariant == Spec => []TableInv
<1>1. Init => TableInv
  BY InitTables
<1>2. TableInv /\ [Next]_vars => TableInv'
  BY NextTables
<1> QED BY <1>1, <1>2, PTL DEF Spec

\* The tables hold indexes within the limit until an index overflows; parents and rows
\* hold them after an overflow too.
THEOREM IndexesStayInLimit == Spec => []TypeOK
<1>1. TableInv => TypeOK
  <2> SUFFICES ASSUME TableInv
               PROVE  TypeOK
    OBVIOUS
  <2>1. Types
    BY DEF TableInv
  <2>2. \A i \in DOMAIN physical : physical[i].parent \in 0..MAX_ENTITY_INDEX
    BY <2>1, LenProperties, ElementOfSeq, EntryTypes DEF Types
  <2> QED BY <2>1, <2>2 DEF TableInv, Types, Lists, Limited, TypeOK
<1> QED BY <1>1, TableInvariant, PTL

\* AddToPhysicalTable, AddToLogicalTable and the deletions keep the lists in order, with
\* no index twice, and a tail that was not freed is the last entry.
THEOREM ListsStayInOrder == Spec => []ListsInOrder
<1>1. TableInv => ListsInOrder
  BY DEF TableInv, Lists, Ordered, TailIsLast, ListsInOrder, InOrder
<1> QED BY <1>1, TableInvariant, PTL

\* Whatever calls delete entities or make them stale, no row of the three mapping tables
\* names one that is not live, and only ports have aliases.
THEOREM RowsStayLive == Spec => []RowsNameLiveEntities
<1>1. TableInv => RowsNameLiveEntities
  <2> SUFFICES ASSUME TableInv, ~unhandled
               PROVE  /\ \A p \in DOMAIN contains : {p} \cup contains[p] \subseteq Live(physical)
                      /\ \A l \in DOMAIN lp : l \in Live(logical) /\ lp[l] \subseteq Live(physical)
                      /\ \A p \in DOMAIN alias : /\ p \in Live(physical)
                                                 /\ Entry(physical, p).class = "port"
                                                 /\ alias[p] \subseteq {0} \cup Live(logical)
    BY DEF RowsNameLiveEntities
  <2>1. Types /\ Lists /\ Rows
    BY DEF TableInv
  <2>2. ASSUME NEW p \in DOMAIN alias
        PROVE  Entry(physical, p).class = "port"
    <3>1. p \in Live(physical) /\ physical \in Seq(PhysEntries)
          /\ Ordered(physical) /\ Limited(physical)
      BY <2>1 DEF Types, Lists, Rows, AliasNames
    <3>2. PICK i \in DOMAIN physical : physical[i].index = p /\ Entry(physical, p) = physical[i]
      BY <3>1, EntryAt
    <3> QED BY <2>1, <3>2 DEF Rows, AllPorts, PortAt
  <2> QED BY <2>1, <2>2 DEF Rows, ContainsNames, LpNames, AliasNames
<1> QED BY <1>1, TableInvariant, PTL

\* The calls that maintain entPhysicalContainedIn beside the contains table keep it the
\* lowest parent there, or 0, or the parent the entity was allocated in as long as that
\* is lower still.
THEOREM ParentStaysLowest == Spec => []ParentIsLowest
<1>1. TableInv => ParentIsLowest
  BY DEF TableInv, Rows, AllLowest, LowestAt, LowestOf, ParentIsLowest
<1> QED BY <1>1, TableInvariant, PTL

(***************************************************************************)
(* Containment without cycles                                              *)
(***************************************************************************)
\* The rounds that Reached counts, as a function.
NextRound(next, X) == X \cup UNION {next[x] : x \in X \cap DOMAIN next}
Rounds(next, S, n, r) ==
    r = [k \in 0..n |-> IF k = 0 THEN S ELSE NextRound(next, r[k - 1])]

\* Nothing leads out of X.
Closed(next, X) == \A x \in X \cap DOMAIN next : next[x] \subseteq X

\* What the rounds are, one by one.
Stepwise(next, S, n, r) ==
    r[0] = S /\ \A k \in 0..n : k > 0 => r[k] = NextRound(next, r[k - 1])

\* A function that Rounds describes is built round by round.
LEMMA RoundByRound ==
    ASSUME NEW next, NEW S, NEW n \in Nat, NEW r, Rounds(next, S, n, r)
    PROVE  Stepwise(next, S, n, r)
<1>1. \A k \in 0..n : r[k] = IF k = 0 THEN S ELSE NextRound(next, r[k - 1])
  BY DEF Rounds
<1>2. 0 \in 0..n
  OBVIOUS
<1> QED BY <1>1, <1>2 DEF Stepwise

\* For every number of rounds there is such a function: one round more extends one.
LEMMA RoundsExist ==
    ASSUME NEW next, NEW S
    PROVE  \A n \in Nat : \E r : Rounds(next, S, n, r)
<1> DEFINE T == {n \in Nat : ~\E r : Rounds(next, S, n, r)}
<1> SUFFICES ASSUME T # {}
             PROVE  FALSE
  OBVIOUS
<1>1. PICK m \in T : \A x \in T : m <= x
  BY LeastElement
<1>2. m \in Nat /\ ~\E r : Rounds(next, S, m, r)
  OBVIOUS
<1>3. CASE m = 0
  <2> DEFINE q == [k \in 0..0 |-> S]
  <2>1. q = [k \in 0..0 |-> IF k = 0 THEN S ELSE NextRound(next, q[k - 1])]
    OBVIOUS
  <2>2. Rounds(next, S, 0, q)
    BY <2>1 DEF Rounds
  <2> QED BY <1>2, <1>3, <2>2
<1>4. CASE m > 0
  <2>1. m - 1 \in Nat /\ m - 1 \notin T
    BY <1>1, <1>2, <1>4
  <2>2. PICK r : Rounds(next, S, m - 1, r)
    BY <2>1
  <2>3. /\ r[0] = S
        /\ \A k \in 0..(m - 1) : k > 0 => r[k] = NextRound(next, r[k - 1])
    <3>1. Stepwise(next, S, m - 1, r)
      BY <2>1, <2>2, RoundByRound
    <3> QED BY <3>1 DEF Stepwise
  <2> DEFINE q == [k \in 0..m |-> IF k < m THEN r[k] ELSE NextRound(next, r[m - 1])]
  <2>4. ASSUME NEW k \in 0..m
        PROVE  q[k] = IF k = 0 THEN S ELSE NextRound(next, q[k - 1])
    <3>1. CASE k = 0
      BY <1>4, <2>3, <3>1
    <3>2. CASE k > 0
      <4>1. k - 1 \in 0..m /\ k - 1 < m /\ q[k - 1] = r[k - 1]
        BY <1>2, <3>2
      <4>2. q[k] = NextRound(next, r[k - 1])
        <5>1. CASE k < m
          BY <1>2, <2>3, <3>2, <5>1
        <5>2. CASE k = m
          BY <1>2, <5>2
        <5> QED BY <1>2, <5>1, <5>2
      <4> QED BY <3>2, <4>1, <4>2
    <3> QED BY <1>2, <3>1, <3>2
  <2>5. q = [k \in 0..m |-> IF k = 0 THEN S ELSE NextRound(next, q[k - 1])]
    <3> DEFINE g == [k \in 0..m |-> IF k = 0 THEN S ELSE NextRound(next, q[k - 1])]
    <3>1. DOMAIN q = 0..m /\ DOMAIN g = 0..m /\ q = [k \in DOMAIN q |-> q[k]]
      OBVIOUS
    <3>2. \A k \in 0..m : q[k] = g[k]
      BY <2>4
    <3> HIDE DEF q
    <3> QED BY <3>1, <3>2
  <2>6. Rounds(next, S, m, q)
    BY <2>5 DEF Rounds
  <2> QED BY <1>2, <2>6
<1> QED BY <1>2, <1>3, <1>4

\* What is reached is the last round.
LEMMA ReachedIsLast ==
    ASSUME NEW next, NEW S, NEW n \in Nat
    PROVE  \E r : Rounds(next, S, n, r) /\ Reached(next, S, n) = r[n]
<1>1. \E r : Rounds(next, S, n, r)
  BY RoundsExist
<1> QED BY <1>1 DEF Reached, Rounds, NextRound

\* A closed set that holds the start holds every round.
LEMMA RoundsStayInside ==
    ASSUME NEW next, NEW S, NEW n \in Nat, NEW r, Rounds(next, S, n, r),
           NEW X, S \subseteq X, Closed(next, X)
    PROVE  \A k \in 0..n : r[k] \subseteq X
<1> DEFINE T == {k \in 0..n : ~(r[k] \subseteq X)}
<1> SUFFICES ASSUME T # {}
             PROVE  FALSE
  OBVIOUS
<1>1. T \subseteq Nat
  OBVIOUS
<1>2. PICK m \in T : \A x \in T : m <= x
  BY <1>1, LeastElement
<1>3. m \in 0..n /\ ~(r[m] \subseteq X)
  OBVIOUS
<1>4. r[0] = S /\ \A k \in 0..n : k > 0 => r[k] = NextRound(next, r[k - 1])
  <2>1. Stepwise(next, S, n, r)
    BY RoundByRound
  <2> QED BY <2>1 DEF Stepwise
<1>5. m > 0 /\ m - 1 \in 0..n
  BY <1>3, <1>4
<1>6. r[m - 1] \subseteq X
  BY <1>2, <1>5
<1>7. NextRound(next, r[m - 1]) \subseteq X
  BY <1>6 DEF NextRound, Closed
<1> QED BY <1>3, <1>4, <1>5, <1>7

\* One round more is closed already, or larger.
LEMMA RoundGrows ==
    ASSUME NEW next, NEW X, NEW U, IsFiniteSet(U), NextRound(next, X) \subseteq U,
           NEW k \in Nat, Cardinality(X) >= k, ~Closed(next, X)
    PROVE  Cardinality(NextRound(next, X)) >= k + 1
<1> DEFINE Y == NextRound(next, X)
<1>1. PICK x \in X \cap DOMAIN next : ~(next[x] \subseteq X)
  BY DEF Closed
<1>2. PICK y \in next[x] : y \notin X
  BY <1>1
<1>3. X \cup {y} \subseteq Y
  BY <1>2 DEF NextRound
<1>4. IsFiniteSet(Y)
  BY FS_Subset
<1> HIDE DEF Y
<1>5. IsFiniteSet(X) /\ IsFiniteSet(X \cup {y}) /\ Cardinality(X \cup {y}) <= Cardinality(Y)
  BY <1>3, <1>4, FS_Subset
<1>6. Cardinality(X \cup {y}) = Cardinality(X) + 1
  BY <1>2, <1>5, FS_AddElement
<1>7. Cardinality(X) \in Nat /\ Cardinality(Y) \in Nat
  BY <1>4, <1>5, FS_CardinalityType
<1>8. Cardinality(Y) >= k + 1
  BY <1>5, <1>6, <1>7
<1> QED BY <1>8 DEF Y

\* As many rounds as there are elements to reach are enough: the last one is closed.
LEMMA LastRoundIsClosed ==
    ASSUME NEW next, NEW S, NEW n \in Nat, NEW r, Rounds(next, S, n, r),
           NEW U, IsFiniteSet(U), Cardinality(U) <= n, S \subseteq U, Closed(next, U)
    PROVE  Closed(next, r[n])
<1> DEFINE Grown(k) == Closed(next, r[k]) \/ Cardinality(r[k]) >= k + 1
           T == {k \in 0..n : ~Grown(k)}
<1>1. r[0] = S /\ \A k \in 0..n : k > 0 => r[k] = NextRound(next, r[k - 1])
  <2>1. Stepwise(next, S, n, r)
    BY RoundByRound
  <2> QED BY <2>1 DEF Stepwise
<1>2. \A k \in 0..n : r[k] \subseteq U
  BY RoundsStayInside
<1>3. Grown(0)
  <2>1. S = {} => Closed(next, S)
    BY DEF Closed
  <2>2. IsFiniteSet(S)
    BY FS_Subset
  <2>3. S # {} => Cardinality(S) >= 1
    BY <2>2, FS_EmptySet, FS_CardinalityType
  <2> QED BY <1>1, <2>1, <2>3
<1>4. ASSUME NEW k \in 0..n, k > 0, Grown(k - 1)
      PROVE  Grown(k)
  <2>1. k - 1 \in Nat /\ k - 1 \in 0..n /\ k \in Nat /\ k - 1 + 1 = k
    BY <1>4
  <2>2. r[k] = NextRound(next, r[k - 1])
    BY <1>1, <1>4
  <2>3. CASE Closed(next, r[k - 1])
    <3>1. r[k] = r[k - 1]
      BY <2>2, <2>3 DEF Closed, NextRound
    <3> QED BY <2>3, <3>1
  <2>4. CASE ~Closed(next, r[k - 1])
    <3>1. Cardinality(r[k - 1]) >= k
      BY <1>4, <2>1, <2>4
    <3>2. NextRound(next, r[k - 1]) \subseteq U
      BY <1>2, <2>2
    <3> QED BY <2>1, <2>2, <2>4, <3>1, <3>2, RoundGrows
  <2> QED BY <2>3, <2>4
<1>5. Grown(n)
  <2> SUFFICES ASSUME T # {}
               PROVE  FALSE
    OBVIOUS
  <2> HIDE DEF Grown
  <2>1. T \subseteq Nat
    OBVIOUS
  <2>2. PICK m \in T : \A x \in T : m <= x
    BY <2>1, LeastElement
  <2>3. m \in 0..n /\ ~Grown(m)
    OBVIOUS
  <2>4. m # 0
    BY <1>3, <2>3
  <2>5. m > 0 /\ m - 1 \in 0..n /\ m - 1 < m
    BY <2>3, <2>4
  <2>6. m - 1 \notin T
    BY <2>2, <2>5
  <2>7. Grown(m - 1)
    BY <2>5, <2>6
  <2> QED BY <1>4, <2>3, <2>5, <2>7
<1>6. Cardinality(r[n]) <= n
  <2>1. r[n] \subseteq U
    BY <1>2
  <2>2. IsFiniteSet(r[n]) /\ Cardinality(r[n]) <= Cardinality(U)
    BY <2>1, FS_Subset
  <2>3. Cardinality(r[n]) \in Nat /\ Cardinality(U) \in Nat
    BY <2>2, FS_CardinalityType
  <2> QED BY <2>2, <2>3
<1>7. Cardinality(r[n]) \in Nat
  BY <1>2, FS_Subset, FS_CardinalityType
<1> QED BY <1>5, <1>6, <1>7

\* A list has at most as many indexes as entries.
LEMMA IndexesAreFew ==
    ASSUME NEW E, NEW tab \in Seq(E)
    PROVE  IsFiniteSet(IndexesOf(tab)) /\ Cardinality(IndexesOf(tab)) <= Len(tab)
<1>1. Len(tab) \in Nat /\ DOMAIN tab = 1..Len(tab)
  BY LenProperties
<1> DEFINE f == [i \in 1..Len(tab) |-> tab[i].index]
<1>2. f \in Surjection(1..Len(tab), IndexesOf(tab))
  BY <1>1 DEF Surjection, IndexesOf, ToSet
<1>3. IsFiniteSet(1..Len(tab)) /\ Cardinality(1..Len(tab)) = Len(tab)
  BY SMTT(30), <1>1, FS_Interval
<1> QED BY <1>2, <1>3, FS_Surjection

\* No entity is in itself: what is above it has room in a set that it is not in, that no
\* row leads out of.
NoCycle(rows) ==
    \A n \in Indexes : \E X : /\ n \notin X /\ KeysWith(rows, n) \subseteq X
                              /\ \A x \in X : KeysWith(rows, x) \subseteq X

\* Without some of its pairs the contains table has no cycle either.
LEMMA FewerNoCycle ==
    ASSUME NEW rows, NEW new, NoCycle(rows), Fewer(new, rows)
    PROVE  NoCycle(new)
<1>1. \A c : KeysWith(new, c) \subseteq KeysWith(rows, c)
  BY FewerKeeps
<1> SUFFICES ASSUME NEW n \in Indexes
             PROVE  \E X : /\ n \notin X /\ KeysWith(new, n) \subseteq X
                           /\ \A x \in X : KeysWith(new, x) \subseteq X
  BY DEF NoCycle
<1>2. PICK X : /\ n \notin X /\ KeysWith(rows, n) \subseteq X
               /\ \A x \in X : KeysWith(rows, x) \subseteq X
  BY DEF NoCycle
<1>3. KeysWith(new, n) \subseteq X
  BY <1>1, <1>2
<1>4. \A x \in X : KeysWith(new, x) \subseteq X
  BY <1>1, <1>2
<1> QED BY <1>2, <1>3, <1>4

\* A pair that puts something into p is harmless when p is outside of a set that holds
\* it with all that the rows put into it.
LEMMA PairNoCycle ==
    ASSUME NEW rows, NoCycle(rows), NEW p, NEW c, NEW D, c \in D, p \notin D,
           \A x \in DOMAIN rows \cap D : rows[x] \subseteq D
    PROVE  NoCycle(WithPair(rows, p, c))
<1> DEFINE new == WithPair(rows, p, c)
<1>1. /\ \A n : n # c => KeysWith(new, n) \subseteq KeysWith(rows, n)
      /\ KeysWith(new, c) \subseteq KeysWith(rows, c) \cup {p}
  BY DEF KeysWith, WithPair, Row, HasRow
<1> HIDE DEF new
<1>2. \A n : n \notin D => KeysWith(rows, n) \cap D = {}
  BY DEF KeysWith
<1> SUFFICES ASSUME NEW n \in Indexes
             PROVE  \E X : /\ n \notin X /\ KeysWith(new, n) \subseteq X
                           /\ \A x \in X : KeysWith(new, x) \subseteq X
  BY DEF NoCycle, new
<1>3. PICK X : /\ n \notin X /\ KeysWith(rows, n) \subseteq X
               /\ \A x \in X : KeysWith(rows, x) \subseteq X
  BY DEF NoCycle
<1>4. CASE n \in D
  <2> DEFINE Y == X \cup ((DOMAIN rows \cup {p}) \ D)
  <2>1. n \notin Y
    BY <1>3, <1>4
  <2>2. \A x : KeysWith(rows, x) \subseteq DOMAIN rows
    BY DEF KeysWith
  <2>3. p \in Y
    OBVIOUS
  <2>4. KeysWith(new, n) \subseteq Y
    BY <1>1, <1>3, <2>3
  <2>5. ASSUME NEW x \in Y
        PROVE  KeysWith(new, x) \subseteq Y
    <3>1. CASE x \in X
      BY <1>1, <1>3, <2>3, <3>1
    <3>2. CASE x \notin D
      BY <1>1, <1>2, <2>2, <3>2
    <3> QED BY <3>1, <3>2
  <2> QED BY <2>1, <2>4, <2>5
<1>5. CASE n \notin D
  <2> DEFINE Y == X \ D
  <2>1. n \notin Y /\ KeysWith(new, n) \subseteq Y
    BY <1>1, <1>2, <1>3, <1>5
  <2>2. ASSUME NEW x \in Y
        PROVE  KeysWith(new, x) \subseteq Y
    <3>1. x # c /\ x \notin D /\ x \in X
      OBVIOUS
    <3> QED BY <1>1, <1>2, <1>3, <3>1
  <2> QED BY <2>1, <2>2
<1> QED BY <1>4, <1>5

\* The children of an entity, by either relation, are entries of the list.
LEMMA KidsAreEntries ==
    ASSUME ContainsNames, NEW n
    PROVE  Kids(n) \subseteq IndexesOf(physical)
<1>1. ContainedInList(n) \subseteq IndexesOf(physical)
  BY DEF ContainedInList, IndexesOf, ToSet
<1>2. ContainsChildren(n) \subseteq IndexesOf(physical)
  BY DEF ContainsChildren, Row, HasRow, ContainsNames, Live
<1> QED BY <1>1, <1>2 DEF Kids

\* isRecursiveChild sees all that the contains table puts into n: with n it is closed.
LEMMA BelowIsClosed ==
    ASSUME TableInv, ~unhandled, NEW n \in Live(physical)
    PROVE  \A x \in DOMAIN contains \cap ({n} \cup Below(n)) : contains[x] \subseteq {n} \cup Below(n)
<1> DEFINE next == [x \in Indexes |-> Kids(x)]
           L == Len(physical)
           U == IndexesOf(physical)
<1>1. physical \in Seq(PhysEntries) /\ L \in Nat /\ ContainsNames
      /\ AreRows(contains, Indexes, Indexes)
  BY LenProperties DEF TableInv, Types, Rows
<1>2. IsFiniteSet(U) /\ Cardinality(U) <= L
  BY <1>1, IndexesAreFew
<1>3. \A x : Kids(x) \subseteq U
  BY <1>1, KidsAreEntries
<1>4. DOMAIN next = Indexes /\ \A x \in Indexes : next[x] = Kids(x)
  OBVIOUS
<1>5. Below(n) = Reached(next, Kids(n), L)
  BY DEF Below
<1> HIDE DEF next, L, U
<1>6. Closed(next, U)
  BY <1>3, <1>4 DEF Closed
<1>7. PICK r : Rounds(next, Kids(n), L, r) /\ Reached(next, Kids(n), L) = r[L]
  BY <1>1, ReachedIsLast
<1>8. Closed(next, r[L])
  BY <1>1, <1>2, <1>3, <1>6, <1>7, LastRoundIsClosed
<1>9. Kids(n) \subseteq r[L]
  <2>1. r[0] = Kids(n) /\ \A k \in 0..L : k > 0 => r[k] = NextRound(next, r[k - 1])
    <3>1. Stepwise(next, Kids(n), L, r)
      BY <1>1, <1>7, RoundByRound
    <3> QED BY <3>1 DEF Stepwise
  <2> DEFINE T == {k \in 0..L : ~(Kids(n) \subseteq r[k])}
  <2> SUFFICES ASSUME T # {}
               PROVE  FALSE
    BY <1>1
  <2>2. PICK m \in T : \A x \in T : m <= x
    <3>1. T \subseteq Nat
      BY <1>1
    <3> HIDE DEF T
    <3> QED BY <3>1, LeastElement
  <2>3. m \in 0..L /\ ~(Kids(n) \subseteq r[m])
    OBVIOUS
  <2>4. m > 0 /\ m - 1 \in 0..L /\ m - 1 < m
    BY <1>1, <2>1, <2>3
  <2>5. Kids(n) \subseteq r[m - 1]
    BY <2>2, <2>4
  <2> QED BY <2>1, <2>3, <2>4, <2>5 DEF NextRound
<1>10. ASSUME NEW x \in DOMAIN contains
       PROVE  x \in Indexes /\ contains[x] \subseteq Kids(x)
  BY <1>1 DEF AreRows, ContainsNames, Kids, ContainsChildren, Row, HasRow
<1> QED BY <1>4, <1>5, <1>7, <1>8, <1>9, <1>10 DEF Closed

\* The call that adds a pair keeps the contains table without cycles.
LEMMA AddContainsNoCycle ==
    ASSUME TableInv, ~unhandled, ~unhandled', NoCycle(contains),
           NEW p \in Indexes, NEW c \in Indexes, addPhysicalContainsTableEntry(p, c)
    PROVE  NoCycle(contains')
<1>1. CASE UNCHANGED contains
  BY <1>1
<1>2. CASE ~isRecursiveChild(c, p) /\ contains' = WithPair(contains, p, c)
  <2> DEFINE D == {c} \cup Below(c)
  <2>1. c \in Live(physical) /\ p # c
    BY DEF addPhysicalContainsTableEntry
  <2>2. p \notin D
    BY <1>2, <2>1 DEF isRecursiveChild
  <2>3. \A x \in DOMAIN contains \cap D : contains[x] \subseteq D
    BY <2>1, BelowIsClosed
  <2>4. c \in D
    OBVIOUS
  <2> HIDE DEF D
  <2> QED BY <1>2, <2>2, <2>3, <2>4, PairNoCycle
<1> QED BY <1>1, <1>2 DEF addPhysicalContainsTableEntry, Undefined

\* Every other call leaves the contains table alone or takes pairs away.
LEMMA OthersTakeAway ==
    ASSUME Next, ~\E p, c \in Indexes : addPhysicalContainsTableEntry(p, c)
    PROVE  Fewer(contains', contains)
<1>1. Fewer(contains, contains)
  BY DeletionsAreFewer
<1>2. ASSUME NEW n, DropPhysicalRows(n)
      PROVE  Fewer(contains', contains)
  <2>1. contains' = WithoutValue(WithoutRow(contains, n), n)
    BY <1>2 DEF DropPhysicalRows
  <2>2. Fewer(WithoutRow(contains, n), contains)
        /\ Fewer(WithoutValue(WithoutRow(contains, n), n), WithoutRow(contains, n))
    BY DeletionsAreFewer
  <2> QED BY <2>1, <2>2, FewerTransitive
<1>3. CASE ChangeEntities
  <2>1. UNCHANGED contains \/ \E n \in Indexes : DropPhysicalRows(n)
    BY <1>3 DEF ChangeEntities, allocPhysicalEntry, allocLogicalEntry, deletePhysicalTableEntry,
                makePhysicalTableEntryStale, makePhysicalTableEntryLive, deleteLogicalTableEntry,
                makeLogicalTableEntryStale, makeLogicalTableEntryLive
  <2> QED BY <1>1, <1>2, <2>1
<1>4. CASE ChangePairs
  <2>1. UNCHANGED contains \/ \E n, m \in Indexes : /\ m \in Row(contains, n)
                                                    /\ contains' = WithoutPair(contains, n, m)
    BY <1>4 DEF ChangePairs, deletePhysicalContainsTableEntry, addLPMappingTableEntry,
                deleteLPMappingTableEntry, addAliasMappingTableEntry, deleteAliasMappingTableEntry
  <2>2. \A n, m : m \in Row(contains, n) => n \in DOMAIN contains
    BY DEF Row, HasRow
  <2> QED BY <1>1, <2>1, <2>2, DeletionsAreFewer
<1>5. CASE DropRows
  <2>1. \/ UNCHANGED contains
        \/ \E n \in Indexes : \/ contains' = WithoutRow(contains, n)
                              \/ contains' = WithoutValue(contains, n)
    BY <1>5 DEF DropRows, deletePhysicalContainsParentIndex, deletePhysicalContainsChildIndex,
                deleteLPMappingPhysicalIndex, deleteLPMappingLogicalIndex,
                deleteAliasMappingPhysicalIndex, deleteAliasMappingLogicalIndex
  <2> QED BY <1>1, <2>1, DeletionsAreFewer
<1> QED BY <1>3, <1>4, <1>5 DEF Next

\* What the code does not cope with stays in the history.
LEMMA UnhandledStays ==
    ASSUME TableInv, [Next]_vars, unhandled
    PROVE  unhandled'
<1>1. unhandled = TRUE
  BY DEF TableInv, Types
<1>2. CASE ChangeEntities
  BY <1>1, <1>2 DEF ChangeEntities, allocPhysicalEntry, allocLogicalEntry,
              deletePhysicalTableEntry, makePhysicalTableEntryStale, makePhysicalTableEntryLive,
              deleteLogicalTableEntry, makeLogicalTableEntryStale, makeLogicalTableEntryLive, Undefined
<1>3. CASE ChangePairs
  BY <1>1, <1>3 DEF ChangePairs, addPhysicalContainsTableEntry, deletePhysicalContainsTableEntry,
              addLPMappingTableEntry, deleteLPMappingTableEntry, addAliasMappingTableEntry,
              deleteAliasMappingTableEntry, Undefined
<1>4. CASE DropRows
  BY <1>1, <1>4 DEF DropRows, deletePhysicalContainsParentIndex, deletePhysicalContainsChildIndex,
              deleteLPMappingPhysicalIndex, deleteLPMappingLogicalIndex,
              deleteAliasMappingPhysicalIndex, deleteAliasMappingLogicalIndex
<1> QED BY <1>1, <1>2, <1>3, <1>4 DEF Next, vars

\* The invariant with the contains table.
AcyclicInv == TableInv /\ (~unhandled => NoCycle(contains))

\* The check that addPhysicalContainsTableEntry makes, through isRecursiveChild, before it
\* adds a pair is enough to keep every entity out of itself in the contains table, in a
\* table of any size, although isRecursiveChild misses children of the other relation.
THEOREM ContainsStaysAcyclic == Spec => []ContainsAcyclic
<1>1. Init => AcyclicInv
  <2> SUFFICES ASSUME Init
               PROVE  NoCycle(contains)
    BY InitTables DEF AcyclicInv
  <2>1. \A n : KeysWith(contains, n) = {}
    BY DEF Init, KeysWith
  <2>2. \A n \in Indexes : /\ n \notin {} /\ KeysWith(contains, n) \subseteq {}
                           /\ \A x \in {} : KeysWith(contains, x) \subseteq {}
    BY <2>1
  <2> QED BY <2>2 DEF NoCycle
<1>2. AcyclicInv /\ [Next]_vars => AcyclicInv'
  <2> SUFFICES ASSUME AcyclicInv, [Next]_vars, ~unhandled'
               PROVE  NoCycle(contains')
    BY NextTables DEF AcyclicInv
  <2>1. TableInv /\ ~unhandled /\ NoCycle(contains)
    BY UnhandledStays DEF AcyclicInv
  <2>2. CASE \E p, c \in Indexes : addPhysicalContainsTableEntry(p, c)
    BY <2>1, <2>2, AddContainsNoCycle
  <2>3. CASE Next /\ ~\E p, c \in Indexes : addPhysicalContainsTableEntry(p, c)
    BY <2>1, <2>3, OthersTakeAway, FewerNoCycle
  <2>4. CASE UNCHANGED vars
    BY <2>1, <2>4 DEF vars
  <2> QED BY <2>2, <2>3, <2>4
<1>3. AcyclicInv => ContainsAcyclic
  <2> SUFFICES ASSUME AcyclicInv, ~unhandled, NEW n \in Live(physical)
               PROVE  n \notin RowsAbove(n)
    BY DEF ContainsAcyclic
  <2> DEFINE next == [x \in Indexes |-> KeysWith(contains, x)]
  <2>1. physical \in Seq(PhysEntries) /\ Len(physical) \in Nat /\ Limited(physical)
    BY LenProperties DEF AcyclicInv, TableInv, Types, Lists
  <2>2. n \in Indexes
    <3>1. n > 0 /\ \E i \in DOMAIN physical : physical[i].index = n
      BY LiveByPosition
    <3>2. PICK i \in DOMAIN physical : physical[i].index = n
      BY <3>1
    <3>3. n \in Int /\ Abs(n) \in Indexes
      BY <2>1, <3>2, LenProperties, ElementOfSeq, EntryTypes DEF Limited
    <3> QED BY <3>1, <3>3 DEF Abs
  <2>3. PICK X : /\ n \notin X /\ KeysWith(contains, n) \subseteq X
                 /\ \A x \in X : KeysWith(contains, x) \subseteq X
    BY <2>2 DEF AcyclicInv, NoCycle
  <2>4. Closed(next, X)
    BY <2>3 DEF Closed
  <2>5. RowsAbove(n) = Reached(next, KeysWith(contains, n), Len(physical))
    BY DEF RowsAbove
  <2> HIDE DEF next
  <2>6. PICK r : /\ Rounds(next, KeysWith(contains, n), Len(physical), r)
                 /\ Reached(next, KeysWith(contains, n), Len(physical)) = r[Len(physical)]
    BY <2>1, ReachedIsLast
  <2>7. r[Len(physical)] \subseteq X
    BY <2>1, <2>3, <2>4, <2>6, RoundsStayInside
  <2> QED BY <2>3, <2>5, <2>6, <2>7
<1>4. Spec => []AcyclicInv
  BY <1>1, <1>2, PTL DEF Spec
<1> QED BY <1>3, <1>4, PTL
=============================================================================
