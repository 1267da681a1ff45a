------------------------ MODULE EngineSnapshotsProofs ------------------------
(***************************************************************************)
(* Proofs about EngineSnapshots.  For every application, every set of      *)
(* lists, and whatever is killed, fails or is rolled back: the types, and  *)
(* that a ZFS snapshot holds the cache file of its own name, whole.  For   *)
(* distro_const (ResumingClient), over all its processes: the snapshots    *)
(* are consistent, the record in the DOC is that of the completed flags,   *)
(* and a resume is clean.  For one process (OneProcess): what has          *)
(* completed can be rolled back to, and a rollback restores what the       *)
(* checkpoint found.                                                       *)
(***************************************************************************)
EXTENDS EngineSnapshots, SequenceTheorems, WellFoundedInduction, TLAPS

(***************************************************************************)
(* Kept elements                                                           *)
(***************************************************************************)
\* A set of natural numbers that is not empty has a least element.
LEMMA LeastNumber ==
    ASSUME NEW T, T \subseteq Nat, T # {}
    PROVE  \E m \in T : \A x \in T : m <= x
<1>1. \E m \in T : \A x \in T : ~(<<x, m>> \in OpToRel(<, Nat))
  BY NatLessThanWellFounded, WFMin
<1>2. \A x, m \in T : x < m => <<x, m>> \in OpToRel(<, Nat)
  BY DEF OpToRel
<1>3. PICK m \in T : \A x \in T : ~(x < m)
  BY <1>1, <1>2
<1>4. \A x \in T : m <= x
  BY <1>3
<1> QED BY <1>3, <1>4

\* What is kept of the first k elements, one after the other.
Step(seq, S, k, q) == IF seq[k] \in S THEN Append(q, seq[k]) ELSE q
Keeping(seq, S, n, r) ==
    r = [k \in 0..n |-> IF k = 0 THEN <<>> ELSE Step(seq, S, k, r[k - 1])]
Stepwise(seq, S, n, r) ==
    r[0] = <<>> /\ \A k \in 0..n : k > 0 => r[k] = Step(seq, S, k, r[k - 1])

\* A function that Keeping describes is built element by element.
LEMMA ElementByElement ==
    ASSUME NEW seq, NEW S, NEW n \in Nat, NEW r, Keeping(seq, S, n, r)
    PROVE  Stepwise(seq, S, n, r)
<1>1. \A k \in 0..n : r[k] = IF k = 0 THEN <<>> ELSE Step(seq, S, k, r[k - 1])
  BY DEF Keeping
<1>2. 0 \in 0..n
  OBVIOUS
<1> QED BY <1>1, <1>2 DEF Stepwise

\* There is such a function for every length.
LEMMA KeepingExists ==
    ASSUME NEW seq, NEW S
    PROVE  \A n \in Nat : \E r : Keeping(seq, S, n, r)
<1> DEFINE T == {n \in Nat : ~\E r : Keeping(seq, S, n, r)}
<1> SUFFICES ASSUME T # {}
             PROVE  FALSE
  OBVIOUS
<1>1. PICK m \in T : \A x \in T : m <= x
  BY LeastNumber
<1>2. m \in Nat /\ ~\E r : Keeping(seq, S, m, r)
  OBVIOUS
<1>3. CASE m = 0
  <2> DEFINE q == [k \in 0..0 |-> <<>>]
  <2>1. q = [k \in 0..0 |-> IF k = 0 THEN <<>> ELSE Step(seq, S, k, q[k - 1])]
    OBVIOUS
  <2>2. Keeping(seq, S, 0, q)
    BY <2>1 DEF Keeping
  <2> QED BY <1>2, <1>3, <2>2
<1>4. CASE m > 0
  <2>1. m - 1 \in Nat /\ m - 1 \notin T
    BY <1>1, <1>2, <1>4
  <2>2. PICK r : Keeping(seq, S, m - 1, r)
    BY <2>1
  <2>3. /\ r[0] = <<>>
        /\ \A k \in 0..(m - 1) : k > 0 => r[k] = Step(seq, S, k, r[k - 1])
    <3>1. Stepwise(seq, S, m - 1, r)
      BY <2>1, <2>2, ElementByElement
    <3> QED BY <3>1 DEF Stepwise
  <2> DEFINE q == [k \in 0..m |-> IF k < m THEN r[k] ELSE Step(seq, S, m, r[m - 1])]
  <2>4. ASSUME NEW k \in 0..m
        PROVE  q[k] = IF k = 0 THEN <<>> ELSE Step(seq, S, k, q[k - 1])
    <3>1. CASE k = 0
      BY <1>4, <2>3, <3>1
    <3>2. CASE k > 0
      <4>1. k - 1 \in 0..m /\ k - 1 < m /\ q[k - 1] = r[k - 1]
        BY <1>2, <3>2
      <4>2. q[k] = Step(seq, S, k, r[k - 1])
        <5>1. CASE k < m
          BY <1>2, <2>3, <3>2, <5>1
        <5>2. CASE k = m
          BY <1>2, <5>2
        <5> QED BY <1>2, <5>1, <5>2
      <4> QED BY <3>2, <4>1, <4>2
    <3> QED BY <1>2, <3>1, <3>2
  <2>5. q = [k \in 0..m |-> IF k = 0 THEN <<>> ELSE Step(seq, S, k, q[k - 1])]
    <3> DEFINE g == [k \in 0..m |-> IF k = 0 THEN <<>> ELSE Step(seq, S, k, q[k - 1])]
    <3>1. DOMAIN q = 0..m /\ DOMAIN g = 0..m /\ q = [k \in DOMAIN q |-> q[k]]
      OBVIOUS
    <3>2. \A k \in 0..m : q[k] = g[k]
      BY <2>4
    <3> HIDE DEF q
    <3> QED BY <3>1, <3>2
  <2>6. Keeping(seq, S, m, q)
    BY <2>5 DEF Keeping
  <2> QED BY <1>2, <2>6
<1> QED BY <1>2, <1>3, <1>4

\* Kept is the last of these.
LEMMA KeptIsLast ==
    ASSUME NEW seq, NEW S, Len(seq) \in Nat
    PROVE  \E r : Keeping(seq, S, Len(seq), r) /\ Kept(seq, S) = r[Len(seq)]
<1>1. \E r : Keeping(seq, S, Len(seq), r)
  BY KeepingExists
<1> QED BY <1>1 DEF Kept, Keeping, Step

\* What a sequence of kept elements has to do with the first k elements it was taken from.
Selection(new, seq, S, k) ==
    /\ \A i \in DOMAIN new : new[i] \in S
    /\ \E at \in [DOMAIN new -> 1..k] :
          /\ \A i \in DOMAIN new : new[i] = seq[at[i]]
          /\ \A i, j \in DOMAIN new : i < j => at[i] < at[j]
    /\ \A x \in 1..k : seq[x] \in S => \E i \in DOMAIN new : new[i] = seq[x]

\* An element more of the sequence is appended or left out.
LEMMA OneStep ==
    ASSUME NEW E, NEW seq \in Seq(E), NEW S, NEW k \in 1..Len(seq), NEW q \in Seq(E),
           Selection(q, seq, S, k - 1)
    PROVE  Step(seq, S, k, q) \in Seq(E) /\ Selection(Step(seq, S, k, q), seq, S, k)
<1>1. k \in Nat /\ k > 0 /\ seq[k] \in E /\ Len(q) \in Nat /\ DOMAIN q = 1..Len(q)
  BY LenProperties, ElementOfSeq
<1>2. PICK at \in [DOMAIN q -> 1..(k - 1)] :
          /\ \A i \in DOMAIN q : q[i] = seq[at[i]]
          /\ \A i, j \in DOMAIN q : i < j => at[i] < at[j]
  BY DEF Selection
<1>3. CASE seq[k] \notin S
  <2>1. Step(seq, S, k, q) = q
    BY <1>3 DEF Step
  <2>2. at \in [DOMAIN q -> 1..k]
    BY <1>1, <1>2
  <2>3. \A x \in 1..k : seq[x] \in S => \E i \in DOMAIN q : q[i] = seq[x]
    BY <1>1, <1>3 DEF Selection
  <2>4. \A i \in DOMAIN q : q[i] \in S
    BY DEF Selection
  <2>5. Selection(q, seq, S, k)
    BY <1>2, <2>2, <2>3, <2>4 DEF Selection
  <2> QED BY <2>1, <2>5
<1>4. CASE seq[k] \in S
  <2> DEFINE new == Append(q, seq[k])
             L == Len(q)
             f == [i \in 1..(L + 1) |-> IF i <= L THEN at[i] ELSE k]
  <2>1. /\ new \in Seq(E) /\ Len(new) = L + 1
        /\ \A i \in 1..L : new[i] = q[i]
        /\ new[L + 1] = seq[k]
    BY <1>1, AppendProperties
  <2>2. DOMAIN new = 1..(L + 1)
    BY <1>1, <2>1, LenProperties
  <2>3. Step(seq, S, k, q) = new
    BY <1>4 DEF Step
  <2> HIDE DEF new
  <2>4. \A i \in 1..(L + 1) : i \in 1..L \/ i = L + 1
    BY <1>1
  <2>5. \A i \in DOMAIN new : new[i] \in S
    BY <1>1, <1>4, <2>1, <2>2, <2>4 DEF Selection
  <2>6. f \in [DOMAIN new -> 1..k]
    <3>1. \A i \in 1..L : at[i] \in 1..(k - 1)
      BY <1>1, <1>2
    <3> QED BY <1>1, <2>2, <3>1
  <2>7. \A i \in DOMAIN new : new[i] = seq[f[i]]
    <3>1. ASSUME NEW i \in 1..L PROVE new[i] = seq[f[i]]
      <4>1. f[i] = at[i]
        BY <1>1
      <4>2. q[i] = seq[at[i]]
        BY <1>1, <1>2
      <4> QED BY <2>1, <4>1, <4>2
    <3>2. new[L + 1] = seq[f[L + 1]]
      BY <1>1, <2>1
    <3> QED BY <2>2, <2>4, <3>1, <3>2
  <2>8. \A i, j \in DOMAIN new : i < j => f[i] < f[j]
    <3> SUFFICES ASSUME NEW i \in 1..(L + 1), NEW j \in 1..(L + 1), i < j
                 PROVE  f[i] < f[j]
      BY <2>2
    <3>1. i \in 1..L /\ f[i] = at[i] /\ at[i] \in 1..(k - 1)
      BY <1>1, <1>2
    <3>2. CASE j \in 1..L
      <4>1. f[j] = at[j]
        BY <1>1, <3>2
      <4>2. at[i] < at[j]
        BY <1>1, <1>2, <3>1, <3>2
      <4> QED BY <3>1, <4>1, <4>2
    <3>3. CASE j = L + 1
      BY <1>1, <3>1, <3>3
    <3> QED BY <2>4, <3>2, <3>3
  <2>9. ASSUME NEW x \in 1..k, seq[x] \in S
        PROVE  \E i \in DOMAIN new : new[i] = seq[x]
    <3>1. CASE x = k
      BY SMTT(30), <1>1, <2>1, <2>2, <3>1
    <3>2. CASE x \in 1..(k - 1)
      <4>1. PICK i \in DOMAIN q : q[i] = seq[x]
        BY <2>9, <3>2 DEF Selection
      <4>2. i \in DOMAIN new /\ new[i] = seq[x]
        BY <1>1, <2>1, <2>2, <4>1
      <4> QED BY <4>2
    <3> QED BY <1>1, <3>1, <3>2
  <2> HIDE DEF f
  <2>10. Selection(new, seq, S, k)
    BY <2>5, <2>6, <2>7, <2>8, <2>9 DEF Selection
  <2> QED BY <2>1, <2>3, <2>10
<1> QED BY <1>3, <1>4

\* Kept takes the elements in S, in their order, and all of them.
LEMMA KeptSelects ==
    ASSUME NEW E, NEW seq \in Seq(E), NEW S
    PROVE  Kept(seq, S) \in Seq(E) /\ Selection(Kept(seq, S), seq, S, Len(seq))
<1>1. Len(seq) \in Nat
  BY LenProperties
<1>2. PICK r : Keeping(seq, S, Len(seq), r) /\ Kept(seq, S) = r[Len(seq)]
  BY <1>1, KeptIsLast
<1>3. r[0] = <<>> /\ \A k \in 0..Len(seq) : k > 0 => r[k] = Step(seq, S, k, r[k - 1])
  <2>1. Stepwise(seq, S, Len(seq), r)
    BY <1>1, <1>2, ElementByElement
  <2> QED BY <2>1 DEF Stepwise
<1> DEFINE Good(k) == r[k] \in Seq(E) /\ Selection(r[k], seq, S, k)
           T == {k \in 0..Len(seq) : ~Good(k)}
<1>4. Good(0)
  <2>1. <<>> \in Seq(E) /\ DOMAIN <<>> = {}
    BY EmptySeq, LenProperties
  <2>2. 1..0 = {}
    OBVIOUS
  <2>3. \E at : at \in [DOMAIN <<>> -> 1..0]
    <3> DEFINE f == [i \in DOMAIN <<>> |-> 1]
    <3>1. f \in [DOMAIN <<>> -> 1..0]
      BY <2>1
    <3> QED BY <3>1
  <2>4. Selection(<<>>, seq, S, 0)
    BY <2>1, <2>2, <2>3 DEF Selection
  <2> QED BY <1>3, <2>1, <2>4
<1>5. ASSUME NEW k \in 0..Len(seq), k > 0, Good(k - 1)
      PROVE  Good(k)
  <2>1. k \in 1..Len(seq) /\ r[k] = Step(seq, S, k, r[k - 1])
    BY <1>1, <1>3, <1>5
  <2> QED BY <1>5, <2>1, OneStep
<1>6. Good(Len(seq))
  <2> SUFFICES ASSUME T # {}
               PROVE  FALSE
    BY <1>1
  <2> HIDE DEF Good
  <2>1. T \subseteq Nat
    BY <1>1
  <2>2. PICK m \in T : \A x \in T : m <= x
    BY <2>1, LeastNumber
  <2>3. m \in 0..Len(seq) /\ ~Good(m)
    OBVIOUS
  <2>4. m # 0
    BY <1>4, <2>3
  <2>5. m > 0 /\ m - 1 \in 0..Len(seq) /\ m - 1 < m
    BY <1>1, <2>3, <2>4
  <2>6. m - 1 \notin T
    BY <2>2, <2>5
  <2>7. Good(m - 1)
    BY <2>5, <2>6
  <2> QED BY <1>5, <2>3, <2>5, <2>7
<1> QED BY <1>2, <1>6

(***************************************************************************)
(* Files and snapshots by name                                             *)
(***************************************************************************)
NamesOnce(seq) == \A i, j \in DOMAIN seq : seq[i].name = seq[j].name => i = j

\* Get returns an element that has the name.
LEMMA GetFinds ==
    ASSUME NEW seq, NEW name, Has(seq, name)
    PROVE  \E i \in DOMAIN seq : seq[i].name = name /\ Get(seq, name) = seq[i]
BY DEF Has, Get

\* Which elements are left without some names.
Left(new, seq, names) ==
    /\ \A i \in DOMAIN new : /\ new[i].name \notin names
                             /\ \E x \in DOMAIN seq : new[i] = seq[x]
    /\ \A x \in DOMAIN seq : seq[x].name \notin names => \E i \in DOMAIN new : new[i] = seq[x]
    /\ NamesOnce(seq) => NamesOnce(new)

\* Without takes exactly the named elements out.
LEMMA WithoutLeaves ==
    ASSUME NEW E, NEW seq \in Seq(E), NEW names
    PROVE  Without(seq, names) \in Seq(E) /\ Left(Without(seq, names), seq, names)
<1> DEFINE S == {e \in {seq[i] : i \in DOMAIN seq} : e.name \notin names}
           new == Kept(seq, S)
<1>1. new \in Seq(E) /\ Selection(new, seq, S, Len(seq))
  <2> HIDE DEF S
  <2> QED BY KeptSelects
<1>2. Without(seq, names) = new
  BY DEF Without
<1>3. DOMAIN seq = 1..Len(seq) /\ DOMAIN new = 1..Len(new) /\ Len(new) \in Nat
  BY <1>1, LenProperties
<1> HIDE DEF new
<1>4. PICK at \in [DOMAIN new -> 1..Len(seq)] :
          /\ \A i \in DOMAIN new : new[i] = seq[at[i]]
          /\ \A i, j \in DOMAIN new : i < j => at[i] < at[j]
  BY <1>1 DEF Selection
<1>5. \A i \in DOMAIN new : new[i] \in S
  BY <1>1 DEF Selection
<1>6. \A x \in DOMAIN seq : seq[x].name \notin names => \E i \in DOMAIN new : new[i] = seq[x]
  BY <1>1, <1>3 DEF Selection
<1>7. ASSUME NamesOnce(seq), NEW i \in DOMAIN new, NEW j \in DOMAIN new, new[i].name = new[j].name
      PROVE  i = j
  <2>1. at[i] \in 1..Len(seq) /\ at[j] \in 1..Len(seq) /\ seq[at[i]].name = seq[at[j]].name
    BY <1>4, <1>7
  <2>2. at[i] = at[j]
    BY <1>3, <1>7, <2>1 DEF NamesOnce
  <2>3. i \in Int /\ j \in Int
    BY <1>3
  <2>4. ~(i < j) /\ ~(j < i)
    BY <1>4, <2>1, <2>2
  <2> QED BY <2>3, <2>4
<1>8. Left(new, seq, names)
  BY <1>5, <1>6, <1>7 DEF Left, NamesOnce
<1> QED BY <1>1, <1>2, <1>8

\* An element with a new name at the end.
LEMMA AppendNamed ==
    ASSUME NEW E, NEW seq \in Seq(E), NEW e \in E, NamesOnce(seq),
           \A i \in DOMAIN seq : seq[i].name # e.name
    PROVE  /\ Append(seq, e) \in Seq(E) /\ NamesOnce(Append(seq, e))
           /\ Has(Append(seq, e), e.name) /\ Get(Append(seq, e), e.name) = e
           /\ \A i \in DOMAIN Append(seq, e) :
                 Append(seq, e)[i] = e \/ \E x \in DOMAIN seq : Append(seq, e)[i] = seq[x]
<1> DEFINE new == Append(seq, e)
<1>1. Len(seq) \in Nat /\ DOMAIN seq = 1..Len(seq)
  BY LenProperties
<1>2. /\ new \in Seq(E) /\ Len(new) = Len(seq) + 1
      /\ \A i \in 1..Len(seq) : new[i] = seq[i]
      /\ new[Len(seq) + 1] = e
  BY AppendProperties
<1>3. DOMAIN new = 1..(Len(seq) + 1)
  BY <1>2, LenProperties
<1> HIDE DEF new
<1>4. \A i \in 1..(Len(seq) + 1) : i \in 1..Len(seq) \/ i = Len(seq) + 1
  BY <1>1
<1>5. \A i \in DOMAIN new : new[i] = e \/ \E x \in DOMAIN seq : new[i] = seq[x]
  BY <1>1, <1>2, <1>3, <1>4
<1>6. NamesOnce(new)
  <2> SUFFICES ASSUME NEW i \in DOMAIN new, NEW j \in DOMAIN new, new[i].name = new[j].name
               PROVE  i = j
    BY DEF NamesOnce
  <2>1. CASE i \in 1..Len(seq) /\ j \in 1..Len(seq)
    BY <1>1, <1>2, <2>1 DEF NamesOnce
  <2>2. CASE i \in 1..Len(seq) /\ j = Len(seq) + 1
    BY <1>1, <1>2, <2>2
  <2>3. CASE i = Len(seq) + 1 /\ j \in 1..Len(seq)
    BY <1>1, <1>2, <2>3
  <2>4. CASE i = Len(seq) + 1 /\ j = Len(seq) + 1
    BY <2>4
  <2> QED BY <1>3, <1>4, <2>1, <2>2, <2>3, <2>4
<1>7. Len(seq) + 1 \in DOMAIN new
  BY <1>1, <1>3
<1>8. Has(new, e.name)
  BY <1>2, <1>7 DEF Has
<1>9. Get(new, e.name) = e
  <2>1. PICK i \in DOMAIN new : new[i].name = e.name /\ Get(new, e.name) = new[i]
    BY <1>8, GetFinds
  <2>2. i = Len(seq) + 1
    BY <1>2, <1>6, <1>7, <2>1 DEF NamesOnce
  <2> QED BY <1>2, <2>1, <2>2
<1> QED BY <1>2, <1>5, <1>6, <1>8, <1>9 DEF new

(***************************************************************************)
(* The invariant                                                           *)
(***************************************************************************)
File == [name : SnapNames, doc : Docs, whole : BOOLEAN]
Snapshot == [name : SnapNames, fs : Datasets]

\* Cache files: no two of one name.
GoodFiles(files) == files \in Seq(File) /\ NamesOnce(files)

GoodDataset(d) == d \in Datasets /\ GoodFiles(d.files)

\* The file of that name is there, with the whole DOC.
HasDoc(files, name) == Has(files, name) /\ Get(files, name).whole = TRUE

\* A snapshot holds its own file, and no two snapshots have one name.
GoodSnapshot(s) == GoodDataset(s.fs) /\ HasDoc(s.fs.files, s.name)
GoodSnaps(z) == z \in Seq(Snapshot) /\ NamesOnce(z) /\ \A i \in DOMAIN z : GoodSnapshot(z[i])

Stores == doc \in Docs /\ GoodFiles(tmp) /\ GoodDataset(fs) /\ GoodSnaps(zsnaps)

\* The loop has an element in hand, and the snapshot being taken is one of its two.
RunState ==
    /\ pc \in {"open", "dump", "zfs", "exec", "record"} => todo # <<>>
    /\ pc \in {"open", "dump", "zfs"} => snapshot_name \in SnapNames

\* When the ZFS snapshot is taken, the DOC has been dumped where it belongs.
Saved == pc = "zfs" => HasDoc(IF dataset THEN fs.files ELSE tmp, snapshot_name)

\* The variables that hold no DOC and no files.
Control ==
    /\ checkpoints \in Lists
    /\ completed \in [Names -> BOOLEAN]
    /\ data_cache_path \in [Names -> ({"dataset", "tmp"} \X SnapNames) \cup {None}]
    /\ zfs_snap \in [Names -> SnapNames \cup {None}]
    /\ dataset \in BOOLEAN /\ resume_ok \in BOOLEAN /\ zfs_modified \in BOOLEAN
    /\ client \in {"api", "fresh", "resume", "exited"}
    /\ pc \in {"idle", "top", "open", "dump", "zfs", "exec", "record"}
    /\ todo \in Seq(Names)
    /\ ok \in BOOLEAN /\ succeeded \in BOOLEAN
    /\ snapshot_name \in SnapNames \cup {None}
    /\ stop_on_error \in StopModes /\ unsaved \in UnsavedCounts
    /\ before \in [Names -> [doc : Docs, work : Seq(Effects)] \cup {None}]
    /\ runs \in 0..MaxRuns /\ restarts \in 0..MaxRestarts

SnapInv == Control /\ Stores /\ RunState /\ Saved

\* Writing a file replaces the one of that name and leaves the others alone.
LEMMA FileWritten ==
    ASSUME NEW files, GoodFiles(files), NEW f \in SnapNames, NEW d \in Docs, NEW w \in BOOLEAN
    PROVE  /\ GoodFiles(WriteFile(files, f, d, w))
           /\ w = TRUE => HasDoc(WriteFile(files, f, d, w), f)
<1> DEFINE e == [name |-> f, doc |-> d, whole |-> w]
           rest == Without(files, {f})
<1>1. files \in Seq(File) /\ NamesOnce(files)
  BY DEF GoodFiles
<1>2. e \in File /\ e.name = f /\ e.whole = w
  BY DEF File
<1>3. rest \in Seq(File) /\ Left(rest, files, {f})
  BY <1>1, WithoutLeaves
<1>4. WriteFile(files, f, d, w) = Append(rest, e)
  BY DEF WriteFile
<1> HIDE DEF rest, e
<1>5. NamesOnce(rest) /\ \A i \in DOMAIN rest : rest[i].name # e.name
  BY <1>1, <1>2, <1>3 DEF Left
<1>6. /\ Append(rest, e) \in Seq(File) /\ NamesOnce(Append(rest, e))
      /\ Has(Append(rest, e), e.name) /\ Get(Append(rest, e), e.name) = e
  BY <1>2, <1>3, <1>5, AppendNamed
<1> QED BY <1>2, <1>4, <1>6 DEF GoodFiles, HasDoc

\* A file that is found has the type of a file.
LEMMA FileFound ==
    ASSUME NEW files, GoodFiles(files), NEW f, Has(files, f)
    PROVE  Get(files, f) \in File /\ Get(files, f).doc \in Docs
<1>1. files \in Seq(File)
  BY DEF GoodFiles
<1>2. PICK i \in DOMAIN files : Get(files, f) = files[i]
  BY GetFinds
<1>3. files[i] \in File
  BY <1>1, <1>2, LenProperties, ElementOfSeq
<1> QED BY <1>2, <1>3 DEF File

\* A snapshot that is found is a good one.
LEMMA SnapshotFound ==
    ASSUME NEW z, GoodSnaps(z), NEW f, Has(z, f)
    PROVE  GoodSnapshot(Get(z, f))
BY GetFinds DEF GoodSnaps

\* Fewer snapshots are still good ones.
LEMMA FewerSnapshots ==
    ASSUME NEW z, GoodSnaps(z), NEW names
    PROVE  GoodSnaps(Without(z, names)) /\ \A s \in names : ~Has(Without(z, names), s)
<1>1. z \in Seq(Snapshot) /\ NamesOnce(z) /\ \A i \in DOMAIN z : GoodSnapshot(z[i])
  BY DEF GoodSnaps
<1> DEFINE new == Without(z, names)
<1>2. new \in Seq(Snapshot) /\ Left(new, z, names)
  BY <1>1, WithoutLeaves
<1> HIDE DEF new
<1>3. NamesOnce(new) /\ \A i \in DOMAIN new : GoodSnapshot(new[i])
  BY <1>1, <1>2 DEF Left
<1>4. \A s \in names : ~Has(new, s)
  BY <1>2 DEF Left, Has
<1> QED BY <1>2, <1>3, <1>4 DEF GoodSnaps, new

\* The snapshots up to a position are still good ones.
LEMMA EarlierSnapshots ==
    ASSUME NEW z, GoodSnaps(z), NEW k \in 0..Len(z)
    PROVE  GoodSnaps(SubSeq(z, 1, k))
<1>1. z \in Seq(Snapshot) /\ NamesOnce(z) /\ \A i \in DOMAIN z : GoodSnapshot(z[i])
  BY DEF GoodSnaps
<1>2. Len(z) \in Nat /\ DOMAIN z = 1..Len(z) /\ \A i \in 1..Len(z) : z[i] \in Snapshot
  BY <1>1, LenProperties, ElementOfSeq
<1> DEFINE new == SubSeq(z, 1, k)
<1>3. new \in Seq(Snapshot) /\ Len(new) = k /\ \A i \in 1..k : new[i] = z[i]
  <2>1. \A i \in 1..k : z[i] \in Snapshot
    BY <1>2
  <2> QED BY <1>2, <2>1, SubSeqProperties
<1>4. DOMAIN new = 1..k
  BY <1>3, LenProperties
<1> HIDE DEF new
<1>5. NamesOnce(new) /\ \A i \in DOMAIN new : GoodSnapshot(new[i])
  BY <1>1, <1>2, <1>3, <1>4 DEF NamesOnce
<1> QED BY <1>3, <1>5 DEF GoodSnaps, new

(***************************************************************************)
(* The operations                                                          *)
(***************************************************************************)
\* What the invariant says, in the form the steps below use it.
LEMMA Known ==
    ASSUME SnapInv
    PROVE  /\ Control /\ Stores /\ RunState /\ Saved
           /\ \A i \in DOMAIN checkpoints : checkpoints[i] \in Names
           /\ Len(checkpoints) \in Nat /\ DOMAIN checkpoints = 1..Len(checkpoints)
           /\ checkpoints \in Seq(Names)
           /\ todo # <<>> => Head(todo) \in Names /\ Tail(todo) \in Seq(Names)
<1>1. Control /\ Stores /\ RunState /\ Saved
  BY DEF SnapInv
<1>2. checkpoints \in Seq(Names)
  BY <1>1, ListsAssumption DEF Control
<1>3. Len(checkpoints) \in Nat /\ DOMAIN checkpoints = 1..Len(checkpoints)
  BY <1>2, LenProperties
<1>4. \A i \in DOMAIN checkpoints : checkpoints[i] \in Names
  BY <1>2, <1>3, ElementOfSeq
<1>5. todo # <<>> => Head(todo) \in Names /\ Tail(todo) \in Seq(Names)
  BY <1>1, HeadTailProperties DEF Control
<1> QED BY <1>1, <1>2, <1>3, <1>4, <1>5

\* A cache file's name.
LEMMA CacheFileType ==
    ASSUME NEW f \in SnapNames
    PROVE  CacheFile(f) \in {"dataset", "tmp"} \X SnapNames
BY DEF CacheFile

\* Rolling back leaves good files, a good dataset and good snapshots, if the rollback
\* does not raise; and CanRollback is all it needs.
LEMMA RollbackKeeps ==
    ASSUME SnapInv, NEW p \in DOMAIN checkpoints, NEW res, Rollback(p, res)
    PROVE  /\ doc' \in Docs /\ GoodDataset(fs') /\ GoodSnaps(zsnaps')
           /\ completed' \in [Names -> BOOLEAN]
<1>1. PICK src : src = RollbackSource(p, res)
  OBVIOUS
<1>2. /\ src.snap # None => Has(zsnaps, src.snap)
      /\ Has(FilesAfter(src), src.file[2])
      /\ fs' = RolledBackDataset(src)
      /\ zsnaps' = IF src.snap = None THEN zsnaps
                   ELSE SubSeq(zsnaps, 1, Position(zsnaps, src.snap))
      /\ doc' = Get(FilesAfter(src), src.file[2]).doc
      /\ completed' = RolledBack(checkpoints, completed, p)
  BY <1>1 DEF Rollback, CanRollback
<1>3. Stores /\ completed \in [Names -> BOOLEAN]
  BY DEF SnapInv, Control
<1>4. GoodDataset(fs')
  <2>1. CASE src.snap = None
    BY <1>2, <1>3, <2>1 DEF RolledBackDataset, Stores
  <2>2. CASE src.snap # None
    <3>1. GoodSnapshot(Get(zsnaps, src.snap))
      BY <1>2, <1>3, <2>2, SnapshotFound DEF Stores
    <3> QED BY <1>2, <2>2, <3>1 DEF RolledBackDataset, GoodSnapshot
  <2> QED BY <2>1, <2>2
<1>5. GoodFiles(FilesAfter(src))
  BY <1>2, <1>3, <1>4 DEF FilesAfter, GoodDataset, Stores
<1>6. doc' \in Docs
  BY <1>2, <1>5, FileFound
<1>7. GoodSnaps(zsnaps')
  <2>1. CASE src.snap = None
    BY <1>2, <1>3, <2>1 DEF Stores
  <2>2. CASE src.snap # None
    <3>1. GoodSnaps(zsnaps) /\ DOMAIN zsnaps = 1..Len(zsnaps) /\ Len(zsnaps) \in Nat
      BY <1>3, LenProperties DEF Stores, GoodSnaps
    <3>2. Position(zsnaps, src.snap) \in DOMAIN zsnaps
      BY <1>2, <2>2 DEF Position, Has
    <3>3. Position(zsnaps, src.snap) \in 0..Len(zsnaps)
      BY <3>1, <3>2
    <3> QED BY <1>2, <2>2, <3>1, <3>3, EarlierSnapshots
  <2> QED BY <2>1, <2>2
<1>8. completed' \in [Names -> BOOLEAN]
  <2>1. completed' = [n \in Names |->
            IF IsRegistered(checkpoints, n) THEN CpIndex(checkpoints, n) < p ELSE completed[n]]
    BY <1>2, <1>3 DEF RolledBack
  <2>2. ASSUME NEW n \in Names
        PROVE  (IF IsRegistered(checkpoints, n) THEN CpIndex(checkpoints, n) < p
                ELSE completed[n]) \in BOOLEAN
    <3>1. (CpIndex(checkpoints, n) < p) \in BOOLEAN
      OBVIOUS
    <3>2. completed[n] \in BOOLEAN
      BY <1>3
    <3> QED BY <3>1, <3>2
  <2> QED BY <2>1, <2>2
<1> QED BY <1>4, <1>6, <1>7, <1>8

\* Starting a run.
LEMMA StartRunKeeps ==
    ASSUME SnapInv, NEW p \in DOMAIN checkpoints, NEW pause \in 1..(Len(checkpoints) + 1), NEW done,
           MayStart, StartRun(p, pause, done)
    PROVE  /\ pc' \in {"idle", "top"} /\ todo' \in Seq(Names)
           /\ ok' \in BOOLEAN /\ succeeded' \in BOOLEAN /\ runs' \in 0..MaxRuns
<1>1. checkpoints \in Seq(Names) /\ Len(checkpoints) \in Nat
      /\ \A i \in 1..Len(checkpoints) : checkpoints[i] \in Names
      /\ p \in 1..Len(checkpoints)
  BY Known
<1>2. SubSeq(checkpoints, p, pause - 1) \in Seq(Names)
  <2>1. \A i \in p..(pause - 1) : checkpoints[i] \in Names
    BY <1>1
  <2>2. p \in Int /\ pause - 1 \in Int
    BY <1>1
  <2> QED BY <2>1, <2>2, SubSeqProperties
<1>3. todo' \in {ExecList(checkpoints, p, pause), <<>>}
  BY DEF StartRun
<1>4. todo' \in Seq(Names)
  BY <1>2, <1>3, EmptySeq DEF ExecList
<1>5. runs' \in 0..MaxRuns
  BY BoundsAssumption DEF StartRun, MayStart, SnapInv, Control
<1>6. pc' \in {"idle", "top"} /\ ok' \in BOOLEAN /\ succeeded' \in BOOLEAN
  BY DEF StartRun
<1> QED BY <1>4, <1>5, <1>6

\* The invariant where no file changes and no snapshot is being taken.
LEMMA RunStarted ==
    ASSUME Control', Stores', pc' \in {"idle", "top"}
    PROVE  SnapInv'
BY DEF SnapInv, RunState, Saved

\* execute_checkpoints and resume_execute_checkpoints.
LEMMA StartsKeep ==
    ASSUME SnapInv, NEW p \in DOMAIN checkpoints, NEW pause \in 1..(Len(checkpoints) + 1),
           ExecuteNext(pause) \/ ExecuteFrom(p, pause) \/ Resume(p, pause), UNCHANGED choiceVars
    PROVE  SnapInv'
<1>1. Control /\ Stores
  BY DEF SnapInv
<1>2. CASE ExecuteNext(pause)
  <2>1. PICK q \in DOMAIN checkpoints : StartRun(q, pause, completed)
    BY <1>2 DEF ExecuteNext
  <2>2. /\ pc' \in {"idle", "top"} /\ todo' \in Seq(Names)
        /\ ok' \in BOOLEAN /\ succeeded' \in BOOLEAN /\ runs' \in 0..MaxRuns
    BY <1>2, <2>1, StartRunKeeps DEF ExecuteNext
  <2>3. UNCHANGED <<processVars, fs, zsnaps, snapshot_name, before, restarts>>
    BY <1>2 DEF ExecuteNext
  <2>4. Control'
    BY <1>1, <2>2, <2>3 DEF Control, processVars, choiceVars
  <2>5. Stores'
    BY <1>1, <2>3 DEF Stores, processVars
  <2> QED BY <2>2, <2>4, <2>5, RunStarted
<1>3. CASE ExecuteFrom(p, pause)
  <2>1. /\ doc' \in Docs /\ GoodDataset(fs') /\ GoodSnaps(zsnaps')
        /\ completed' \in [Names -> BOOLEAN]
    BY <1>3, RollbackKeeps DEF ExecuteFrom
  <2>2. /\ pc' \in {"idle", "top"} /\ todo' \in Seq(Names)
        /\ ok' \in BOOLEAN /\ succeeded' \in BOOLEAN /\ runs' \in 0..MaxRuns
    BY <1>3, StartRunKeeps DEF ExecuteFrom
  <2>3. UNCHANGED <<checkpoints, data_cache_path, zfs_snap, dataset, tmp,
                    resume_ok, zfs_modified, client, snapshot_name, before, restarts>>
    BY <1>3 DEF ExecuteFrom
  <2>4. Control'
    BY <1>1, <2>1, <2>2, <2>3 DEF Control, choiceVars
  <2>5. Stores'
    BY <1>1, <2>1, <2>3 DEF Stores
  <2> QED BY <2>2, <2>4, <2>5, RunStarted
<1>4. CASE Resume(p, pause)
  <2>1. /\ doc' \in Docs /\ GoodDataset(fs') /\ GoodSnaps(zsnaps')
        /\ completed' \in [Names -> BOOLEAN]
    <3>1. CASE UNCHANGED <<fs, zsnaps, doc, completed>>
      BY <1>1, <3>1 DEF Control, Stores
    <3>2. CASE Rollback(p, Resumable)
      BY <3>2, RollbackKeeps
    <3> QED BY <1>4, <3>1, <3>2 DEF Resume
  <2>2. /\ pc' \in {"idle", "top"} /\ todo' \in Seq(Names)
        /\ ok' \in BOOLEAN /\ succeeded' \in BOOLEAN /\ runs' \in 0..MaxRuns
    BY <1>4, StartRunKeeps DEF Resume
  <2>3. /\ resume_ok' = FALSE
        /\ UNCHANGED <<checkpoints, data_cache_path, zfs_snap, dataset, tmp,
                       zfs_modified, client, snapshot_name, before, restarts>>
    BY <1>4 DEF Resume
  <2>4. Control'
    BY <1>1, <2>1, <2>2, <2>3 DEF Control, choiceVars
  <2>5. Stores'
    BY <1>1, <2>1, <2>3 DEF Stores
  <2> QED BY <2>2, <2>4, <2>5, RunStarted
<1> QED BY <1>2, <1>3, <1>4

\* The two names of a checkpoint's snapshots.
LEMMA SnapshotNames ==
    ASSUME NEW n \in Names
    PROVE  Pre(n) \in SnapNames /\ Completed(n) \in SnapNames
BY DEF Pre, Completed, SnapNames

\* The turn of a checkpoint comes.
LEMMA TakeTurnKeeps ==
    ASSUME SnapInv, TakeTurn, UNCHANGED choiceVars
    PROVE  SnapInv'
<1>1. Control /\ Stores /\ Head(todo) \in Names /\ todo # <<>>
  BY Known DEF TakeTurn
<1>2. UNCHANGED <<processVars, fs, zsnaps, todo, ok, succeeded, runs, restarts>>
  BY DEF TakeTurn
<1>3. \/ pc' = "open" /\ snapshot_name' = Pre(Head(todo))
      \/ pc' = "exec" /\ UNCHANGED snapshot_name
  BY DEF TakeTurn
<1>4. Pre(Head(todo)) \in SnapNames
  BY <1>1, SnapshotNames
<1>5. before' \in [Names -> [doc : Docs, work : Seq(Effects)] \cup {None}]
  <2>1. doc \in Docs /\ fs.work \in Seq(Effects)
    BY <1>1 DEF Stores, GoodDataset, Datasets
  <2>2. [doc |-> doc, work |-> fs.work] \in [doc : Docs, work : Seq(Effects)]
    BY <2>1
  <2> QED BY <1>1, <2>2 DEF TakeTurn, Control
<1>6. Control'
  BY <1>1, <1>2, <1>3, <1>4, <1>5 DEF Control, processVars, choiceVars
<1>7. Stores'
  BY <1>1, <1>2 DEF Stores, processVars
<1>8. RunState' /\ Saved'
  BY <1>1, <1>2, <1>3, <1>4 DEF RunState, Saved
<1> QED BY <1>6, <1>7, <1>8 DEF SnapInv

\* Writing the DOC to its file, empty or whole.
LEMMA SaveDocKeeps ==
    ASSUME SnapInv, NEW f \in SnapNames, NEW d \in Docs, NEW w \in BOOLEAN, SaveDoc(f, d, w)
    PROVE  /\ GoodFiles(tmp') /\ GoodDataset(fs')
           /\ w = TRUE => HasDoc(IF dataset THEN fs'.files ELSE tmp', f)
<1>1. GoodFiles(tmp) /\ GoodDataset(fs)
  BY DEF SnapInv, Stores
<1>2. CASE dataset
  <2> DEFINE new == WriteFile(fs.files, f, d, w)
  <2>1. fs' = [fs EXCEPT !.files = new] /\ tmp' = tmp
    BY <1>2 DEF SaveDoc
  <2>2. GoodFiles(new) /\ (w = TRUE => HasDoc(new, f))
    BY <1>1, FileWritten DEF GoodDataset
  <2> HIDE DEF new
  <2>3. fs'.files = new /\ fs' \in Datasets
    <3>1. fs \in [work : Seq(Effects), files : Seq(File)] /\ new \in Seq(File)
      BY <1>1, <2>2 DEF GoodDataset, Datasets, Files, File, GoodFiles
    <3>2. fs' \in [work : Seq(Effects), files : Seq(File)] /\ fs'.files = new
      BY <2>1, <3>1
    <3> QED BY <3>2 DEF Datasets, Files, File
  <2> QED BY <1>1, <1>2, <2>1, <2>2, <2>3 DEF GoodDataset
<1>3. CASE ~dataset
  <2>1. fs' = fs /\ tmp' = WriteFile(tmp, f, d, w)
    BY <1>3 DEF SaveDoc
  <2>2. GoodFiles(tmp') /\ (w = TRUE => HasDoc(tmp', f))
    BY <1>1, <2>1, FileWritten
  <2> QED BY <1>1, <1>3, <2>1, <2>2
<1> QED BY <1>2, <1>3

\* The empty tree.
LEMMA EmptyTypes ==
    /\ EmptyDoc \in Docs
    /\ GoodDataset(EmptyDataset) /\ GoodFiles(<<>>) /\ GoodSnaps(<<>>)
<1>1. \A S : <<>> \in Seq(S)
  BY EmptySeq
<1>2. DOMAIN <<>> = {}
  BY <1>1, LenProperties
<1>3. EmptyDoc \in Docs
  BY <1>1 DEF EmptyDoc, Docs
<1>4. GoodFiles(<<>>) /\ GoodSnaps(<<>>)
  BY <1>1, <1>2 DEF GoodFiles, GoodSnaps, NamesOnce
<1>5. EmptyDataset \in Datasets /\ EmptyDataset.files = <<>>
  BY <1>1 DEF EmptyDataset, Datasets, Files
<1> QED BY <1>3, <1>4, <1>5 DEF GoodDataset

\* take_snapshot truncates the file, and then writes it.
LEMMA CacheKeeps ==
    ASSUME SnapInv, OpenCacheFile \/ DumpCache, UNCHANGED choiceVars
    PROVE  SnapInv'
<1>1. Control /\ Stores /\ RunState
  BY DEF SnapInv
<1>2. snapshot_name \in SnapNames /\ todo # <<>>
  BY <1>1 DEF RunState, OpenCacheFile, DumpCache
<1>3. CASE OpenCacheFile
  <2>1. SaveDoc(snapshot_name, EmptyDoc, FALSE) /\ pc' = "dump"
        /\ UNCHANGED <<checkpoints, completed, data_cache_path, zfs_snap, doc,
                   dataset, resume_ok, zfs_modified, client, zsnaps, todo, ok,
                   succeeded, snapshot_name, before, runs, restarts>>
    BY <1>3 DEF OpenCacheFile
  <2>2. GoodFiles(tmp') /\ GoodDataset(fs')
    BY <1>2, <2>1, SaveDocKeeps, EmptyTypes
  <2>3. Control'
    BY <1>1, <2>1 DEF Control, choiceVars
  <2>4. Stores'
    BY <1>1, <2>1, <2>2 DEF Stores
  <2>5. RunState' /\ Saved'
    BY <1>2, <2>1 DEF RunState, Saved
  <2> QED BY <2>3, <2>4, <2>5 DEF SnapInv
<1>4. CASE DumpCache
  <2>1. SaveDoc(snapshot_name, doc, TRUE) /\ pc' = "zfs"
        /\ UNCHANGED <<checkpoints, completed, zfs_snap, doc, dataset, resume_ok,
                   zfs_modified, client, zsnaps, todo, ok, succeeded,
                   snapshot_name, before, runs, restarts>>
    BY <1>4 DEF DumpCache
  <2>2. GoodFiles(tmp') /\ GoodDataset(fs')
        /\ HasDoc(IF dataset THEN fs'.files ELSE tmp', snapshot_name)
    BY <1>1, <1>2, <2>1, SaveDocKeeps DEF Stores
  <2>3. data_cache_path' \in [Names -> ({"dataset", "tmp"} \X SnapNames) \cup {None}]
    <3>1. CacheFile(snapshot_name) \in {"dataset", "tmp"} \X SnapNames
      BY <1>2, CacheFileType
    <3> QED BY <1>1, <1>4, <3>1 DEF DumpCache, Control
  <2>4. Control'
    BY <1>1, <2>1, <2>3 DEF Control, choiceVars
  <2>5. Stores'
    BY <1>1, <2>1, <2>2 DEF Stores
  <2>6. RunState' /\ Saved'
    BY <1>2, <2>1, <2>2 DEF RunState, Saved
  <2> QED BY <2>4, <2>5, <2>6 DEF SnapInv
<1> QED BY <1>3, <1>4

\* After the snapshot the loop goes on with an element in hand or at its top.
LEMMA AfterSnapshotKeeps ==
    ASSUME SnapInv, pc = "zfs", AfterSnapshot
    PROVE  /\ pc' \in {"exec", "top"} /\ todo' \in Seq(Names)
           /\ pc' = "exec" => todo' # <<>>
<1>1. Control /\ todo # <<>> /\ Tail(todo) \in Seq(Names)
  BY Known DEF RunState
<1> QED BY <1>1 DEF AfterSnapshot, Control

\* The name under which the snapshot is recorded.
LEMMA RecordZfsSnapKeeps ==
    ASSUME SnapInv, NEW snap \in SnapNames \cup {None}, RecordZfsSnap(snap)
    PROVE  zfs_snap' \in [Names -> SnapNames \cup {None}]
<1>1. zfs_snap \in [Names -> SnapNames \cup {None}]
  BY DEF SnapInv, Control
<1> QED BY <1>1 DEF RecordZfsSnap

\* Filesystem.snapshot: the old one is destroyed, and the new one holds the file that
\* was just written.
LEMMA ZfsKeeps ==
    ASSUME SnapInv, DestroyOldSnapshot \/ CreateSnapshot \/ NoZfsSnapshot, UNCHANGED choiceVars
    PROVE  SnapInv'
<1>1. Control /\ Stores /\ RunState /\ Saved /\ pc = "zfs"
  BY DEF SnapInv, DestroyOldSnapshot, CreateSnapshot, NoZfsSnapshot
<1>2. snapshot_name \in SnapNames /\ todo # <<>>
  BY <1>1 DEF RunState
<1>3. CASE DestroyOldSnapshot
  <2>1. zsnaps' = Without(zsnaps, {snapshot_name})
        /\ UNCHANGED <<processVars, fs, runVars, before, runs, restarts>>
    BY <1>3 DEF DestroyOldSnapshot
  <2>2. GoodSnaps(zsnaps')
    BY <1>1, <2>1, FewerSnapshots DEF Stores
  <2>3. Control'
    BY <1>1, <2>1 DEF Control, processVars, runVars, choiceVars
  <2>4. Stores'
    BY <1>1, <2>1, <2>2 DEF Stores, processVars
  <2>5. RunState' /\ Saved'
    BY <1>1, <2>1 DEF RunState, Saved, runVars, processVars
  <2> QED BY <2>3, <2>4, <2>5 DEF SnapInv
<1>4. CASE CreateSnapshot
  <2> DEFINE s == [name |-> snapshot_name, fs |-> fs]
  <2>1. /\ dataset /\ ~Has(zsnaps, snapshot_name)
        /\ zsnaps' = Append(zsnaps, s)
        /\ RecordZfsSnap(snapshot_name) /\ zfs_modified' = TRUE /\ AfterSnapshot
        /\ UNCHANGED <<checkpoints, completed, data_cache_path, doc, dataset, tmp,
                   resume_ok, client, fs, ok, succeeded, snapshot_name, before,
                   runs, restarts>>
    BY <1>4 DEF CreateSnapshot
  <2>2. s \in Snapshot /\ s.name = snapshot_name /\ s.fs = fs
    BY <1>1, <1>2 DEF Snapshot, Stores, GoodDataset
  <2>3. GoodSnapshot(s)
    BY <1>1, <2>1, <2>2 DEF GoodSnapshot, Stores, Saved
  <2>4. zsnaps \in Seq(Snapshot) /\ NamesOnce(zsnaps) /\ \A i \in DOMAIN zsnaps : GoodSnapshot(zsnaps[i])
    BY <1>1 DEF Stores, GoodSnaps
  <2>5. \A i \in DOMAIN zsnaps : zsnaps[i].name # s.name
    BY <2>1, <2>2 DEF Has
  <2> HIDE DEF s
  <2>6. /\ Append(zsnaps, s) \in Seq(Snapshot) /\ NamesOnce(Append(zsnaps, s))
        /\ \A i \in DOMAIN Append(zsnaps, s) :
              Append(zsnaps, s)[i] = s \/ \E x \in DOMAIN zsnaps : Append(zsnaps, s)[i] = zsnaps[x]
    BY <2>2, <2>4, <2>5, AppendNamed
  <2>7. GoodSnaps(zsnaps')
    BY <2>1, <2>3, <2>4, <2>6 DEF GoodSnaps
  <2>8. pc' \in {"exec", "top"} /\ todo' \in Seq(Names) /\ (pc' = "exec" => todo' # <<>>)
    BY <1>1, <2>1, AfterSnapshotKeeps
  <2>9. zfs_snap' \in [Names -> SnapNames \cup {None}]
    BY <1>2, <2>1, RecordZfsSnapKeeps
  <2>10. Control'
    BY <1>1, <2>1, <2>8, <2>9 DEF Control, choiceVars
  <2>11. Stores'
    BY <1>1, <2>1, <2>7 DEF Stores
  <2>12. RunState' /\ Saved'
    BY <2>8 DEF RunState, Saved
  <2> QED BY <2>10, <2>11, <2>12 DEF SnapInv
<1>5. CASE NoZfsSnapshot
  <2>1. /\ RecordZfsSnap(None) /\ AfterSnapshot
        /\ UNCHANGED <<checkpoints, completed, data_cache_path, doc, dataset, tmp,
                   resume_ok, zfs_modified, client, fs, zsnaps, ok, succeeded,
                   snapshot_name, before, runs, restarts>>
    BY <1>5 DEF NoZfsSnapshot
  <2>2. pc' \in {"exec", "top"} /\ todo' \in Seq(Names) /\ (pc' = "exec" => todo' # <<>>)
    BY <1>1, <2>1, AfterSnapshotKeeps
  <2>3. zfs_snap' \in [Names -> SnapNames \cup {None}]
    BY <2>1, RecordZfsSnapKeeps
  <2>4. Control'
    BY <1>1, <2>1, <2>2, <2>3 DEF Control, choiceVars
  <2>5. Stores'
    BY <1>1, <2>1 DEF Stores
  <2>6. RunState' /\ Saved'
    BY <2>2 DEF RunState, Saved
  <2> QED BY <2>4, <2>5, <2>6 DEF SnapInv
<1> QED BY <1>3, <1>4, <1>5

\* The end of a run, with or without the work of a checkpoint that failed.
LEMMA EndRunKeeps ==
    ASSUME SnapInv, NEW success, EndRun(success), UNCHANGED <<completed, tmp>>,
           succeeded' \in BOOLEAN, doc' \in Docs, GoodDataset(fs'), UNCHANGED choiceVars
    PROVE  SnapInv'
<1>1. Control /\ Stores
  BY DEF SnapInv
<1>2. /\ pc' = "idle" /\ todo' = <<>>
      /\ client' \in {client, "exited"}
      /\ UNCHANGED <<checkpoints, data_cache_path, zfs_snap, dataset, resume_ok,
                     zfs_modified, zsnaps, ok, snapshot_name, before, runs, restarts>>
  BY DEF EndRun
<1>3. todo' \in Seq(Names)
  BY <1>2, EmptySeq
<1>4. Control'
  BY <1>1, <1>2, <1>3 DEF Control, choiceVars
<1>5. Stores'
  BY <1>1, <1>2 DEF Stores
<1> QED BY <1>2, <1>4, <1>5, RunStarted

\* What a checkpoint does to the DOC and to the dataset.
LEMMA DoWorkKeeps ==
    ASSUME SnapInv, NEW n \in Names, NEW good \in BOOLEAN, DoWork(n, good)
    PROVE  doc' \in Docs /\ GoodDataset(fs')
<1>1. doc \in Docs /\ GoodDataset(fs) /\ dataset \in BOOLEAN
  BY DEF SnapInv, Stores, Control
<1>2. PICK e : e = Effect(n, good)
  OBVIOUS
<1>3. e \in Effects
  BY <1>1, <1>2 DEF Effect, Effects
<1>4. doc.work \in Seq(Effects) /\ fs.work \in Seq(Effects)
  BY <1>1 DEF Docs, GoodDataset, Datasets
<1>5. Append(doc.work, e) \in Seq(Effects) /\ Append(fs.work, e) \in Seq(Effects)
  BY <1>3, <1>4, AppendProperties
<1>6. doc' = [doc EXCEPT !.work = Append(doc.work, e)]
      /\ fs' \in {fs, [fs EXCEPT !.work = Append(fs.work, e)]}
  BY <1>2 DEF DoWork
<1>7. doc' \in Docs
  BY <1>1, <1>5, <1>6 DEF Docs
<1>8. fs' \in Datasets /\ fs'.files = fs.files
  BY <1>1, <1>5, <1>6 DEF GoodDataset, Datasets
<1> QED BY <1>1, <1>7, <1>8 DEF GoodDataset

\* The checkpoint is executed, and its result recorded.
LEMMA ExecutionKeeps ==
    ASSUME SnapInv, UNCHANGED choiceVars,
           \/ ExecuteSucceeds \/ ExecuteFailsAndStops \/ ExecuteFailsAndContinues
           \/ RecordCompletion
    PROVE  SnapInv'
<1>1. Control /\ Stores /\ todo # <<>>
  BY DEF SnapInv, RunState, ExecuteSucceeds, ExecuteFailsAndStops, ExecuteFailsAndContinues,
         RecordCompletion
<1>2. Head(todo) \in Names /\ Tail(todo) \in Seq(Names)
  BY <1>1, Known
<1>3. CASE ExecuteSucceeds \/ ExecuteFailsAndContinues
  <2>1. doc' \in Docs /\ GoodDataset(fs')
    BY <1>2, <1>3, DoWorkKeeps DEF ExecuteSucceeds, ExecuteFailsAndContinues
  <2>2. /\ pc' = "record" /\ succeeded' \in BOOLEAN /\ ok' \in {ok, FALSE}
        /\ UNCHANGED <<checkpoints, completed, data_cache_path, zfs_snap, dataset,
                   tmp, resume_ok, zfs_modified, client, zsnaps, todo,
                   snapshot_name, before, runs, restarts>>
    BY <1>3 DEF ExecuteSucceeds, ExecuteFailsAndContinues
  <2>3. Control'
    BY <1>1, <2>2 DEF Control, choiceVars
  <2>4. Stores'
    BY <1>1, <2>1, <2>2 DEF Stores
  <2>5. RunState' /\ Saved'
    BY <1>1, <2>2 DEF RunState, Saved
  <2> QED BY <2>3, <2>4, <2>5 DEF SnapInv
<1>4. CASE ExecuteFailsAndStops
  <2>1. doc' \in Docs /\ GoodDataset(fs')
    BY <1>2, <1>4, DoWorkKeeps DEF ExecuteFailsAndStops
  <2>2. EndRun(FALSE) /\ succeeded' = FALSE /\ UNCHANGED <<completed, tmp>>
    BY <1>4 DEF ExecuteFailsAndStops
  <2> QED BY <2>1, <2>2, EndRunKeeps
<1>5. CASE RecordCompletion
  <2>1. /\ \/ pc' = "open" /\ snapshot_name' = Completed(Head(todo)) /\ UNCHANGED todo
           \/ pc' = "top" /\ todo' = Tail(todo) /\ UNCHANGED snapshot_name
        /\ UNCHANGED <<checkpoints, data_cache_path, zfs_snap, dataset, tmp,
                   resume_ok, zfs_modified, client, fs, zsnaps, ok, succeeded,
                   before, runs, restarts>>
    BY <1>5 DEF RecordCompletion
  <2>2. Completed(Head(todo)) \in SnapNames
    BY <1>2, SnapshotNames
  <2>3. completed' \in [Names -> BOOLEAN]
    BY <1>1, <1>5 DEF RecordCompletion, Control
  <2>4. doc' \in Docs
    <3>1. doc \in Docs /\ doc.done \in Seq(Names)
      BY <1>1 DEF Stores, Docs
    <3>2. Append(doc.done, Head(todo)) \in Seq(Names)
      BY <1>2, <3>1, AppendProperties
    <3>3. doc' = [doc EXCEPT !.done = Append(doc.done, Head(todo))]
      BY <1>5 DEF RecordCompletion
    <3> QED BY <3>1, <3>2, <3>3 DEF Docs
  <2>5. Control'
    BY <1>1, <1>2, <2>1, <2>2, <2>3 DEF Control, choiceVars
  <2>6. Stores'
    BY <1>1, <2>1, <2>4 DEF Stores
  <2>7. RunState' /\ Saved'
    BY <1>1, <2>1, <2>2 DEF RunState, Saved
  <2> QED BY <2>5, <2>6, <2>7 DEF SnapInv
<1> QED BY <1>3, <1>4, <1>5

\* Setting the dataset and cleaning up, between runs.
LEMMA BetweenRunsKeep ==
    ASSUME SnapInv, SetDataset \/ CleanupCheckpoints, UNCHANGED choiceVars
    PROVE  SnapInv'
<1>1. Control /\ Stores
  BY DEF SnapInv
<1>2. CASE SetDataset
  <2>1. /\ pc = "idle" /\ dataset' = TRUE
        /\ UNCHANGED <<checkpoints, completed, data_cache_path, zfs_snap, doc, tmp,
                   resume_ok, zfs_modified, client, fs, zsnaps, runVars,
                   before, runs, restarts>>
    BY <1>2 DEF SetDataset
  <2>2. Control' /\ pc' = "idle"
    BY <1>1, <2>1 DEF Control, runVars, choiceVars
  <2>3. Stores'
    BY <1>1, <2>1 DEF Stores
  <2> QED BY <2>2, <2>3, RunStarted
<1>3. CASE CleanupCheckpoints
  <2>1. /\ pc = "idle" /\ tmp' = <<>>
        /\ zsnaps' \in {zsnaps, Without(zsnaps, RegisteredSnapshots)}
        /\ completed' = [n \in Names |-> completed[n] /\ ~IsRegistered(checkpoints, n)]
        /\ UNCHANGED <<checkpoints, data_cache_path, zfs_snap, doc, dataset,
                   resume_ok, zfs_modified, client, fs, runVars, before, runs,
                   restarts>>
    BY <1>3 DEF CleanupCheckpoints
  <2>2. completed' \in [Names -> BOOLEAN]
    <3>1. \A n \in Names : (completed[n] /\ ~IsRegistered(checkpoints, n)) \in BOOLEAN
      OBVIOUS
    <3> QED BY <2>1, <3>1
  <2>3. GoodSnaps(zsnaps')
    BY <1>1, <2>1, FewerSnapshots DEF Stores
  <2>4. Control' /\ pc' = "idle"
    BY <1>1, <2>1, <2>2 DEF Control, runVars, choiceVars
  <2>5. Stores'
    BY <1>1, <2>1, <2>3, EmptyTypes DEF Stores
  <2> QED BY <2>4, <2>5, RunStarted
<1> QED BY <1>2, <1>3

\* A new process, after the old one ended or was killed.
LEMMA RestartKeeps ==
    ASSUME SnapInv, NEW list \in Lists, NEW mode \in {"api", "fresh", "resume"},
           Restart(list, mode), UNCHANGED choiceVars
    PROVE  SnapInv'
<1>1. Control /\ Stores
  BY DEF SnapInv
<1>2. /\ checkpoints' = list /\ completed' = NotCompleted
      /\ data_cache_path' = NoSnapshots /\ zfs_snap' = NoSnapshots
      /\ doc' = EmptyDoc /\ dataset' = FALSE /\ tmp' = <<>>
      /\ resume_ok' = TRUE /\ zfs_modified' = FALSE /\ client' = mode
      /\ pc' = "idle" /\ todo' = <<>> /\ ok' = TRUE /\ succeeded' = FALSE
      /\ snapshot_name' = None
      /\ before' = [n \in Names |-> None]
      /\ restarts' = restarts + 1 /\ restarts < MaxRestarts
      /\ UNCHANGED runs
  BY DEF Restart
<1>3. \/ fs' = EmptyDataset /\ zsnaps' = <<>>
      \/ UNCHANGED <<fs, zsnaps>>
  BY DEF Restart
<1>4. todo' \in Seq(Names)
  BY <1>2, EmptySeq
<1>5. restarts' \in 0..MaxRestarts
  BY <1>1, <1>2, BoundsAssumption DEF Control
<1>6. Control'
  BY <1>1, <1>2, <1>4, <1>5 DEF Control, NotCompleted, NoSnapshots, choiceVars
<1>7. Stores'
  BY <1>1, <1>2, <1>3, EmptyTypes DEF Stores
<1> QED BY <1>2, <1>6, <1>7, RunStarted

(***************************************************************************)
(* The theorems                                                            *)
(***************************************************************************)
\* Nothing is saved at first.
LEMMA InitSnaps == Init => SnapInv
<1> SUFFICES ASSUME Init
             PROVE  SnapInv
  OBVIOUS
<1>1. <<>> \in Seq(Names) /\ 0 \in 0..MaxRuns /\ 0 \in 0..MaxRestarts
  BY EmptySeq, BoundsAssumption
<1>2. Control
  BY <1>1 DEF Init, Control, NotCompleted, NoSnapshots
<1>3. Stores
  BY EmptyTypes DEF Init, Stores
<1>4. RunState /\ Saved
  BY DEF Init, RunState, Saved
<1> QED BY <1>2, <1>3, <1>4 DEF SnapInv

\* Every step keeps the invariant.
LEMMA NextSnaps == SnapInv /\ [Next /\ UNCHANGED choiceVars]_vars => SnapInv'
<1> SUFFICES ASSUME SnapInv, [Next /\ UNCHANGED choiceVars]_vars
             PROVE  SnapInv'
  OBVIOUS
<1>1. CASE UNCHANGED vars
  <2>1. UNCHANGED <<checkpoints, completed, data_cache_path, zfs_snap, doc, dataset, tmp,
                    resume_ok, zfs_modified, client, fs, zsnaps, pc, todo, ok, succeeded,
                    snapshot_name, stop_on_error, unsaved, before, runs, restarts>>
    BY <1>1 DEF vars, processVars, runVars, choiceVars
  <2>2. Control'
    BY <2>1 DEF SnapInv, Control
  <2>3. Stores' /\ RunState' /\ Saved'
    BY <2>1 DEF SnapInv, Stores, RunState, Saved
  <2> QED BY <2>2, <2>3 DEF SnapInv
<1>2. CASE Next /\ UNCHANGED choiceVars
  <2>1. CASE SetDataset \/ CleanupCheckpoints
    BY <1>2, <2>1, BetweenRunsKeep
  <2>2. ASSUME NEW pause \in 1..(Len(checkpoints) + 1), ExecuteNext(pause)
        PROVE  SnapInv'
    <3>1. PICK p \in DOMAIN checkpoints : StartRun(p, pause, completed)
      BY <2>2 DEF ExecuteNext
    <3> QED BY <1>2, <2>2, <3>1, StartsKeep
  <2>3. ASSUME NEW pause \in 1..(Len(checkpoints) + 1), NEW p \in DOMAIN checkpoints,
               ExecuteFrom(p, pause) \/ Resume(p, pause)
        PROVE  SnapInv'
    BY <1>2, <2>3, StartsKeep
  <2>4. CASE TakeTurn
    BY <1>2, <2>4, TakeTurnKeeps
  <2>5. CASE OpenCacheFile \/ DumpCache
    BY <1>2, <2>5, CacheKeeps
  <2>6. CASE DestroyOldSnapshot \/ CreateSnapshot \/ NoZfsSnapshot
    BY <1>2, <2>6, ZfsKeeps
  <2>7. CASE SnapshotRaises \/ FinishRun \/ CancelRun
    <3>1. /\ EndRun(FALSE) \/ EndRun(ok)
          /\ UNCHANGED <<completed, doc, tmp, fs, succeeded>>
      BY <2>7 DEF SnapshotRaises, FinishRun, CancelRun
    <3>2. succeeded' \in BOOLEAN /\ doc' \in Docs /\ GoodDataset(fs')
      BY <3>1 DEF SnapInv, Control, Stores
    <3> QED BY <1>2, <3>1, <3>2, EndRunKeeps
  <2>8. CASE ExecuteSucceeds \/ ExecuteFailsAndStops \/ ExecuteFailsAndContinues
             \/ RecordCompletion
    BY <1>2, <2>8, ExecutionKeeps
  <2>9. CASE \E list \in Lists, mode \in {"api", "fresh", "resume"} : Restart(list, mode)
    BY <1>2, <2>9, RestartKeeps
  <2> QED BY <1>2, <2>1, <2>2, <2>3, <2>4, <2>5, <2>6, <2>7, <2>8, <2>9 DEF Next
<1> QED BY <1>1, <1>2

\* The invariant, for every application and whatever is killed.
LEMMA SnapInvariant == Spec => []SnapInv
<1>1. Init => SnapInv
  BY InitSnaps
<1>2. SnapInv /\ [Next /\ UNCHANGED choiceVars]_vars => SnapInv'
  BY NextSnaps
<1> QED BY <1>1, <1>2, PTL DEF Spec

\* What the engine saves and restores keeps its types: a DOC read back from a file is one,
\* also from the files a killed process has left.
THEOREM SnapshotTypes == Spec => []TypeOK
<1>1. SnapInv => TypeOK
  <2> SUFFICES ASSUME SnapInv
               PROVE  TypeOK
    OBVIOUS
  <2>1. Control /\ Stores
    BY DEF SnapInv
  <2>2. tmp \in Files /\ fs \in Datasets /\ zsnaps \in Seq([name : SnapNames, fs : Datasets])
        /\ doc \in Docs
    BY <2>1 DEF Stores, GoodFiles, GoodDataset, GoodSnaps, File, Files, Snapshot
  <2> QED BY <2>1, <2>2 DEF Control, TypeOK
<1> QED BY <1>1, SnapInvariant, PTL

\* A ZFS snapshot always contains the cache file of its own name with a whole DOC, for
\* every application and wherever it is killed: zfs rollback never leaves a dataset whose
\* DOC cannot be loaded.
THEOREM SnapshotsHoldTheirDocs == Spec => []SnapshotHoldsItsDoc
<1>1. SnapInv => SnapshotHoldsItsDoc
  BY DEF SnapInv, Stores, GoodSnaps, GoodSnapshot, HasDoc, SnapshotHoldsItsDoc
<1> QED BY <1>1, SnapInvariant, PTL

(***************************************************************************)
(* What Kept returns                                                       *)
(***************************************************************************)
\* Two sequences, or functions, that have the same first elements.
SameUpTo(s, t, n) == \A k \in 1..n : s[k] = t[k]
SameFromNothing(s, t, n) == \A k \in 0..n : s[k] = t[k]

\* Two ways to keep elements agree as long as the sequences do.
LEMMA KeepingAgrees ==
    ASSUME NEW s1, NEW s2, NEW S, NEW n1 \in Nat, NEW n2 \in Nat, n1 <= n2, NEW r1, NEW r2,
           Keeping(s1, S, n1, r1), Keeping(s2, S, n2, r2), SameUpTo(s1, s2, n1)
    PROVE  SameFromNothing(r1, r2, n1)
<1>1. Stepwise(s1, S, n1, r1) /\ Stepwise(s2, S, n2, r2)
  BY ElementByElement
<1>2. /\ r1[0] = <<>> /\ \A k \in 0..n1 : k > 0 => r1[k] = Step(s1, S, k, r1[k - 1])
      /\ r2[0] = <<>> /\ \A k \in 0..n2 : k > 0 => r2[k] = Step(s2, S, k, r2[k - 1])
  BY <1>1 DEF Stepwise
<1> DEFINE T == {k \in 0..n1 : r1[k] # r2[k]}
<1> SUFFICES ASSUME T # {}
             PROVE  FALSE
  BY DEF SameFromNothing
<1>3. T \subseteq Nat
  OBVIOUS
<1>4. PICK m \in T : \A x \in T : m <= x
  BY <1>3, LeastNumber
<1>5. m \in 0..n1 /\ r1[m] # r2[m]
  OBVIOUS
<1>6. m > 0 /\ m \in 0..n2 /\ m \in 1..n1 /\ m - 1 \in 0..n1 /\ m - 1 < m
  BY <1>2, <1>5
<1>7. r1[m - 1] = r2[m - 1]
  BY <1>4, <1>6
<1>8. r1[m] = Step(s1, S, m, r1[m - 1]) /\ r2[m] = Step(s2, S, m, r2[m - 1])
  BY <1>2, <1>5, <1>6
<1>9. s1[m] = s2[m]
  BY <1>6 DEF SameUpTo
<1> QED BY <1>5, <1>7, <1>8, <1>9 DEF Step

\* Nothing is kept of nothing.
LEMMA KeptOfNothing ==
    ASSUME NEW S
    PROVE  Kept(<<>>, S) = <<>>
<1>1. Len(<<>>) = 0
  BY EmptySeq
<1>2. PICK r : Keeping(<<>>, S, Len(<<>>), r) /\ Kept(<<>>, S) = r[Len(<<>>)]
  BY <1>1, KeptIsLast
<1>3. Stepwise(<<>>, S, 0, r)
  BY <1>1, <1>2, ElementByElement
<1> QED BY <1>1, <1>2, <1>3 DEF Stepwise

\* An element more.
LEMMA KeptOfAppend ==
    ASSUME NEW E, NEW seq \in Seq(E), NEW e \in E, NEW S
    PROVE  Kept(Append(seq, e), S) = IF e \in S THEN Append(Kept(seq, S), e) ELSE Kept(seq, S)
<1> DEFINE n == Len(seq)
           new == Append(seq, e)
<1>1. n \in Nat
  BY LenProperties
<1>2. Len(new) = n + 1 /\ (\A k \in 1..n : new[k] = seq[k]) /\ new[n + 1] = e
  BY AppendProperties
<1> HIDE DEF new
<1>3. PICK r : Keeping(seq, S, n, r) /\ Kept(seq, S) = r[n]
  BY <1>1, KeptIsLast
<1>4. Len(new) \in Nat
  BY <1>1, <1>2
<1>5. PICK q : Keeping(new, S, Len(new), q) /\ Kept(new, S) = q[Len(new)]
  BY <1>4, KeptIsLast
<1> HIDE DEF n
<1>6. Keeping(new, S, n + 1, q) /\ Kept(new, S) = q[n + 1]
  BY <1>2, <1>5
<1>7. \A k \in 0..n : r[k] = q[k]
  <2>1. SameUpTo(seq, new, n)
    BY <1>2 DEF SameUpTo
  <2>2. n + 1 \in Nat /\ n <= n + 1
    BY <1>1
  <2>3. SameFromNothing(r, q, n)
    BY <1>1, <1>3, <1>6, <2>1, <2>2, KeepingAgrees
  <2> QED BY <2>3 DEF SameFromNothing
<1>8. Stepwise(new, S, n + 1, q)
  BY <1>1, <1>6, ElementByElement
<1>9. q[n + 1] = Step(new, S, n + 1, q[n])
  <2>1. n + 1 \in 0..(n + 1) /\ n + 1 > 0 /\ (n + 1) - 1 = n
    BY <1>1
  <2>2. q[n + 1] = Step(new, S, n + 1, q[(n + 1) - 1])
    BY <1>8, <2>1 DEF Stepwise
  <2> QED BY <2>1, <2>2
<1>10. q[n] = Kept(seq, S)
  BY <1>1, <1>3, <1>7
<1> QED BY <1>2, <1>6, <1>9, <1>10 DEF Step, new

\* All elements are kept when all are in the set.
LEMMA KeptWhole ==
    ASSUME NEW E, NEW seq \in Seq(E), NEW S, \A k \in 1..Len(seq) : seq[k] \in S
    PROVE  Kept(seq, S) = seq
<1> DEFINE n == Len(seq)
<1>1. n \in Nat /\ \A k \in 1..n : seq[k] \in E
  BY LenProperties, ElementOfSeq
<1>2. PICK r : Keeping(seq, S, n, r) /\ Kept(seq, S) = r[n]
  BY <1>1, KeptIsLast
<1>3. r[0] = <<>> /\ \A k \in 0..n : k > 0 => r[k] = Step(seq, S, k, r[k - 1])
  <2>1. Stepwise(seq, S, n, r)
    BY <1>1, <1>2, ElementByElement
  <2> QED BY <2>1 DEF Stepwise
<1> DEFINE Same(k) == r[k] \in Seq(E) /\ Len(r[k]) = k /\ \A x \in 1..k : r[k][x] = seq[x]
           T == {k \in 0..n : ~Same(k)}
<1>4. Same(0)
  BY <1>3, EmptySeq
<1>5. ASSUME NEW k \in 0..n, k > 0, Same(k - 1)
      PROVE  Same(k)
  <2>1. k \in 1..n
    BY <1>1, <1>5
  <2>2. r[k] = Append(r[k - 1], seq[k])
    BY <1>3, <1>5, <2>1 DEF Step
  <2>3. seq[k] \in E
    BY <1>1, <2>1
  <2>4. /\ r[k] \in Seq(E) /\ Len(r[k]) = Len(r[k - 1]) + 1
        /\ \A x \in 1..Len(r[k - 1]) : r[k][x] = r[k - 1][x]
        /\ r[k][Len(r[k - 1]) + 1] = seq[k]
    BY <1>5, <2>2, <2>3, AppendProperties
  <2>5. Len(r[k]) = k /\ r[k][k] = seq[k]
    BY <1>1, <1>5, <2>4
  <2>6. ASSUME NEW x \in 1..k PROVE r[k][x] = seq[x]
    <3>1. CASE x = k
      BY <2>5, <3>1
    <3>2. CASE x \in 1..(k - 1)
      BY <1>5, <2>4, <3>2
    <3> QED BY <1>1, <3>1, <3>2
  <2> QED BY <2>4, <2>5, <2>6
<1>6. Same(n)
  <2> SUFFICES ASSUME T # {}
               PROVE  FALSE
    BY <1>1
  <2> HIDE DEF Same
  <2>1. T \subseteq Nat
    BY <1>1
  <2>2. PICK m \in T : \A x \in T : m <= x
    BY <2>1, LeastNumber
  <2>3. m \in 0..n /\ ~Same(m)
    OBVIOUS
  <2>4. m # 0
    BY <1>4, <2>3
  <2>5. m > 0 /\ m - 1 \in 0..n /\ m - 1 < m
    BY <1>1, <2>3, <2>4
  <2>6. Same(m - 1)
    BY <2>2, <2>5
  <2> QED BY <1>5, <2>3, <2>5, <2>6
<1>7. r[n] = seq
  BY <1>1, <1>6, SeqEqual
<1> QED BY <1>2, <1>7

\* Destroying the newest snapshot leaves the ones before it.
LEMMA WithoutNewest ==
    ASSUME NEW E, NEW z \in Seq(E), NamesOnce(z), Len(z) > 0
    PROVE  Without(z, {z[Len(z)].name}) = SubSeq(z, 1, Len(z) - 1)
<1> DEFINE n == Len(z)
           names == {z[n].name}
           S == {e \in {z[i] : i \in DOMAIN z} : e.name \notin names}
           front == SubSeq(z, 1, n - 1)
<1>1. n \in Nat /\ DOMAIN z = 1..n /\ \A k \in 1..n : z[k] \in E
  BY LenProperties, ElementOfSeq
<1>2. front \in Seq(E) /\ Len(front) = n - 1 /\ \A k \in 1..(n - 1) : front[k] = z[k]
  <2>1. \A k \in 1..(n - 1) : z[k] \in E
    BY <1>1
  <2> QED BY <1>1, <2>1, SubSeqProperties
<1>3. z[n] \in E
  BY <1>1
<1> HIDE DEF front
<1>4. z = Append(front, z[n])
  <2> DEFINE a1 == Append(front, z[n])
  <2>1. a1 \in Seq(E) /\ Len(a1) = (n - 1) + 1 /\ (\A k \in 1..(n - 1) : a1[k] = front[k]) /\ a1[(n - 1) + 1] = z[n]
    BY <1>2, <1>3, AppendProperties
  <2>2. (n - 1) + 1 = n /\ \A k \in 1..n : k \in 1..(n - 1) \/ k = n
    <3> HIDE DEF n
    <3> QED BY <1>1
  <2> HIDE DEF a1
  <2>3. Len(a1) = n /\ \A k \in 1..n : a1[k] = z[k]
    BY <1>2, <2>1, <2>2
  <2>4. a1 = z
    BY <2>1, <2>3, SeqEqual
  <2> QED BY <2>4 DEF a1
<1>5. \A k \in 1..(n - 1) : z[k] \in S
  BY <1>1 DEF NamesOnce
<1>6. z[n] \notin S
  OBVIOUS
<1>7. Without(z, names) = Kept(z, S)
  BY DEF Without
<1> HIDE DEF S
<1>8. Kept(front, S) = front
  <2>1. \A k \in 1..Len(front) : front[k] \in S
    BY <1>2, <1>5
  <2> QED BY <1>2, <2>1, KeptWhole
<1>9. Kept(Append(front, z[n]), S) = Kept(front, S)
  BY <1>2, <1>3, <1>6, KeptOfAppend
<1> QED BY <1>4, <1>7, <1>8, <1>9 DEF front

(***************************************************************************)
(* The snapshots in the order of a list                                    *)
(***************************************************************************)
\* The first k checkpoints of list l have each been executed once, with success.
CleanDoc(e, l, k) ==
    /\ Len(e.done) = k /\ SameUpTo(e.done, l, k)
    /\ Len(e.work) = k /\ \A i \in 1..k : e.work[i].cp = l[i] /\ e.work[i].good = TRUE

\* A snapshot of that name, whose cache file and dataset are those of the first m
\* checkpoints of l.
Point(s, name, l, m) ==
    /\ s.name = name
    /\ CleanDoc(Get(s.fs.files, name).doc, l, m)
    /\ s.fs.work = OnDataset(Get(s.fs.files, name).doc.work)

PrePoint(z, l, u, i) ==
    u + i <= Len(l) /\ Point(z[2 * i - 1], Pre(l[u + i]), l, u + i - 1)
CompletedPoint(z, l, u, i) == Point(z[2 * i], Completed(l[u + i]), l, u + i)

\* The snapshots are the first ones that executing l, with the dataset from checkpoint
\* number u + 1 on, takes.
Timed(z, l, u) ==
    \A i \in 1..Len(z) : /\ 2 * i - 1 <= Len(z) => PrePoint(z, l, u, i)
                         /\ 2 * i <= Len(z) => CompletedPoint(z, l, u, i)

\* A position is that of a first or of a second snapshot.
LEMMA EvenOrOdd ==
    ASSUME NEW x \in Nat, x > 0
    PROVE  \E i \in 1..x : x = 2 * i - 1 \/ x = 2 * i
<1> DEFINE i == (x + 1) \div 2
<1>1. i \in Nat /\ (x + 1 = 2 * i \/ x + 1 = 2 * i + 1)
  OBVIOUS
<1> HIDE DEF i
<1>2. i \in 1..x /\ (x = 2 * i - 1 \/ x = 2 * i)
  BY <1>1
<1> QED BY <1>2

\* Two snapshots for each of e checkpoints, or one more.
LEMMA OddCount ==
    ASSUME NEW n \in Nat, NEW e \in Int, NEW i \in Int, i = e + 1, n = 2 * e \/ n = 2 * e + 1,
           2 * i - 1 <= n
    PROVE  n = 2 * e + 1 /\ n = 2 * i - 1
OBVIOUS

\* Such a number of snapshots is that of the p - 1 - u checkpoints, or one more.
LEMMA AheadCount ==
    ASSUME NEW p \in Int, NEW u \in Int, NEW n \in Int, n = 2 * (p - u) - 1 \/ n = 2 * (p - u) - 2
    PROVE  n - 2 * ((p - 1) - u) \in {0, 1}
OBVIOUS

\* The two names of a checkpoint's snapshots, and what they are the names of.
LEMMA NamesDiffer ==
    ASSUME NEW n, NEW m
    PROVE  /\ Pre(n) # Completed(m)
           /\ Pre(n) = Pre(m) => n = m
           /\ Completed(n) = Completed(m) => n = m
           /\ Pre(n)[1] = n /\ Pre(n)[2] = "pre"
           /\ Completed(n)[1] = n /\ Completed(n)[2] = "completed"
BY DEF Pre, Completed

\* The snapshots up to a position.
LEMMA TimedPrefix ==
    ASSUME NEW z, GoodSnaps(z), NEW l, NEW u \in Nat, Timed(z, l, u), NEW k \in 0..Len(z)
    PROVE  Timed(SubSeq(z, 1, k), l, u) /\ Len(SubSeq(z, 1, k)) = k
<1> DEFINE new == SubSeq(z, 1, k)
<1>1. Len(z) \in Nat
  BY LenProperties DEF GoodSnaps
<1>2. Len(new) = k /\ \A i \in 1..k : new[i] = z[i]
  <2>1. \A i \in 1..k : z[i] \in Snapshot
    BY <1>1, ElementOfSeq DEF GoodSnaps
  <2> QED BY <1>1, <2>1, SubSeqProperties
<1> HIDE DEF new
<1>3. Timed(new, l, u)
  <2> SUFFICES ASSUME NEW i \in 1..k
               PROVE  /\ 2 * i - 1 <= k => PrePoint(new, l, u, i)
                      /\ 2 * i <= k => CompletedPoint(new, l, u, i)
    BY <1>2 DEF Timed
  <2>1. i \in 1..Len(z)
    BY <1>1
  <2>2. ASSUME 2 * i - 1 <= k PROVE PrePoint(new, l, u, i)
    <3>1. 2 * i - 1 \in 1..k /\ 2 * i - 1 <= Len(z)
      BY <1>1, <2>2
    <3>2. new[2 * i - 1] = z[2 * i - 1] /\ PrePoint(z, l, u, i)
      BY <1>2, <2>1, <3>1 DEF Timed
    <3> QED BY <3>2 DEF PrePoint
  <2>3. ASSUME 2 * i <= k PROVE CompletedPoint(new, l, u, i)
    <3>1. 2 * i \in 1..k /\ 2 * i <= Len(z)
      BY <1>1, <2>3
    <3>2. new[2 * i] = z[2 * i] /\ CompletedPoint(z, l, u, i)
      BY <1>2, <2>1, <3>1 DEF Timed
    <3> QED BY <3>2 DEF CompletedPoint
  <2> QED BY <2>2, <2>3
<1> QED BY <1>2, <1>3 DEF new

\* The DOC of the first checkpoints of a list is that of a list that starts alike.
LEMMA CleanDocOther ==
    ASSUME NEW e, NEW l, NEW m, NEW k \in Nat, NEW p \in Nat, k <= p, SameUpTo(l, m, p),
           CleanDoc(e, l, k)
    PROVE  CleanDoc(e, m, k)
<1>1. \A i \in 1..k : l[i] = m[i]
  BY DEF SameUpTo
<1> QED BY <1>1 DEF CleanDoc, SameUpTo

\* The snapshots of the first checkpoints belong to any list that starts alike.
LEMMA TimedOther ==
    ASSUME NEW z, Len(z) \in Nat, NEW l, NEW m, NEW u \in Nat, Timed(z, l, u),
           NEW p \in Nat, SameUpTo(l, m, p), Len(m) \in Nat, p <= Len(m), Len(z) <= 2 * (p - u)
    PROVE  Timed(z, m, u)
<1> SUFFICES ASSUME NEW i \in 1..Len(z)
             PROVE  /\ 2 * i - 1 <= Len(z) => PrePoint(z, m, u, i)
                    /\ 2 * i <= Len(z) => CompletedPoint(z, m, u, i)
  BY DEF Timed
<1>1. ASSUME 2 * i - 1 <= Len(z) PROVE PrePoint(z, m, u, i)
  <2>1. PrePoint(z, l, u, i)
    BY <1>1 DEF Timed
  <2>2. u + i \in 1..p /\ u + i <= Len(m) /\ u + i - 1 \in Nat /\ u + i - 1 <= p
    BY <1>1
  <2>3. l[u + i] = m[u + i]
    BY <2>2 DEF SameUpTo
  <2>4. CleanDoc(Get(z[2 * i - 1].fs.files, Pre(l[u + i])).doc, l, u + i - 1)
    BY <2>1 DEF PrePoint, Point
  <2>5. CleanDoc(Get(z[2 * i - 1].fs.files, Pre(l[u + i])).doc, m, u + i - 1)
    BY <2>2, <2>4, CleanDocOther
  <2> QED BY <2>1, <2>2, <2>3, <2>5 DEF PrePoint, Point
<1>2. ASSUME 2 * i <= Len(z) PROVE CompletedPoint(z, m, u, i)
  <2>1. CompletedPoint(z, l, u, i)
    BY <1>2 DEF Timed
  <2>2. u + i \in 1..p /\ u + i \in Nat /\ u + i <= p
    BY <1>2
  <2>3. l[u + i] = m[u + i]
    BY <2>2 DEF SameUpTo
  <2>4. CleanDoc(Get(z[2 * i].fs.files, Completed(l[u + i])).doc, l, u + i)
    BY <2>1 DEF CompletedPoint, Point
  <2>5. CleanDoc(Get(z[2 * i].fs.files, Completed(l[u + i])).doc, m, u + i)
    BY <2>2, <2>4, CleanDocOther
  <2> QED BY <2>1, <2>3, <2>5 DEF CompletedPoint, Point
<1> QED BY <1>1, <1>2

\* A snapshot more, the next one of the list.
LEMMA TimedAppend ==
    ASSUME NEW z, GoodSnaps(z), NEW s \in Snapshot, NEW l, NEW u \in Nat, Timed(z, l, u), NEW i \in Nat, i > 0,
           \/ /\ Len(z) + 1 = 2 * i - 1
              /\ u + i <= Len(l) /\ Point(s, Pre(l[u + i]), l, u + i - 1)
           \/ /\ Len(z) + 1 = 2 * i
              /\ Point(s, Completed(l[u + i]), l, u + i)
    PROVE  Timed(Append(z, s), l, u) /\ Len(Append(z, s)) = Len(z) + 1
<1> DEFINE new == Append(z, s)
           n == Len(z)
<1>1. n \in Nat
  BY LenProperties DEF GoodSnaps
<1>2. Len(new) = n + 1 /\ (\A k \in 1..n : new[k] = z[k]) /\ new[n + 1] = s
  BY AppendProperties DEF GoodSnaps
<1> HIDE DEF new, n
<1>3. Timed(new, l, u)
  <2> SUFFICES ASSUME NEW x \in 1..(n + 1)
               PROVE  /\ 2 * x - 1 <= n + 1 => PrePoint(new, l, u, x)
                      /\ 2 * x <= n + 1 => CompletedPoint(new, l, u, x)
    BY <1>2 DEF Timed
  <2>1. ASSUME 2 * x - 1 <= n PROVE PrePoint(new, l, u, x)
    <3>1. 2 * x - 1 \in 1..n /\ x \in 1..n
      BY <1>1, <2>1
    <3>2. new[2 * x - 1] = z[2 * x - 1]
      BY <1>2, <3>1
    <3>3. PrePoint(z, l, u, x)
      BY <2>1, <3>1 DEF Timed, n
    <3> QED BY <3>2, <3>3 DEF PrePoint
  <2>2. ASSUME 2 * x <= n PROVE CompletedPoint(new, l, u, x)
    <3>1. 2 * x \in 1..n /\ x \in 1..n
      BY <1>1, <2>2
    <3>2. new[2 * x] = z[2 * x]
      BY <1>2, <3>1
    <3>3. CompletedPoint(z, l, u, x)
      BY <2>2, <3>1 DEF Timed, n
    <3> QED BY <3>2, <3>3 DEF CompletedPoint
  <2>3. ASSUME 2 * x - 1 = n + 1 PROVE PrePoint(new, l, u, x)
    <3>1. n + 1 # 2 * i
      BY <2>3
    <3>2. n + 1 = 2 * i - 1 /\ u + i <= Len(l) /\ Point(s, Pre(l[u + i]), l, u + i - 1)
      BY <3>1 DEF n
    <3>3. x = i
      BY <2>3, <3>2
    <3>4. new[2 * x - 1] = s
      BY <1>2, <2>3
    <3> QED BY <3>2, <3>3, <3>4 DEF PrePoint
  <2>4. ASSUME 2 * x = n + 1 PROVE CompletedPoint(new, l, u, x)
    <3>1. n + 1 # 2 * i - 1
      BY <2>4
    <3>2. n + 1 = 2 * i /\ Point(s, Completed(l[u + i]), l, u + i)
      BY <3>1 DEF n
    <3>3. x = i
      BY <2>4, <3>2
    <3>4. new[2 * x] = s
      BY <1>2, <2>4
    <3> QED BY <3>2, <3>3, <3>4 DEF CompletedPoint
  <2> QED BY <1>1, <2>1, <2>2, <2>3, <2>4
<1> QED BY <1>2, <1>3 DEF new, n

\* Where the snapshot of a name is.
LEMMA FoundAt ==
    ASSUME NEW z, GoodSnaps(z), NEW x \in 1..Len(z), NEW name, z[x].name = name
    PROVE  Has(z, name) /\ Get(z, name) = z[x] /\ Position(z, name) = x
<1>1. DOMAIN z = 1..Len(z) /\ NamesOnce(z)
  BY LenProperties DEF GoodSnaps
<1>2. Has(z, name)
  BY <1>1 DEF Has
<1>3. \A i \in DOMAIN z : z[i].name = name => i = x
  BY <1>1 DEF NamesOnce
<1>4. (CHOOSE i \in DOMAIN z : z[i].name = name) = x
  BY <1>1, <1>3
<1> QED BY <1>2, <1>4 DEF Get, Position

\* A first snapshot is at an odd position, that of its checkpoint in the list.
PreFoundAt(z, l, u, n, i) ==
    /\ 2 * i - 1 <= Len(z) /\ u + i <= Len(l) /\ l[u + i] = n
    /\ Get(z, Pre(n)) = z[2 * i - 1] /\ Position(z, Pre(n)) = 2 * i - 1
    /\ Point(z[2 * i - 1], Pre(n), l, u + i - 1)

\* Every first snapshot that is found is at such a position.
LEMMA PreFound ==
    ASSUME NEW z, GoodSnaps(z), NEW l, NEW u \in Nat, Timed(z, l, u), NEW n, Has(z, Pre(n))
    PROVE  \E i \in 1..Len(z) : PreFoundAt(z, l, u, n, i)
<1>1. DOMAIN z = 1..Len(z) /\ Len(z) \in Nat
  BY LenProperties DEF GoodSnaps
<1>2. PICK x \in 1..Len(z) : z[x].name = Pre(n)
  BY <1>1 DEF Has
<1>3. PICK i \in 1..x : x = 2 * i - 1 \/ x = 2 * i
  <2>1. x \in Nat /\ x > 0
    BY <1>1
  <2> QED BY <2>1, EvenOrOdd
<1>4. i \in 1..Len(z)
  BY <1>1
<1>5. x # 2 * i
  <2> SUFFICES ASSUME x = 2 * i
               PROVE  FALSE
    OBVIOUS
  <2>1. CompletedPoint(z, l, u, i)
    BY <1>1, <1>4 DEF Timed
  <2> QED BY <1>2, <2>1, NamesDiffer DEF CompletedPoint, Point
<1>6. x = 2 * i - 1 /\ PrePoint(z, l, u, i)
  BY <1>1, <1>3, <1>4, <1>5 DEF Timed
<1>7. l[u + i] = n
  BY <1>2, <1>6, NamesDiffer DEF PrePoint, Point
<1>8. Get(z, Pre(n)) = z[x] /\ Position(z, Pre(n)) = x
  BY <1>2, FoundAt
<1>9. PreFoundAt(z, l, u, n, i)
  BY <1>1, <1>6, <1>7, <1>8 DEF PreFoundAt, PrePoint
<1> QED BY <1>4, <1>9

\* A second one is at an even position.
CompletedFoundAt(z, l, u, n, i) ==
    /\ 2 * i <= Len(z) /\ u + i <= Len(l) /\ l[u + i] = n
    /\ Get(z, Completed(n)) = z[2 * i] /\ Position(z, Completed(n)) = 2 * i
    /\ Point(z[2 * i], Completed(n), l, u + i)

\* Every second snapshot that is found is at such a position.
LEMMA CompletedFound ==
    ASSUME NEW z, GoodSnaps(z), NEW l, NEW u \in Nat, Timed(z, l, u), NEW n, Has(z, Completed(n))
    PROVE  \E i \in 1..Len(z) : CompletedFoundAt(z, l, u, n, i)
<1>1. DOMAIN z = 1..Len(z) /\ Len(z) \in Nat
  BY LenProperties DEF GoodSnaps
<1>2. PICK x \in 1..Len(z) : z[x].name = Completed(n)
  BY <1>1 DEF Has
<1>3. PICK i \in 1..x : x = 2 * i - 1 \/ x = 2 * i
  <2>1. x \in Nat /\ x > 0
    BY <1>1
  <2> QED BY <2>1, EvenOrOdd
<1>4. i \in 1..Len(z) /\ 2 * i - 1 <= Len(z)
  BY <1>1, <1>3
<1>5. PrePoint(z, l, u, i)
  BY <1>4 DEF Timed
<1>6. x # 2 * i - 1
  BY <1>2, <1>5, NamesDiffer DEF PrePoint, Point
<1>7. x = 2 * i /\ CompletedPoint(z, l, u, i)
  BY <1>1, <1>3, <1>4, <1>6 DEF Timed
<1>8. l[u + i] = n
  BY <1>2, <1>7, NamesDiffer DEF CompletedPoint, Point
<1>9. Get(z, Completed(n)) = z[x] /\ Position(z, Completed(n)) = x
  BY <1>2, FoundAt
<1>10. CompletedFoundAt(z, l, u, n, i)
  BY <1>1, <1>5, <1>7, <1>8, <1>9 DEF CompletedFoundAt, CompletedPoint, PrePoint
<1> QED BY <1>4, <1>10

(***************************************************************************)
(* The invariant of distro_const                                           *)
(***************************************************************************)
\* distro_const, stopping at the first failure, with lists that change as it allows.
ResumingClient == DistroConst = TRUE /\ StopModes = {TRUE} /\ SamePredecessors

\* How many checkpoints the DOC says were executed.
Executed == Len(doc.done)

\* They are the first ones of the list, and the completed ones.
Flags ==
    /\ Executed <= Len(checkpoints)
    /\ SameUpTo(doc.done, checkpoints, Executed)
    /\ \A i \in DOMAIN checkpoints : completed[checkpoints[i]] <=> i <= Executed

\* The dataset is set when the checkpoints that run without it are completed, and a
\* process that was told to resume does nothing with the dataset before it resumes.
Phases ==
    /\ ok = TRUE /\ client # "api"
    /\ resume_ok = FALSE => dataset = TRUE
    /\ dataset = TRUE => Executed >= unsaved
    /\ dataset = FALSE => Executed <= unsaved
    /\ client = "exited" => pc = "idle"
    /\ (client = "resume" /\ resume_ok = TRUE /\ dataset = TRUE) => pc = "idle" /\ Executed = unsaved

Saving == pc \in {"open", "dump", "zfs"}
AfterWork == Saving /\ snapshot_name[2] = "completed"

\* The position of the checkpoint in hand.
Turn == IF AfterWork THEN Executed ELSE Executed + 1

\* The last checkpoint a run may reach.
Reach == IF dataset = TRUE THEN Len(checkpoints) ELSE unsaved

\* The rest of the run is a part of the list, from there on.
Loop == pc # "idle" =>
    /\ Turn > 0
    /\ Turn + Len(todo) - 1 <= Reach
    /\ \A j \in 1..Len(todo) : todo[j] = checkpoints[Turn + (j - 1)]
    /\ Saving => snapshot_name[1] = Head(todo)
    /\ pc = "record" => succeeded = TRUE

\* The DOC holds the work of each of them, once.
Works == client # "exited" =>
    /\ Len(doc.work) = IF pc = "record" THEN Executed + 1 ELSE Executed
    /\ \A j \in 1..Len(doc.work) : doc.work[j].cp = checkpoints[j] /\ doc.work[j].good = TRUE

\* The process has built the dataset up, or rolled it back to resume.
Live == client = "fresh" \/ (client = "resume" /\ resume_ok = FALSE)

\* How many snapshots there are beyond two for each checkpoint executed with the dataset.
Ahead == Len(zsnaps) - 2 * (Executed - unsaved)

InStep == Live =>
    /\ fs.work = OnDataset(doc.work)
    /\ dataset = FALSE => zsnaps = <<>>
    /\ dataset = TRUE =>
        /\ Timed(zsnaps, checkpoints, unsaved)
        /\ pc \in {"exec", "record"} => Ahead = 1
        /\ AfterWork => Ahead = -1
        /\ (pc \in {"idle", "top"} \/ (Saving /\ ~AfterWork)) => Ahead \in {0, 1}

\* Whatever process took them, the snapshots are those of some list.
Timeline == \E l \in Lists : Timed(zsnaps, l, unsaved)

EmptyStart == (unsaved = 0 /\ zsnaps = <<>>) => fs.work = <<>>

\* The DOC has not changed since it was dumped.
SavedDoc == (pc = "zfs" /\ dataset = TRUE) => Get(fs.files, snapshot_name).doc = doc

DcInv == /\ Flags /\ Phases /\ Loop /\ Works /\ InStep
         /\ Timeline /\ EmptyStart /\ SavedDoc

\* The sizes that the invariant counts with.
Sizes ==
    /\ doc.done \in Seq(Names) /\ doc.work \in Seq(Effects) /\ fs.work \in Seq(Effects)
    /\ Executed \in Nat /\ Len(doc.work) \in Nat /\ unsaved \in Nat
    /\ checkpoints \in Seq(Names) /\ Len(checkpoints) \in Nat /\ unsaved < Len(checkpoints)
    /\ DOMAIN checkpoints = 1..Len(checkpoints)
    /\ \A i \in 1..Len(checkpoints) : checkpoints[i] \in Names
    /\ \A i, j \in 1..Len(checkpoints) : checkpoints[i] = checkpoints[j] => i = j
    /\ todo \in Seq(Names) /\ Len(todo) \in Nat
    /\ GoodSnaps(zsnaps) /\ Len(zsnaps) \in Nat

\* The types give the sizes.
LEMMA SizesKnown ==
    ASSUME SnapInv
    PROVE  Sizes
<1>1. Control /\ Stores
  BY DEF SnapInv
<1>2. doc.done \in Seq(Names) /\ doc.work \in Seq(Effects) /\ fs.work \in Seq(Effects)
  BY <1>1 DEF Stores, Docs, GoodDataset, Datasets
<1>3. Executed \in Nat /\ Len(doc.work) \in Nat
  BY <1>2, LenProperties DEF Executed
<1>4. checkpoints \in Lists /\ unsaved \in UnsavedCounts
  BY <1>1 DEF Control
<1>5. unsaved \in Nat /\ unsaved < Len(checkpoints)
  <2>1. unsaved \in Nat
    BY <1>4, BoundsAssumption
  <2>2. Len(checkpoints) > unsaved /\ Len(checkpoints) \in Nat
    BY <1>4, ListsAssumption, LenProperties
  <2> QED BY <2>1, <2>2
<1>6. /\ checkpoints \in Seq(Names) /\ Len(checkpoints) \in Nat
      /\ DOMAIN checkpoints = 1..Len(checkpoints)
      /\ \A i \in 1..Len(checkpoints) : checkpoints[i] \in Names
  BY Known
<1>7. \A i, j \in DOMAIN checkpoints : checkpoints[i] = checkpoints[j] => i = j
  BY <1>4, ListsAssumption
<1>8. todo \in Seq(Names) /\ Len(todo) \in Nat
  BY <1>1, LenProperties DEF Control
<1>9. GoodSnaps(zsnaps) /\ Len(zsnaps) \in Nat
  BY <1>1, LenProperties DEF Stores, GoodSnaps
<1> QED BY <1>2, <1>3, <1>5, <1>6, <1>7, <1>8, <1>9 DEF Sizes

\* In the next state too.
LEMMA SizesKnownNext == SnapInv' => Sizes'
<1>1. SnapInv => Sizes
  BY SizesKnown
<1> QED BY <1>1, PTL

\* A run that works on the dataset is that of a live process.
LEMMA AtWork ==
    ASSUME SnapInv, Phases, pc # "idle", dataset = TRUE
    PROVE  Live
BY DEF SnapInv, Control, Phases, Live

\* What does not change.
LEMMA SameFlags ==
    ASSUME Flags, UNCHANGED <<checkpoints, completed>>, doc'.done = doc.done
    PROVE  Flags' /\ Executed' = Executed
BY DEF Flags, Executed

\* The timeline does not depend on the rest of the state.
LEMMA SameTimeline ==
    ASSUME Timeline, UNCHANGED <<zsnaps, unsaved>>
    PROVE  Timeline'
BY DEF Timeline

\* Nor does the empty start.
LEMMA SameEmptyStart ==
    ASSUME EmptyStart, UNCHANGED <<zsnaps, unsaved>>, fs'.work = fs.work
    PROVE  EmptyStart'
BY DEF EmptyStart

\* The first incomplete checkpoint comes after the completed ones.
LEMMA FirstIncomplete ==
    ASSUME NEW cps, Len(cps) \in Nat, DOMAIN cps = 1..Len(cps), NEW f, NEW k \in Nat,
           \A i \in DOMAIN cps : f[cps[i]] <=> i <= k, NEW p \in DOMAIN cps,
           IsFirstIncomplete(cps, f, p)
    PROVE  p = k + 1
<1>1. p \in 1..Len(cps)
  OBVIOUS
<1>2. ~(p <= k)
  BY DEF IsFirstIncomplete
<1>3. ASSUME p > k + 1 PROVE FALSE
  <2>1. k + 1 \in 1..(p - 1) /\ k + 1 \in DOMAIN cps /\ ~(k + 1 <= k)
    BY <1>1, <1>3
  <2>2. f[cps[k + 1]]
    BY <2>1 DEF IsFirstIncomplete
  <2> QED BY <2>1, <2>2
<1> QED BY <1>1, <1>2, <1>3

(***************************************************************************)
(* The steps of distro_const                                               *)
(***************************************************************************)
\* Setting the dataset.
LEMMA SetDatasetDc ==
    ASSUME SnapInv, DcInv, SetDataset, UNCHANGED choiceVars
    PROVE  DcInv'
<1>1. Sizes /\ Control
  BY SizesKnown DEF SnapInv
<1>2. Flags /\ Phases /\ Works /\ InStep /\ Timeline /\ EmptyStart
  BY DEF DcInv
<1>3. /\ pc = "idle" /\ dataset = FALSE /\ dataset' = TRUE /\ client # "exited"
      /\ \A i \in DOMAIN checkpoints : completed[checkpoints[i]] <=> i <= unsaved
      /\ UNCHANGED <<checkpoints, completed, doc, resume_ok, client, fs, zsnaps, pc, todo, ok,
                     succeeded, snapshot_name, unsaved>>
  BY <1>1 DEF SetDataset, runVars, choiceVars, Control
<1>4. Executed = unsaved
  <2>1. \A i \in 1..Len(checkpoints) : i <= unsaved <=> i <= Executed
    BY <1>1, <1>2, <1>3 DEF Flags, Sizes
  <2>2. Executed \in Nat /\ unsaved \in Nat /\ unsaved < Len(checkpoints)
        /\ Executed <= Len(checkpoints) /\ Len(checkpoints) \in Nat
    BY <1>1, <1>2 DEF Flags, Sizes
  <2>3. ~(Executed < unsaved)
    BY <2>1, <2>2
  <2>4. ~(unsaved < Executed)
    BY <2>1, <2>2
  <2> QED BY <2>2, <2>3, <2>4
<1>5. Flags' /\ Executed' = Executed
  BY <1>2, <1>3, SameFlags
<1>6. Phases'
  BY <1>1, <1>2, <1>3, <1>4, <1>5 DEF Phases, Sizes
<1>7. Loop' /\ SavedDoc'
  BY <1>3 DEF Loop, SavedDoc
<1>8. Works'
  BY <1>2, <1>3, <1>5 DEF Works
<1>9. Timeline' /\ EmptyStart'
  BY <1>2, <1>3, SameTimeline, SameEmptyStart
<1>10. InStep'
  <2> SUFFICES ASSUME Live'
               PROVE  InStep'
    BY DEF InStep
  <2>1. Live
    BY <1>3 DEF Live
  <2>2. fs.work = OnDataset(doc.work) /\ zsnaps = <<>>
    BY <1>2, <1>3, <2>1 DEF InStep
  <2>3. Len(zsnaps) = 0
    BY <2>2, EmptySeq
  <2>4. Timed(zsnaps, checkpoints, unsaved)
    BY <2>3 DEF Timed
  <2>5. Ahead' = 0
    BY <1>1, <1>3, <1>4, <1>5, <2>3 DEF Ahead, Sizes
  <2>6. ~AfterWork' /\ pc' = "idle"
    BY <1>3 DEF AfterWork, Saving
  <2> QED BY <1>3, <2>2, <2>4, <2>5, <2>6 DEF InStep
<1> QED BY <1>5, <1>6, <1>7, <1>8, <1>9, <1>10 DEF DcInv

\* A run that starts after the executed checkpoints runs a part of the list.
LEMMA RunOfList ==
    ASSUME SnapInv, NEW pause \in 1..(Len(checkpoints) + 1), NEW p \in DOMAIN checkpoints,
           NEW done, StartRun(p, pause, done), checkpoints' = checkpoints,
           Executed' + 1 = p, NEW last \in Nat, Reach' = last, pause <= last + 1
    PROVE  Loop' /\ pc' \in {"idle", "top"} /\ ok' = TRUE
<1>1. Sizes
  BY SizesKnown
<1>2. pc' \in {"idle", "top"} /\ ok' = TRUE
  BY DEF StartRun
<1>3. CASE pc' = "idle"
  BY <1>2, <1>3 DEF Loop
<1>4. CASE pc' = "top"
  <2>1. p <= pause /\ todo' = SubSeq(checkpoints, p, pause - 1) /\ todo' # <<>>
    BY <1>4 DEF StartRun, ExecListIsValid, ExecList
  <2>2. p \in Nat /\ pause \in Nat /\ p > 0 /\ Len(checkpoints) \in Nat
    BY <1>1 DEF Sizes
  <2>3. Len(todo') = pause - p /\ \A j \in 1..(pause - p) : todo'[j] = checkpoints[p + (j - 1)]
    <3>1. \A i \in p..(pause - 1) : checkpoints[i] \in Names
      <4>1. \A i \in p..(pause - 1) : i \in 1..Len(checkpoints)
        BY <2>2
      <4> QED BY <1>1, <4>1 DEF Sizes
    <3>2. p \in Int /\ pause - 1 \in Int
      BY <2>2
    <3>3. /\ Len(todo') = IF p <= pause - 1 THEN (pause - 1) - p + 1 ELSE 0
          /\ \A j \in 1..((pause - 1) - p + 1) : todo'[j] = checkpoints[p + j - 1]
      BY <2>1, <3>1, <3>2, SubSeqProperties
    <3>4. Len(todo') = pause - p
      BY <2>1, <2>2, <3>3
    <3>5. ASSUME NEW j \in 1..(pause - p) PROVE todo'[j] = checkpoints[p + (j - 1)]
      <4>1. j \in 1..((pause - 1) - p + 1) /\ p + j - 1 = p + (j - 1)
        BY <2>2
      <4> QED BY <3>3, <4>1
    <3> QED BY <3>4, <3>5
  <2>4. Turn' = p
    BY <1>4 DEF Turn, AfterWork, Saving
  <2>5. ~Saving' /\ pc' # "record"
    BY <1>4 DEF Saving
  <2>6. Turn' + Len(todo') - 1 = pause - 1
    BY <2>2, <2>3, <2>4
  <2>7. Turn' + Len(todo') - 1 <= Reach'
    <3>1. pause - 1 <= last
      BY <2>2
    <3> QED BY <2>6, <3>1
  <2>8. \A j \in 1..Len(todo') : todo'[j] = checkpoints'[Turn' + (j - 1)]
    BY <2>3, <2>4
  <2> QED BY <1>2, <2>2, <2>4, <2>5, <2>7, <2>8 DEF Loop
<1> QED BY <1>2, <1>3, <1>4

\* execute_checkpoints().
LEMMA ExecuteNextDc ==
    ASSUME SnapInv, SnapInv', DcInv, NEW pause \in 1..(Len(checkpoints) + 1), ExecuteNext(pause),
           UNCHANGED choiceVars
    PROVE  DcInv'
<1>1. Sizes /\ Sizes' /\ Control
  BY SizesKnown, SizesKnownNext DEF SnapInv
<1>2. Flags /\ Phases /\ Works /\ InStep /\ Timeline /\ EmptyStart
  BY DEF DcInv
<1>3. PICK p \in DOMAIN checkpoints :
          IsFirstIncomplete(checkpoints, completed, p) /\ StartRun(p, pause, completed)
  BY DEF ExecuteNext
<1>4. /\ pc = "idle" /\ ClientExecutes(pause)
      /\ UNCHANGED <<checkpoints, completed, doc, dataset, resume_ok, client, fs, zsnaps,
                     snapshot_name, unsaved>>
  BY DEF ExecuteNext, MayStart, processVars, choiceVars
<1>5. p = Executed + 1
  BY <1>1, <1>2, <1>3, FirstIncomplete DEF Sizes, Flags
<1>6. Flags' /\ Executed' = Executed
  BY <1>2, <1>4, SameFlags
<1>7. PICK last \in Nat : Reach' = last /\ pause <= last + 1
  <2>1. unsaved' = unsaved /\ unsaved \in Nat /\ Len(checkpoints') = Len(checkpoints)
        /\ Len(checkpoints) \in Nat
    BY <1>1, <1>4 DEF Sizes
  <2>2. CASE dataset' = TRUE
    <3>1. Reach' = Len(checkpoints)
      BY <2>1, <2>2 DEF Reach
    <3>2. pause <= Len(checkpoints) + 1
      BY <2>1
    <3> QED BY <2>1, <3>1, <3>2
  <2>3. CASE dataset' # TRUE
    <3>1. Reach' = unsaved
      BY <2>1, <2>3 DEF Reach
    <3>2. pause <= unsaved + 1
      BY <1>1, <1>2, <1>4, <2>3 DEF ClientExecutes, Phases, Control
    <3> QED BY <2>1, <3>1, <3>2
  <2> QED BY <2>2, <2>3
<1>8. Loop' /\ pc' \in {"idle", "top"} /\ ok' = TRUE
  BY <1>1, <1>3, <1>4, <1>5, <1>6, <1>7, RunOfList
<1>9. ~(client = "resume" /\ dataset = TRUE) /\ client # "exited"
  BY <1>2, <1>4 DEF ClientExecutes, Phases
<1>10. Phases'
  BY <1>2, <1>4, <1>6, <1>8, <1>9 DEF Phases
<1>11. Works'
  BY <1>2, <1>4, <1>6, <1>8 DEF Works
<1>12. Timeline' /\ EmptyStart'
  BY <1>2, <1>4, SameTimeline, SameEmptyStart
<1>13. InStep'
  <2>1. ~AfterWork /\ ~AfterWork' /\ ~Saving' /\ Ahead' = Ahead /\ (Live' <=> Live)
    BY <1>4, <1>6, <1>8 DEF AfterWork, Saving, Ahead, Live
  <2> QED BY <1>2, <1>4, <1>8, <2>1 DEF InStep
<1>14. SavedDoc'
  BY <1>8 DEF SavedDoc
<1> QED BY <1>6, <1>8, <1>10, <1>11, <1>12, <1>13, <1>14 DEF DcInv

\* The turn of a checkpoint comes.
LEMMA TakeTurnDc ==
    ASSUME SnapInv, DcInv, TakeTurn, UNCHANGED choiceVars
    PROVE  DcInv'
<1>1. Sizes /\ Control
  BY SizesKnown DEF SnapInv
<1>2. Flags /\ Phases /\ Loop /\ Works /\ InStep /\ Timeline /\ EmptyStart
  BY DEF DcInv
<1>3. /\ pc = "top" /\ todo # <<>> /\ pc' = "open" /\ snapshot_name' = Pre(Head(todo))
      /\ UNCHANGED <<checkpoints, completed, doc, dataset, resume_ok, client, fs, zsnaps,
                     todo, ok, succeeded, unsaved>>
  BY <1>2 DEF TakeTurn, processVars, choiceVars, Phases
<1>4. snapshot_name'[1] = Head(todo) /\ snapshot_name'[2] = "pre"
  BY <1>3, NamesDiffer
<1>5. Flags' /\ Executed' = Executed
  BY <1>2, <1>3, SameFlags
<1>6. ~AfterWork /\ ~AfterWork' /\ Saving' /\ Turn = Executed + 1 /\ Turn' = Executed + 1
  BY <1>3, <1>4, <1>5 DEF AfterWork, Saving, Turn
<1>7. Phases'
  BY <1>2, <1>3, <1>5 DEF Phases
<1>8. Loop'
  <2>1. Reach' = Reach
    BY <1>3 DEF Reach
  <2> QED BY <1>2, <1>3, <1>4, <1>6, <2>1 DEF Loop
<1>9. Works'
  BY <1>2, <1>3, <1>5 DEF Works
<1>10. InStep'
  <2>1. Ahead' = Ahead /\ (Live' <=> Live)
    BY <1>3, <1>5 DEF Ahead, Live
  <2> QED BY <1>2, <1>3, <1>6, <2>1 DEF InStep
<1>11. Timeline' /\ EmptyStart'
  BY <1>2, <1>3, SameTimeline, SameEmptyStart
<1>12. SavedDoc'
  BY <1>3 DEF SavedDoc
<1> QED BY <1>5, <1>7, <1>8, <1>9, <1>10, <1>11, <1>12 DEF DcInv

\* The file that was written is the one found under its name.
LEMMA WrittenFile ==
    ASSUME NEW files, GoodFiles(files), NEW f \in SnapNames, NEW d \in Docs, NEW w \in BOOLEAN
    PROVE  Get(WriteFile(files, f, d, w), f).doc = d
<1> DEFINE e == [name |-> f, doc |-> d, whole |-> w]
           rest == Without(files, {f})
<1>1. files \in Seq(File) /\ NamesOnce(files)
  BY DEF GoodFiles
<1>2. e \in File /\ e.name = f /\ e.doc = d
  BY DEF File
<1>3. rest \in Seq(File) /\ Left(rest, files, {f})
  BY <1>1, WithoutLeaves
<1>4. WriteFile(files, f, d, w) = Append(rest, e)
  BY DEF WriteFile
<1> HIDE DEF rest, e
<1>5. NamesOnce(rest) /\ \A i \in DOMAIN rest : rest[i].name # e.name
  BY <1>1, <1>2, <1>3 DEF Left
<1>6. Get(Append(rest, e), e.name) = e
  BY <1>2, <1>3, <1>5, AppendNamed
<1> QED BY <1>2, <1>4, <1>6

\* Saving the DOC leaves the work in the dataset alone.
LEMMA SavedWork ==
    ASSUME SnapInv, NEW f \in SnapNames, NEW d \in Docs, NEW w \in BOOLEAN, SaveDoc(f, d, w)
    PROVE  /\ fs'.work = fs.work
           /\ dataset = TRUE => Get(fs'.files, f).doc = d
<1>1. GoodDataset(fs) /\ dataset \in BOOLEAN
  BY DEF SnapInv, Stores, Control
<1>2. CASE dataset = TRUE
  <2> DEFINE new == WriteFile(fs.files, f, d, w)
  <2>1. fs' = [fs EXCEPT !.files = new]
    BY <1>2 DEF SaveDoc
  <2>2. Get(new, f).doc = d
    BY <1>1, WrittenFile DEF GoodDataset
  <2> HIDE DEF new
  <2>3. fs'.work = fs.work /\ fs'.files = new
    BY <1>1, <2>1 DEF GoodDataset, Datasets
  <2> QED BY <2>2, <2>3
<1>3. CASE dataset = FALSE
  BY <1>3 DEF SaveDoc
<1> QED BY <1>1, <1>2, <1>3

\* take_snapshot truncates the file, and then writes it.
LEMMA CacheDc ==
    ASSUME SnapInv, DcInv, OpenCacheFile \/ DumpCache, UNCHANGED choiceVars
    PROVE  DcInv'
<1>1. Stores /\ RunState
  BY DEF SnapInv
<1>2. Flags /\ Phases /\ Loop /\ Works /\ InStep /\ Timeline /\ EmptyStart
  BY DEF DcInv
<1>3. /\ pc \in {"open", "dump"} /\ pc' \in {"dump", "zfs"}
      /\ UNCHANGED <<checkpoints, completed, doc, dataset, resume_ok, client, zsnaps,
                     todo, ok, succeeded, snapshot_name, unsaved>>
  BY DEF OpenCacheFile, DumpCache, choiceVars
<1>4. snapshot_name \in SnapNames /\ doc \in Docs
  BY <1>1, <1>3 DEF RunState, Stores
<1>5. fs'.work = fs.work
  <2>1. CASE OpenCacheFile
    BY <1>4, <2>1, SavedWork, EmptyTypes DEF OpenCacheFile
  <2>2. CASE DumpCache
    BY <1>4, <2>2, SavedWork DEF DumpCache
  <2> QED BY <2>1, <2>2
<1>6. Flags' /\ Executed' = Executed
  BY <1>2, <1>3, SameFlags
<1>7. Saving /\ Saving' /\ (AfterWork' <=> AfterWork)
  BY <1>3 DEF AfterWork, Saving
<1>8. Turn' = Turn /\ Reach' = Reach /\ Ahead' = Ahead /\ (Live' <=> Live)
  BY <1>3, <1>6, <1>7 DEF Turn, Reach, Ahead, Live
<1>9. Phases'
  BY <1>2, <1>3, <1>6 DEF Phases
<1>10. Loop'
  BY <1>2, <1>3, <1>7, <1>8 DEF Loop
<1>11. Works'
  BY <1>2, <1>3, <1>6 DEF Works
<1>12. InStep'
  BY <1>2, <1>3, <1>5, <1>7, <1>8 DEF InStep
<1>13. Timeline' /\ EmptyStart'
  BY <1>2, <1>3, <1>5, SameTimeline, SameEmptyStart
<1>14. SavedDoc'
  <2>1. CASE OpenCacheFile
    BY <2>1 DEF OpenCacheFile, SavedDoc
  <2>2. CASE DumpCache
    <3>1. dataset = TRUE => Get(fs'.files, snapshot_name).doc = doc
      BY <1>4, <2>2, SavedWork DEF DumpCache
    <3> QED BY <1>3, <3>1 DEF SavedDoc
  <2> QED BY <2>1, <2>2
<1> QED BY <1>6, <1>9, <1>10, <1>11, <1>12, <1>13, <1>14 DEF DcInv

\* When a snapshot is taken, it is that of the checkpoint at Turn.
LEMMA SnapshotInHand ==
    ASSUME SnapInv, DcInv, pc = "zfs"
    PROVE  /\ todo # <<>> /\ Len(todo) > 0 /\ Turn \in 1..Len(checkpoints)
           /\ Head(todo) = checkpoints[Turn]
           /\ \/ snapshot_name = Pre(checkpoints[Turn]) /\ Turn = Executed + 1 /\ ~AfterWork
              \/ snapshot_name = Completed(checkpoints[Turn]) /\ Turn = Executed /\ AfterWork
<1>1. Sizes /\ RunState
  BY SizesKnown DEF SnapInv
<1>2. Saving
  BY DEF Saving
<1>3. snapshot_name \in Names \X {"pre", "completed"} /\ todo # <<>>
  BY <1>1 DEF RunState, SnapNames
<1>4. Len(todo) > 0
  BY <1>1, <1>3, EmptySeq DEF Sizes
<1>5. /\ Turn > 0 /\ Turn + Len(todo) - 1 <= Reach
      /\ \A j \in 1..Len(todo) : todo[j] = checkpoints[Turn + (j - 1)]
      /\ snapshot_name[1] = Head(todo)
  BY <1>2 DEF DcInv, Loop
<1>6. Reach <= Len(checkpoints) /\ Reach \in Nat
  BY <1>1 DEF Reach, Sizes
<1>7. Turn \in Nat
  BY <1>1 DEF Turn, Sizes
<1>8. Turn \in 1..Len(checkpoints)
  BY <1>1, <1>4, <1>5, <1>6, <1>7 DEF Sizes
<1>9. Head(todo) = checkpoints[Turn]
  <2>1. Head(todo) = todo[1]
    BY <1>1, <1>3, HeadTailProperties DEF Sizes
  <2>2. todo[1] = checkpoints[Turn + (1 - 1)]
    BY <1>1, <1>4, <1>5 DEF Sizes
  <2>3. Turn + (1 - 1) = Turn
    BY <1>7
  <2> QED BY <2>1, <2>2, <2>3
<1>10. snapshot_name = <<snapshot_name[1], snapshot_name[2]>> /\ snapshot_name[2] \in {"pre", "completed"}
  BY <1>3
<1>11. CASE snapshot_name[2] = "pre"
  <2>1. snapshot_name = Pre(checkpoints[Turn])
    BY <1>5, <1>9, <1>10, <1>11 DEF Pre
  <2>2. ~AfterWork
    BY <1>11 DEF AfterWork
  <2>3. Turn = Executed + 1
    BY <2>2 DEF Turn
  <2> QED BY <1>3, <1>4, <1>8, <1>9, <2>1, <2>2, <2>3
<1>12. CASE snapshot_name[2] = "completed"
  <2>1. snapshot_name = Completed(checkpoints[Turn])
    BY <1>5, <1>9, <1>10, <1>12 DEF Completed
  <2>2. AfterWork
    BY <1>2, <1>12 DEF AfterWork
  <2>3. Turn = Executed
    BY <2>2 DEF Turn
  <2> QED BY <1>3, <1>4, <1>8, <1>9, <2>1, <2>2, <2>3
<1> QED BY <1>10, <1>11, <1>12

\* A snapshot that is already there is the newest one, left by a run that ended between
\* the snapshot and the work.
LEMMA OldSnapshotIsNewest ==
    ASSUME SnapInv, DcInv, pc = "zfs", dataset = TRUE, Has(zsnaps, snapshot_name)
    PROVE  /\ ~AfterWork /\ Len(zsnaps) = 2 * (Executed - unsaved) + 1
           /\ zsnaps[Len(zsnaps)].name = snapshot_name
<1>1. Sizes
  BY SizesKnown
<1>2. Live /\ Saving
  BY AtWork DEF DcInv, Saving
<1>3. /\ Timed(zsnaps, checkpoints, unsaved)
      /\ AfterWork => Ahead = -1
      /\ ~AfterWork => Ahead \in {0, 1}
  BY <1>2 DEF DcInv, InStep
<1>4. /\ Turn \in 1..Len(checkpoints)
      /\ \/ snapshot_name = Pre(checkpoints[Turn]) /\ Turn = Executed + 1 /\ ~AfterWork
         \/ snapshot_name = Completed(checkpoints[Turn]) /\ Turn = Executed /\ AfterWork
  BY SnapshotInHand
<1>5. GoodSnaps(zsnaps) /\ unsaved \in Nat /\ Executed \in Nat /\ Len(zsnaps) \in Nat
      /\ Len(checkpoints) \in Nat
  BY <1>1 DEF Sizes
<1>6. CASE snapshot_name = Completed(checkpoints[Turn]) /\ Turn = Executed /\ AfterWork
  <2>1. PICK i \in 1..Len(zsnaps) :
            CompletedFoundAt(zsnaps, checkpoints, unsaved, checkpoints[Turn], i)
    BY <1>3, <1>5, <1>6, CompletedFound
  <2>2. 2 * i <= Len(zsnaps) /\ unsaved + i <= Len(checkpoints)
        /\ checkpoints[unsaved + i] = checkpoints[Turn]
    BY <2>1 DEF CompletedFoundAt
  <2>3. unsaved + i \in 1..Len(checkpoints)
    BY <1>5, <2>2
  <2>4. unsaved + i = Executed
    BY <1>1, <1>4, <1>6, <2>2, <2>3 DEF Sizes
  <2>5. Len(zsnaps) = 2 * (Executed - unsaved) - 1
    BY <1>3, <1>5, <1>6 DEF Ahead
  <2> QED BY <1>5, <2>2, <2>4, <2>5
<1>7. CASE snapshot_name = Pre(checkpoints[Turn]) /\ Turn = Executed + 1 /\ ~AfterWork
  <2>1. PICK i \in 1..Len(zsnaps) :
            PreFoundAt(zsnaps, checkpoints, unsaved, checkpoints[Turn], i)
    BY <1>3, <1>5, <1>7, PreFound
  <2>2. 2 * i - 1 <= Len(zsnaps) /\ unsaved + i <= Len(checkpoints)
        /\ checkpoints[unsaved + i] = checkpoints[Turn]
        /\ zsnaps[2 * i - 1].name = snapshot_name
    BY <1>7, <2>1 DEF PreFoundAt, Point
  <2>3. unsaved + i \in 1..Len(checkpoints)
    BY <1>5, <2>2
  <2>4. unsaved + i = Executed + 1
    BY <1>1, <1>4, <1>7, <2>2, <2>3 DEF Sizes
  <2>5. Len(zsnaps) = 2 * (Executed - unsaved) \/ Len(zsnaps) = 2 * (Executed - unsaved) + 1
    BY <1>3, <1>5, <1>7 DEF Ahead
  <2>6. Len(zsnaps) = 2 * (Executed - unsaved) + 1 /\ Len(zsnaps) = 2 * i - 1
    <3>1. i \in Int /\ i = (Executed - unsaved) + 1
      BY <1>5, <2>4
    <3>2. Executed - unsaved \in Int
      BY <1>5
    <3>3. 2 * i - 1 <= Len(zsnaps)
      BY <2>2
    <3> QED BY <1>5, <2>5, <3>1, <3>2, <3>3, OddCount
  <2> QED BY <1>7, <2>2, <2>6
<1> QED BY <1>4, <1>6, <1>7

\* Filesystem.snapshot destroys it.
LEMMA DestroyOldDc ==
    ASSUME SnapInv, DcInv, DestroyOldSnapshot, UNCHANGED choiceVars
    PROVE  DcInv'
<1>1. Sizes /\ Control
  BY SizesKnown DEF SnapInv
<1>2. Flags /\ Phases /\ Loop /\ Works /\ InStep /\ SavedDoc
  BY DEF DcInv
<1>3. /\ pc = "zfs" /\ dataset = TRUE /\ Has(zsnaps, snapshot_name)
      /\ zsnaps' = Without(zsnaps, {snapshot_name})
      /\ UNCHANGED <<checkpoints, completed, doc, dataset, resume_ok, client, fs, pc,
                     todo, ok, succeeded, snapshot_name, unsaved>>
  BY <1>1 DEF DestroyOldSnapshot, processVars, runVars, choiceVars, Control
<1>4. /\ ~AfterWork /\ Len(zsnaps) = 2 * (Executed - unsaved) + 1
      /\ zsnaps[Len(zsnaps)].name = snapshot_name
  BY <1>3, OldSnapshotIsNewest
<1>5. GoodSnaps(zsnaps) /\ unsaved \in Nat /\ Executed \in Nat /\ Len(zsnaps) \in Nat
  BY <1>1 DEF Sizes
<1>6. Executed >= unsaved
  BY <1>2, <1>3 DEF Phases
<1>7. Len(zsnaps) > 0
  BY <1>4, <1>5, <1>6
<1>8. zsnaps' = SubSeq(zsnaps, 1, Len(zsnaps) - 1)
  BY <1>3, <1>4, <1>5, <1>7, WithoutNewest DEF GoodSnaps
<1>9. Live /\ Saving
  BY <1>2, <1>3, AtWork DEF Saving
<1>10. Timed(zsnaps, checkpoints, unsaved) /\ fs.work = OnDataset(doc.work)
  BY <1>2, <1>3, <1>9 DEF InStep
<1>11. Len(zsnaps) - 1 \in 0..Len(zsnaps)
  BY <1>5, <1>7
<1>12. Timed(zsnaps', checkpoints, unsaved) /\ Len(zsnaps') = Len(zsnaps) - 1
  BY <1>5, <1>8, <1>10, <1>11, TimedPrefix
<1>13. Flags' /\ Executed' = Executed
  BY <1>2, <1>3, SameFlags
<1>14. Saving' /\ ~AfterWork'
  BY <1>3, <1>4, <1>9 DEF AfterWork, Saving
<1>15. Turn' = Turn /\ Reach' = Reach /\ (Live' <=> Live)
  BY <1>3, <1>4, <1>13, <1>14 DEF Turn, Reach, Live
<1>16. Ahead' = 0
  BY <1>3, <1>4, <1>5, <1>12, <1>13 DEF Ahead
<1>17. Phases'
  BY <1>2, <1>3, <1>13 DEF Phases
<1>18. Loop'
  BY <1>2, <1>3, <1>9, <1>14, <1>15 DEF Loop
<1>19. Works'
  BY <1>2, <1>3, <1>13 DEF Works
<1>20. InStep'
  BY <1>3, <1>10, <1>12, <1>14, <1>16 DEF InStep
<1>21. Timeline'
  <2>1. checkpoints \in Lists
    BY <1>1 DEF Control
  <2> QED BY <1>3, <1>12, <2>1 DEF Timeline
<1>22. EmptyStart'
  <2> SUFFICES ASSUME zsnaps' = <<>>, unsaved = 0
               PROVE  fs.work = <<>>
    BY <1>3 DEF EmptyStart
  <2>1. Len(zsnaps') = 0
    BY EmptySeq
  <2>2. Executed = 0
    BY <1>4, <1>5, <1>12, <2>1
  <2>3. Len(doc.work) = 0
    BY <1>2, <1>3, <2>2 DEF Works, Phases
  <2>4. doc.work = <<>>
    BY <1>1, <2>3, EmptySeq DEF Sizes
  <2> QED BY <1>10, <2>4, KeptOfNothing DEF OnDataset
<1>23. SavedDoc'
  BY <1>2, <1>3 DEF SavedDoc
<1> QED BY <1>13, <1>17, <1>18, <1>19, <1>20, <1>21, <1>22, <1>23 DEF DcInv

\* After the snapshot of a checkpoint, the loop goes on with it or with the next one.
LEMMA AfterSnapshotDc ==
    ASSUME SnapInv, DcInv, pc = "zfs", AfterSnapshot,
           UNCHANGED <<checkpoints, completed, doc, dataset, resume_ok, client, ok, succeeded,
                       snapshot_name, unsaved>>
    PROVE  /\ Loop' /\ Flags' /\ Phases' /\ Works' /\ SavedDoc' /\ Executed' = Executed
           /\ ~Saving' /\ ~AfterWork'
           /\ IF AfterWork THEN pc' = "top" ELSE pc' = "exec"
<1>1. Sizes
  BY SizesKnown
<1>2. Flags /\ Phases /\ Loop /\ Works
  BY DEF DcInv
<1>3. /\ todo # <<>> /\ Len(todo) > 0 /\ Turn \in 1..Len(checkpoints)
      /\ \/ snapshot_name = Pre(checkpoints[Turn]) /\ Turn = Executed + 1 /\ ~AfterWork
         \/ snapshot_name = Completed(checkpoints[Turn]) /\ Turn = Executed /\ AfterWork
  BY SnapshotInHand
<1>4. Flags' /\ Executed' = Executed
  BY <1>2, SameFlags
<1>5. \/ ~AfterWork /\ pc' = "exec" /\ todo' = todo
      \/ AfterWork /\ pc' = "top" /\ todo' = Tail(todo)
  <2>1. CASE snapshot_name = Pre(checkpoints[Turn]) /\ ~AfterWork
    <3>1. IsPre
      BY <2>1, NamesDiffer DEF IsPre
    <3> QED BY <2>1, <3>1 DEF AfterSnapshot
  <2>2. CASE snapshot_name = Completed(checkpoints[Turn]) /\ AfterWork
    <3>1. ~IsPre
      BY <2>2, NamesDiffer DEF IsPre
    <3> QED BY <2>2, <3>1 DEF AfterSnapshot
  <2> QED BY <1>3, <2>1, <2>2
<1>6. ~Saving' /\ ~AfterWork' /\ Turn' = Executed + 1 /\ Reach' = Reach
  BY <1>4, <1>5 DEF Saving, AfterWork, Turn, Reach
<1>7. Phases' /\ Works' /\ SavedDoc'
  BY <1>2, <1>4, <1>5 DEF Phases, Works, SavedDoc
<1>8. /\ Turn + Len(todo) - 1 <= Reach
      /\ \A j \in 1..Len(todo) : todo[j] = checkpoints[Turn + (j - 1)]
  BY <1>2 DEF Loop
<1>9. Executed \in Nat /\ Len(todo) \in Nat /\ todo \in Seq(Names) /\ Executed + 1 > 0
  BY <1>1 DEF Sizes
<1>10. Loop'
  <2>1. CASE ~AfterWork /\ pc' = "exec" /\ todo' = todo
    <3>1. Turn = Executed + 1
      BY <2>1 DEF Turn
    <3> QED BY <1>6, <1>8, <1>9, <2>1, <3>1 DEF Loop
  <2>2. CASE AfterWork /\ pc' = "top" /\ todo' = Tail(todo)
    <3>1. Turn = Executed
      BY <2>2 DEF Turn
    <3>2. Len(todo') = Len(todo) - 1 /\ \A j \in 1..(Len(todo) - 1) : todo'[j] = todo[j + 1]
      BY <1>3, <1>9, <2>2, HeadTailProperties
    <3>3. ASSUME NEW j \in 1..(Len(todo) - 1)
          PROVE  todo'[j] = checkpoints[(Executed + 1) + (j - 1)]
      <4>1. j + 1 \in 1..Len(todo) /\ Executed + ((j + 1) - 1) = (Executed + 1) + (j - 1)
        BY <1>9
      <4>2. todo[j + 1] = checkpoints[Executed + ((j + 1) - 1)]
        BY <1>8, <3>1, <4>1
      <4> QED BY <3>2, <4>1, <4>2
    <3>4. (Executed + 1) + (Len(todo) - 1) - 1 = Executed + Len(todo) - 1
      BY <1>9
    <3>5. (Executed + 1) + Len(todo') - 1 <= Reach
      BY <1>8, <3>1, <3>2, <3>4
    <3> QED BY <1>6, <1>9, <2>2, <3>2, <3>3, <3>5 DEF Loop
  <2> QED BY <1>5, <2>1, <2>2
<1> QED BY <1>4, <1>5, <1>6, <1>7, <1>10

\* The new snapshot is the next one of the list.
LEMMA CreateSnapshotDc ==
    ASSUME SnapInv, DcInv, CreateSnapshot, UNCHANGED choiceVars
    PROVE  DcInv'
<1>1. Sizes /\ Control /\ Stores /\ RunState
  BY SizesKnown DEF SnapInv
<1>2. Flags /\ Phases /\ Loop /\ Works /\ InStep /\ SavedDoc
  BY DEF DcInv
<1> DEFINE s == [name |-> snapshot_name, fs |-> fs]
<1>3. /\ pc = "zfs" /\ dataset = TRUE /\ ~Has(zsnaps, snapshot_name)
      /\ zsnaps' = Append(zsnaps, s) /\ AfterSnapshot
      /\ UNCHANGED <<checkpoints, completed, doc, dataset, resume_ok, client, fs, ok, succeeded,
                     snapshot_name, unsaved>>
  BY <1>1 DEF CreateSnapshot, choiceVars, Control
<1>4. /\ Loop' /\ Flags' /\ Phases' /\ Works' /\ SavedDoc' /\ Executed' = Executed
      /\ ~Saving' /\ ~AfterWork'
      /\ IF AfterWork THEN pc' = "top" ELSE pc' = "exec"
  BY <1>3, AfterSnapshotDc
<1>5. /\ Turn \in 1..Len(checkpoints)
      /\ \/ snapshot_name = Pre(checkpoints[Turn]) /\ Turn = Executed + 1 /\ ~AfterWork
         \/ snapshot_name = Completed(checkpoints[Turn]) /\ Turn = Executed /\ AfterWork
  BY <1>3, SnapshotInHand
<1>6. GoodSnaps(zsnaps) /\ unsaved \in Nat /\ Executed \in Nat /\ Len(zsnaps) \in Nat
      /\ Len(checkpoints) \in Nat
  BY <1>1 DEF Sizes
<1>7. Live /\ Saving
  BY <1>2, <1>3, AtWork DEF Saving
<1>8. /\ Timed(zsnaps, checkpoints, unsaved) /\ fs.work = OnDataset(doc.work)
      /\ AfterWork => Ahead = -1
      /\ ~AfterWork => Ahead \in {0, 1}
  BY <1>2, <1>3, <1>7 DEF InStep
<1>9. s \in Snapshot /\ s.name = snapshot_name /\ s.fs = fs
  BY <1>1, <1>3 DEF Snapshot, Stores, GoodDataset, RunState
<1> HIDE DEF s
<1>10. Executed >= unsaved
  BY <1>2, <1>3 DEF Phases
<1>11. CleanDoc(doc, checkpoints, Executed)
  <2>1. client # "exited"
    BY <1>7 DEF Live
  <2> QED BY <1>2, <1>3, <2>1 DEF Flags, Works, CleanDoc, Executed
<1>12. Point(s, snapshot_name, checkpoints, Executed)
  BY <1>2, <1>3, <1>8, <1>9, <1>11 DEF Point, SavedDoc
<1>13. PICK i \in Nat : /\ i > 0
                        /\ Timed(zsnaps', checkpoints, unsaved) /\ Len(zsnaps') = Len(zsnaps) + 1
                        /\ Len(zsnaps) + 1 = 2 * (Executed - unsaved) + IF AfterWork THEN 0 ELSE 1
  <2>1. CASE snapshot_name = Pre(checkpoints[Turn]) /\ Turn = Executed + 1 /\ ~AfterWork
    <3> DEFINE i == Executed - unsaved + 1
    <3>1. i \in Nat /\ i > 0 /\ unsaved + i = Turn /\ unsaved + i - 1 = Executed
          /\ 2 * i - 1 = 2 * (Executed - unsaved) + 1 /\ unsaved + i <= Len(checkpoints)
      BY <1>5, <1>6, <1>10, <2>1
    <3>2. Len(zsnaps) = 2 * (Executed - unsaved) \/ Len(zsnaps) = 2 * (Executed - unsaved) + 1
      BY <1>6, <1>8, <2>1 DEF Ahead
    <3>3. Len(zsnaps) # 2 * (Executed - unsaved) + 1
      <4> SUFFICES ASSUME Len(zsnaps) = 2 * i - 1
                   PROVE  FALSE
        BY <3>1
      <4> HIDE DEF i
      <4>1. i \in 1..Len(zsnaps) /\ 2 * i - 1 \in 1..Len(zsnaps)
        BY <1>6, <3>1
      <4>2. PrePoint(zsnaps, checkpoints, unsaved, i)
        BY <1>6, <1>8, <4>1 DEF Timed
      <4>3. zsnaps[2 * i - 1].name = snapshot_name
        BY <2>1, <3>1, <4>2 DEF PrePoint, Point
      <4>4. Has(zsnaps, snapshot_name)
        BY <1>6, <4>1, <4>3, FoundAt
      <4> QED BY <1>3, <4>4
    <3>4. Len(zsnaps) + 1 = 2 * i - 1
      BY <1>6, <3>1, <3>2, <3>3
    <3> HIDE DEF i
    <3>5. unsaved + i <= Len(checkpoints) /\ Point(s, Pre(checkpoints[unsaved + i]), checkpoints, unsaved + i - 1)
      BY <1>12, <2>1, <3>1
    <3>6. Timed(Append(zsnaps, s), checkpoints, unsaved) /\ Len(Append(zsnaps, s)) = Len(zsnaps) + 1
      BY <1>6, <1>8, <1>9, <3>1, <3>4, <3>5, TimedAppend
    <3>7. Len(zsnaps) + 1 = 2 * (Executed - unsaved) + 1
      BY <3>1, <3>4
    <3> QED BY <1>3, <2>1, <3>1, <3>6, <3>7
  <2>2. CASE snapshot_name = Completed(checkpoints[Turn]) /\ Turn = Executed /\ AfterWork
    <3> DEFINE i == Executed - unsaved
    <3>1. Len(zsnaps) = 2 * i - 1
      BY <1>6, <1>8, <2>2 DEF Ahead
    <3>2. i \in Nat /\ i > 0 /\ unsaved + i = Turn /\ unsaved + i = Executed
      BY <1>6, <1>10, <2>2, <3>1
    <3>3. Len(zsnaps) + 1 = 2 * i
      BY <1>6, <3>1, <3>2
    <3> HIDE DEF i
    <3>4. Point(s, Completed(checkpoints[unsaved + i]), checkpoints, unsaved + i)
      BY <1>12, <2>2, <3>2
    <3>5. Timed(Append(zsnaps, s), checkpoints, unsaved) /\ Len(Append(zsnaps, s)) = Len(zsnaps) + 1
      BY <1>6, <1>8, <1>9, <3>2, <3>3, <3>4, TimedAppend
    <3>6. Len(zsnaps) + 1 = 2 * (Executed - unsaved) + 0
      BY <1>6, <3>3 DEF i
    <3> QED BY <1>3, <2>2, <3>2, <3>5, <3>6
  <2> QED BY <1>5, <2>1, <2>2
<1>14. Len(zsnaps') = 2 * (Executed - unsaved) + IF AfterWork THEN 0 ELSE 1
  BY <1>13
<1>15. Ahead' = IF AfterWork THEN 0 ELSE 1
  <2>1. Ahead' = Len(zsnaps') - 2 * (Executed - unsaved)
    BY <1>3, <1>4 DEF Ahead
  <2>2. CASE AfterWork
    BY <1>6, <1>14, <2>1, <2>2
  <2>3. CASE ~AfterWork
    BY <1>6, <1>14, <2>1, <2>3
  <2> QED BY <2>2, <2>3
<1>16. InStep'
  BY <1>3, <1>4, <1>8, <1>13, <1>15 DEF InStep
<1>17. Timeline'
  <2>1. checkpoints \in Lists
    BY <1>1 DEF Control
  <2> QED BY <1>3, <1>13, <2>1 DEF Timeline
<1>18. EmptyStart'
  <2>1. Len(zsnaps') # 0
    BY <1>6, <1>13
  <2>2. zsnaps' # <<>>
    BY <2>1, EmptySeq
  <2> QED BY <2>2 DEF EmptyStart
<1> QED BY <1>4, <1>16, <1>17, <1>18 DEF DcInv

\* Without a dataset there is no ZFS snapshot to take.
LEMMA NoZfsSnapshotDc ==
    ASSUME SnapInv, DcInv, NoZfsSnapshot, UNCHANGED choiceVars
    PROVE  DcInv'
<1>1. InStep /\ Timeline /\ EmptyStart
  BY DEF DcInv
<1>2. /\ pc = "zfs" /\ dataset = FALSE /\ AfterSnapshot
      /\ UNCHANGED <<checkpoints, completed, doc, dataset, resume_ok, client, fs, zsnaps, ok, succeeded,
                     snapshot_name, unsaved>>
  BY DEF NoZfsSnapshot, choiceVars, SnapInv, Control
<1>3. Loop' /\ Flags' /\ Phases' /\ Works' /\ SavedDoc'
  BY <1>2, AfterSnapshotDc
<1>4. InStep'
  <2>1. Live' <=> Live
    BY <1>2 DEF Live
  <2> QED BY <1>1, <1>2, <2>1 DEF InStep
<1>5. Timeline' /\ EmptyStart'
  BY <1>1, <1>2, SameTimeline, SameEmptyStart
<1> QED BY <1>3, <1>4, <1>5 DEF DcInv

\* A run that does not succeed is the last of its process.
LEMMA ExitDc ==
    ASSUME DcInv, EndRun(FALSE), completed' = completed, doc'.done = doc.done,
           EmptyStart', UNCHANGED choiceVars
    PROVE  DcInv'
<1>1. Flags /\ Phases /\ Timeline
  BY DEF DcInv
<1>2. /\ pc' = "idle" /\ client' = "exited"
      /\ UNCHANGED <<checkpoints, dataset, resume_ok, zsnaps, ok, unsaved>>
  BY <1>1 DEF EndRun, Phases, choiceVars
<1>3. Flags' /\ Executed' = Executed
  BY <1>1, <1>2, SameFlags
<1>4. Phases'
  BY <1>1, <1>2, <1>3 DEF Phases
<1>5. Loop' /\ Works' /\ InStep' /\ SavedDoc'
  BY <1>2 DEF Loop, Works, InStep, Live, SavedDoc
<1>6. Timeline'
  BY <1>1, <1>2, SameTimeline
<1> QED BY <1>3, <1>4, <1>5, <1>6 DEF DcInv

\* The end of a run that took no work.
LEMMA EndsDc ==
    ASSUME SnapInv, DcInv, SnapshotRaises \/ CancelRun \/ FinishRun, UNCHANGED choiceVars
    PROVE  DcInv'
<1>1. Flags /\ Phases /\ Works /\ InStep /\ Timeline /\ EmptyStart
  BY DEF DcInv
<1>2. CASE SnapshotRaises \/ CancelRun
  <2>1. EndRun(FALSE) /\ UNCHANGED <<completed, doc, fs>>
    BY <1>2 DEF SnapshotRaises, CancelRun
  <2>2. EmptyStart'
    BY <1>1, <2>1, SameEmptyStart DEF EndRun, choiceVars
  <2> QED BY <2>1, <2>2, ExitDc
<1>3. CASE FinishRun
  <2>1. /\ pc = "top" /\ pc' = "idle" /\ todo' = <<>>
        /\ UNCHANGED <<checkpoints, completed, doc, dataset, resume_ok, client, fs, zsnaps, ok, unsaved>>
    BY <1>1, <1>3 DEF FinishRun, EndRun, Phases, choiceVars
  <2>2. Flags' /\ Executed' = Executed
    BY <1>1, <2>1, SameFlags
  <2>3. Phases'
    BY <1>1, <2>1, <2>2 DEF Phases
  <2>4. Loop' /\ SavedDoc' /\ Works'
    BY <1>1, <2>1, <2>2 DEF Loop, SavedDoc, Works
  <2>5. InStep'
    <3>1. (Live' <=> Live) /\ Ahead' = Ahead /\ ~AfterWork' /\ ~AfterWork /\ ~Saving'
      BY <2>1, <2>2 DEF Live, Ahead, AfterWork, Saving
    <3> QED BY <1>1, <2>1, <3>1 DEF InStep
  <2>6. Timeline' /\ EmptyStart'
    BY <1>1, <2>1, SameTimeline, SameEmptyStart
  <2> QED BY <2>2, <2>3, <2>4, <2>5, <2>6 DEF DcInv
<1> QED BY <1>2, <1>3

\* What a step adds to the work of the dataset.
LEMMA OnDatasetOfAppend ==
    ASSUME NEW w \in Seq(Effects), NEW e \in Effects
    PROVE  OnDataset(Append(w, e)) = IF e.ds = TRUE THEN Append(OnDataset(w), e) ELSE OnDataset(w)
<1> DEFINE S == [cp : Names, good : BOOLEAN, ds : {TRUE}]
<1>1. e \in S <=> e.ds = TRUE
  BY DEF Effects
<1>2. Kept(Append(w, e), S) = IF e \in S THEN Append(Kept(w, S), e) ELSE Kept(w, S)
  <2> HIDE DEF S
  <2> QED BY KeptOfAppend
<1> QED BY <1>1, <1>2 DEF OnDataset

\* The checkpoint in hand when it is executed.
LEMMA CheckpointInHand ==
    ASSUME SnapInv, DcInv, pc \in {"exec", "record"}
    PROVE  /\ todo # <<>> /\ Len(todo) > 0 /\ Turn = Executed + 1 /\ ~AfterWork /\ ~Saving
           /\ Executed + 1 \in 1..Len(checkpoints) /\ Executed + 1 <= Reach
           /\ Head(todo) = checkpoints[Executed + 1] /\ Head(todo) \in Names
           /\ client # "exited"
<1>1. Sizes /\ RunState
  BY SizesKnown DEF SnapInv
<1>2. ~AfterWork /\ ~Saving /\ Turn = Executed + 1
  BY DEF AfterWork, Saving, Turn
<1>3. todo # <<>>
  BY <1>1 DEF RunState
<1>4. Len(todo) > 0
  BY <1>1, <1>3, EmptySeq DEF Sizes
<1>5. /\ (Executed + 1) + Len(todo) - 1 <= Reach
      /\ \A j \in 1..Len(todo) : todo[j] = checkpoints[(Executed + 1) + (j - 1)]
  BY <1>2 DEF DcInv, Loop
<1>6. Reach <= Len(checkpoints) /\ Reach \in Nat
  BY <1>1 DEF Reach, Sizes
<1>7. Executed \in Nat /\ Len(checkpoints) \in Nat /\ Len(todo) \in Nat /\ todo \in Seq(Names)
  BY <1>1 DEF Sizes
<1>8. Executed + 1 \in 1..Len(checkpoints) /\ Executed + 1 <= Reach
  BY <1>4, <1>5, <1>6, <1>7
<1>9. Head(todo) = checkpoints[Executed + 1]
  <2>1. Head(todo) = todo[1]
    BY <1>3, <1>7, HeadTailProperties
  <2>2. todo[1] = checkpoints[(Executed + 1) + (1 - 1)]
    BY <1>4, <1>5, <1>7
  <2>3. (Executed + 1) + (1 - 1) = Executed + 1
    BY <1>7
  <2> QED BY <2>1, <2>2, <2>3
<1>10. Head(todo) \in Names
  BY <1>1, <1>8, <1>9 DEF Sizes
<1>11. client # "exited"
  BY DEF DcInv, Phases
<1> QED BY <1>2, <1>3, <1>4, <1>8, <1>9, <1>10, <1>11

\* A checkpoint's work is one more entry, in the DOC and, with a dataset, in the dataset.
LEMMA WorkAdded ==
    ASSUME SnapInv, NEW n \in Names, NEW g \in BOOLEAN, DoWork(n, g)
    PROVE  /\ doc'.done = doc.done
           /\ Len(doc'.work) = Len(doc.work) + 1
           /\ SameUpTo(doc'.work, doc.work, Len(doc.work))
           /\ doc'.work[Len(doc.work) + 1].cp = n /\ doc'.work[Len(doc.work) + 1].good = g
           /\ dataset = FALSE => fs'.work = fs.work
           /\ fs.work = OnDataset(doc.work) => fs'.work = OnDataset(doc'.work)
<1>1. doc \in Docs /\ GoodDataset(fs) /\ dataset \in BOOLEAN
  BY DEF SnapInv, Stores, Control
<1>2. PICK e : e = Effect(n, g)
  OBVIOUS
<1>3. e \in Effects /\ e.cp = n /\ e.good = g /\ e.ds = dataset
  BY <1>1, <1>2 DEF Effect, Effects
<1>4. doc.work \in Seq(Effects) /\ fs.work \in Seq(Effects)
  BY <1>1 DEF Docs, GoodDataset, Datasets
<1>5. doc'.done = doc.done /\ doc'.work = Append(doc.work, e)
  BY <1>1, <1>2 DEF DoWork, Docs
<1>6. /\ Len(doc'.work) = Len(doc.work) + 1
      /\ \A k \in 1..Len(doc.work) : doc'.work[k] = doc.work[k]
      /\ doc'.work[Len(doc.work) + 1] = e
  BY <1>3, <1>4, <1>5, AppendProperties
<1>7. OnDataset(doc'.work) = IF e.ds = TRUE THEN Append(OnDataset(doc.work), e) ELSE OnDataset(doc.work)
  BY <1>3, <1>4, <1>5, OnDatasetOfAppend
<1>8. dataset = TRUE => fs'.work = Append(fs.work, e)
  BY <1>1, <1>2 DEF DoWork, GoodDataset, Datasets
<1>9. dataset = FALSE => fs'.work = fs.work
  BY DEF DoWork
<1>10. fs.work = OnDataset(doc.work) => fs'.work = OnDataset(doc'.work)
  BY <1>1, <1>3, <1>7, <1>8, <1>9
<1> QED BY <1>3, <1>5, <1>6, <1>9, <1>10 DEF SameUpTo

\* When a checkpoint works on the dataset, its snapshot has been taken.
LEMMA SnapshotTaken ==
    ASSUME SnapInv, DcInv, pc \in {"exec", "record"}, dataset = TRUE
    PROVE  zsnaps # <<>>
<1>1. Sizes
  BY SizesKnown
<1>2. Live
  BY AtWork DEF DcInv
<1>3. Ahead = 1 /\ Executed >= unsaved
  BY <1>2 DEF DcInv, InStep, Phases
<1>4. Len(zsnaps) > 0
  BY <1>1, <1>3 DEF Ahead, Sizes
<1>5. Len(<<>>) = 0
  BY EmptySeq
<1> QED BY <1>4, <1>5

\* EmptyStart after the work of a checkpoint.
LEMMA WorkEmptyStart ==
    ASSUME SnapInv, DcInv, pc \in {"exec", "record"}, NEW n \in Names, NEW g \in BOOLEAN, DoWork(n, g),
           UNCHANGED <<zsnaps, unsaved>>
    PROVE  EmptyStart'
<1>1. EmptyStart /\ dataset \in BOOLEAN
  BY DEF DcInv, SnapInv, Control
<1>2. CASE dataset = TRUE
  <2>1. zsnaps' # <<>>
    BY <1>2, SnapshotTaken
  <2> QED BY <2>1 DEF EmptyStart
<1>3. CASE dataset = FALSE
  <2>1. fs'.work = fs.work
    BY <1>3, WorkAdded
  <2> QED BY <1>1, <2>1, SameEmptyStart
<1> QED BY <1>1, <1>2, <1>3

\* The checkpoint is executed.
LEMMA ExecuteSucceedsDc ==
    ASSUME SnapInv, DcInv, ExecuteSucceeds, UNCHANGED choiceVars
    PROVE  DcInv'
<1>1. Sizes
  BY SizesKnown
<1>2. Flags /\ Phases /\ Loop /\ Works /\ InStep /\ Timeline
  BY DEF DcInv
<1>3. /\ pc = "exec" /\ pc' = "record" /\ succeeded' = TRUE /\ DoWork(Head(todo), TRUE)
      /\ UNCHANGED <<checkpoints, completed, dataset, resume_ok, client, zsnaps, todo, ok,
                     snapshot_name, unsaved>>
  BY DEF ExecuteSucceeds, choiceVars
<1>4. /\ Turn = Executed + 1 /\ ~AfterWork
      /\ Head(todo) = checkpoints[Executed + 1] /\ Head(todo) \in Names /\ client # "exited"
  BY <1>3, CheckpointInHand
<1>5. /\ doc'.done = doc.done
      /\ Len(doc'.work) = Len(doc.work) + 1
      /\ SameUpTo(doc'.work, doc.work, Len(doc.work))
      /\ doc'.work[Len(doc.work) + 1].cp = Head(todo) /\ doc'.work[Len(doc.work) + 1].good = TRUE
      /\ fs.work = OnDataset(doc.work) => fs'.work = OnDataset(doc'.work)
  BY <1>3, <1>4, WorkAdded
<1>6. Flags' /\ Executed' = Executed
  BY <1>2, <1>3, <1>5, SameFlags
<1>7. ~AfterWork' /\ ~Saving' /\ Turn' = Turn /\ Reach' = Reach /\ Ahead' = Ahead /\ (Live' <=> Live)
  BY <1>3, <1>4, <1>6 DEF AfterWork, Saving, Turn, Reach, Ahead, Live
<1>8. Phases'
  BY <1>2, <1>3, <1>6 DEF Phases
<1>9. Loop'
  BY <1>2, <1>3, <1>7 DEF Loop
<1>10. Works'
  <2>1. /\ Len(doc.work) = Executed
        /\ \A j \in 1..Executed : doc.work[j].cp = checkpoints[j] /\ doc.work[j].good = TRUE
    BY <1>2, <1>3, <1>4 DEF Works
  <2>2. \A j \in 1..(Executed + 1) : j = Executed + 1 \/ j \in 1..Executed
    BY <1>1 DEF Sizes
  <2>3. ASSUME NEW j \in 1..(Executed + 1)
        PROVE  doc'.work[j].cp = checkpoints[j] /\ doc'.work[j].good = TRUE
    <3>1. CASE j = Executed + 1
      BY <1>4, <1>5, <2>1, <3>1
    <3>2. CASE j \in 1..Executed
      <4>1. doc'.work[j] = doc.work[j]
        BY <1>5, <2>1, <3>2 DEF SameUpTo
      <4> QED BY <2>1, <3>2, <4>1
    <3> QED BY <2>2, <3>1, <3>2
  <2>4. Len(doc'.work) = Executed + 1
    BY <1>5, <2>1
  <2> QED BY <1>3, <1>6, <2>3, <2>4 DEF Works
<1>11. InStep'
  BY <1>2, <1>3, <1>5, <1>7 DEF InStep
<1>12. Timeline'
  BY <1>2, <1>3, SameTimeline
<1>13. EmptyStart'
  BY <1>3, <1>4, WorkEmptyStart
<1>14. SavedDoc'
  BY <1>3 DEF SavedDoc
<1> QED BY <1>6, <1>8, <1>9, <1>10, <1>11, <1>12, <1>13, <1>14 DEF DcInv

\* Or fails, which ends the process.
LEMMA ExecuteFailsDc ==
    ASSUME SnapInv, DcInv, ExecuteFailsAndStops, UNCHANGED choiceVars
    PROVE  DcInv'
<1>1. /\ pc = "exec" /\ DoWork(Head(todo), FALSE) /\ EndRun(FALSE)
      /\ UNCHANGED <<zsnaps, unsaved, completed>>
  BY DEF ExecuteFailsAndStops, EndRun, choiceVars
<1>2. Head(todo) \in Names
  BY <1>1, CheckpointInHand
<1>3. doc'.done = doc.done
  BY <1>1, <1>2, WorkAdded
<1>4. EmptyStart'
  BY <1>1, <1>2, WorkEmptyStart
<1> QED BY <1>1, <1>3, <1>4, ExitDc

\* The record of a checkpoint that was executed.
LEMMA RecordCompletionDc ==
    ASSUME SnapInv, DcInv, RecordCompletion, UNCHANGED choiceVars
    PROVE  DcInv'
<1>1. Sizes /\ Control /\ Stores
  BY SizesKnown DEF SnapInv
<1>2. Flags /\ Phases /\ Loop /\ Works /\ InStep /\ Timeline /\ EmptyStart
  BY DEF DcInv
<1>3. /\ pc = "record" /\ pc' = "open" /\ snapshot_name' = Completed(Head(todo)) /\ succeeded = TRUE
      /\ doc' = [doc EXCEPT !.done = Append(doc.done, Head(todo))]
      /\ completed' = [completed EXCEPT ![Head(todo)] = succeeded]
      /\ UNCHANGED <<checkpoints, dataset, resume_ok, client, fs, zsnaps, todo, ok, succeeded,
                     unsaved>>
  BY <1>2 DEF RecordCompletion, choiceVars, Phases, Loop
<1>4. /\ todo # <<>> /\ Len(todo) > 0 /\ Turn = Executed + 1 /\ ~AfterWork
      /\ Executed + 1 \in 1..Len(checkpoints) /\ Executed + 1 <= Reach
      /\ Head(todo) = checkpoints[Executed + 1] /\ Head(todo) \in Names /\ client # "exited"
  BY <1>3, CheckpointInHand
<1>5. Executed \in Nat /\ Len(checkpoints) \in Nat /\ unsaved \in Nat /\ Len(zsnaps) \in Nat
  BY <1>1 DEF Sizes
<1>6. doc'.work = doc.work /\ doc'.done = Append(doc.done, Head(todo))
  BY <1>1, <1>3 DEF Stores, Docs
<1>7. Executed' = Executed + 1 /\ SameUpTo(doc'.done, checkpoints, Executed + 1)
  <2>1. doc.done \in Seq(Names)
    BY <1>1 DEF Sizes
  <2>2. /\ Len(doc'.done) = Executed + 1
        /\ \A k \in 1..Executed : doc'.done[k] = doc.done[k]
        /\ doc'.done[Executed + 1] = Head(todo)
    BY <1>4, <1>6, <2>1, AppendProperties DEF Executed
  <2>3. \A k \in 1..Executed : doc.done[k] = checkpoints[k]
    BY <1>2 DEF Flags, SameUpTo
  <2>4. ASSUME NEW k \in 1..(Executed + 1) PROVE doc'.done[k] = checkpoints[k]
    <3>1. CASE k = Executed + 1
      BY <1>4, <2>2, <3>1
    <3>2. CASE k \in 1..Executed
      BY <2>2, <2>3, <3>2
    <3> QED BY <1>5, <3>1, <3>2
  <2>5. Executed' = Executed + 1
    BY <2>2 DEF Executed
  <2> QED BY <2>4, <2>5 DEF SameUpTo
<1>8. Flags'
  <2>1. ASSUME NEW i \in 1..Len(checkpoints)
        PROVE  completed'[checkpoints[i]] <=> i <= Executed + 1
    <3>1. completed[checkpoints[i]] <=> i <= Executed
      BY <1>1, <1>2 DEF Flags, Sizes
    <3>2. checkpoints[i] \in Names /\ completed \in [Names -> BOOLEAN]
      BY <1>1 DEF Sizes, Control
    <3>3. CASE i = Executed + 1
      <4>1. completed'[checkpoints[i]] = TRUE
        BY <1>3, <1>4, <3>2, <3>3
      <4> QED BY <1>5, <3>3, <4>1
    <3>4. CASE i # Executed + 1
      <4>1. checkpoints[i] # Head(todo)
        BY <1>1, <1>4, <3>4 DEF Sizes
      <4>2. completed'[checkpoints[i]] = completed[checkpoints[i]]
        BY <1>3, <3>2, <4>1
      <4>3. i <= Executed <=> i <= Executed + 1
        BY <1>5, <3>4
      <4> QED BY <3>1, <4>2, <4>3
    <3> QED BY <3>3, <3>4
  <2>2. DOMAIN checkpoints = 1..Len(checkpoints)
    BY <1>1 DEF Sizes
  <2>3. Executed + 1 <= Len(checkpoints)
    BY <1>4, <1>5
  <2> QED BY <1>3, <1>7, <2>1, <2>2, <2>3 DEF Flags
<1>9. Saving' /\ AfterWork' /\ Turn' = Turn /\ Reach' = Reach /\ (Live' <=> Live)
      /\ snapshot_name'[1] = Head(todo')
  BY <1>3, <1>4, <1>7, NamesDiffer DEF AfterWork, Saving, Turn, Reach, Live
<1>10. Phases'
  <2>1. dataset = FALSE => Executed + 1 <= unsaved
    BY <1>4 DEF Reach
  <2>2. dataset = TRUE => Executed + 1 >= unsaved
    BY <1>2, <1>5 DEF Phases
  <2> QED BY <1>2, <1>3, <1>4, <1>7, <2>1, <2>2 DEF Phases
<1>11. Loop'
  BY <1>2, <1>3, <1>9 DEF Loop
<1>12. Works'
  BY <1>2, <1>3, <1>6, <1>7 DEF Works
<1>13. InStep'
  <2>1. Ahead' = Ahead - 2
    BY <1>3, <1>5, <1>7 DEF Ahead
  <2>2. (Live /\ dataset = TRUE) => Ahead = 1
    BY <1>2, <1>3 DEF InStep
  <2>3. (Live /\ dataset = TRUE) => Ahead' = -1
    BY <2>1, <2>2
  <2> QED BY <1>2, <1>3, <1>6, <1>9, <2>3 DEF InStep
<1>14. Timeline' /\ EmptyStart'
  BY <1>2, <1>3, SameTimeline, SameEmptyStart
<1>15. SavedDoc'
  BY <1>3 DEF SavedDoc
<1> QED BY <1>8, <1>10, <1>11, <1>12, <1>13, <1>14, <1>15 DEF DcInv

\* A new process, told to start afresh or to resume.
LEMMA RestartDc ==
    ASSUME ResumingClient, SnapInv, SnapInv', DcInv,
           NEW list \in Lists, NEW mode \in {"api", "fresh", "resume"}, Restart(list, mode),
           UNCHANGED choiceVars
    PROVE  DcInv'
<1>1. Sizes /\ Sizes'
  BY SizesKnown, SizesKnownNext
<1>2. Timeline /\ EmptyStart
  BY DEF DcInv
<1>3. /\ mode \in {"fresh", "resume"} /\ client' = mode
      /\ checkpoints' = list /\ completed' = NotCompleted /\ doc' = EmptyDoc
      /\ dataset' = FALSE /\ resume_ok' = TRUE /\ pc' = "idle" /\ ok' = TRUE /\ unsaved' = unsaved
  BY DEF Restart, ResumingClient, choiceVars
<1>4. \/ mode = "fresh" /\ fs' = EmptyDataset /\ zsnaps' = <<>>
      \/ mode = "resume" /\ fs' = fs /\ zsnaps' = zsnaps
  BY <1>3 DEF Restart
<1>5. doc'.done = <<>> /\ doc'.work = <<>> /\ Len(<<>>) = 0
  BY <1>3, EmptySeq DEF EmptyDoc
<1>6. Executed' = 0
  BY <1>5 DEF Executed
<1>7. Flags'
  <2>1. Len(checkpoints') \in Nat /\ DOMAIN checkpoints' = 1..Len(checkpoints')
        /\ \A i \in 1..Len(checkpoints') : checkpoints'[i] \in Names
    BY <1>1 DEF Sizes
  <2>2. \A i \in 1..Len(checkpoints') : completed'[checkpoints'[i]] = FALSE /\ ~(i <= 0)
    BY <1>3, <2>1 DEF NotCompleted
  <2>3. SameUpTo(doc'.done, checkpoints', 0)
    BY DEF SameUpTo
  <2> QED BY <1>6, <2>1, <2>2, <2>3 DEF Flags
<1>8. Phases'
  <2>1. unsaved' \in Nat
    BY <1>1 DEF Sizes
  <2>2. 0 <= unsaved'
    BY <2>1
  <2> QED BY <1>3, <1>6, <2>2 DEF Phases
<1>9. Loop' /\ SavedDoc'
  BY <1>3 DEF Loop, SavedDoc
<1>10. Works'
  BY <1>3, <1>5, <1>6 DEF Works
<1>11. OnDataset(<<>>) = <<>>
  BY KeptOfNothing DEF OnDataset
<1>12. InStep'
  BY <1>3, <1>4, <1>5, <1>11 DEF InStep, Live, EmptyDataset
<1>13. Timeline'
  <2>1. CASE zsnaps' = zsnaps
    BY <1>2, <1>3, <2>1, SameTimeline
  <2>2. CASE zsnaps' = <<>>
    <3>1. Timed(zsnaps', list, unsaved')
      BY <1>5, <2>2 DEF Timed
    <3> QED BY <3>1 DEF Timeline
  <2> QED BY <1>4, <2>1, <2>2
<1>14. EmptyStart'
  <2>1. CASE fs' = fs /\ zsnaps' = zsnaps
    BY <1>2, <1>3, <2>1, SameEmptyStart
  <2>2. CASE fs' = EmptyDataset
    BY <2>2 DEF EmptyStart, EmptyDataset
  <2> QED BY <1>4, <2>1, <2>2
<1> QED BY <1>7, <1>8, <1>9, <1>10, <1>12, <1>13, <1>14 DEF DcInv

(***************************************************************************)
(* Resuming                                                                *)
(***************************************************************************)
\* The count of matching checkpoints is one.
LEMMA MatchingCounts ==
    ASSUME SnapInv, fs.files # <<>>
    PROVE  Matching \in 0..Len(checkpoints)
<1>1. Len(checkpoints) \in Nat
  BY Known
<1>2. Len(NewestFile.doc.done) \in Nat
  <2>1. fs.files \in Seq(File)
    BY DEF SnapInv, Stores, GoodDataset, GoodFiles
  <2>2. Len(fs.files) \in Nat /\ Len(fs.files) # 0
    BY <2>1, EmptySeq, LenProperties
  <2>3. Len(fs.files) \in 1..Len(fs.files)
    BY <2>2
  <2>4. fs.files[Len(fs.files)] \in File
    BY <2>1, <2>3, ElementOfSeq
  <2>5. NewestFile.doc.done \in Seq(Names)
    BY <2>4 DEF NewestFile, File, Docs
  <2> QED BY <2>5, LenProperties
<1> DEFINE done == NewestFile.doc.done
           L == Len(checkpoints)
           D == Len(done)
           at(i) == Position(zsnaps, Pre(checkpoints[i]))
           matches(k) == \A i \in 1..k : /\ checkpoints[i] = done[i]
                                         /\ i > 1 => at(i) >= at(i - 1)
           Last(k) == /\ k <= D /\ matches(k)
                      /\ (k < L /\ k < D) => ~matches(k + 1)
           T == {k \in 1..L : k <= D /\ ~matches(k)}
<1>3. Matching = CHOOSE k \in 0..L : Last(k)
  BY DEF Matching
<1>4. matches(0)
  OBVIOUS
<1> HIDE DEF done, matches
<1>5. L \in Nat /\ D \in Nat
  BY <1>1, <1>2 DEF done
<1> HIDE DEF L, D
<1>6. \E k \in 0..L : Last(k)
  <2>1. CASE T = {}
    <3> DEFINE k == IF L <= D THEN L ELSE D
    <3>1. k \in 0..L /\ k <= D /\ ~(k < L /\ k < D)
      BY <1>5
    <3>2. matches(k)
      <4>1. CASE k = 0
        BY <1>4, <4>1
      <4>2. CASE k # 0
        <5> HIDE DEF k
        <5>1. k \in 1..L
          BY <1>5, <3>1, <4>2
        <5> QED BY <2>1, <3>1, <5>1
      <4> QED BY <4>1, <4>2
    <3> HIDE DEF k
    <3>3. Last(k)
      BY <3>1, <3>2
    <3> QED BY <3>1, <3>3
  <2>2. CASE T # {}
    <3>1. T \subseteq Nat
      BY <1>5
    <3>2. PICK m \in T : \A x \in T : m <= x
      BY <2>2, <3>1, LeastNumber
    <3>3. m \in 1..L /\ m <= D /\ ~matches(m)
      OBVIOUS
    <3>4. m - 1 \in 0..L /\ m - 1 <= D /\ (m - 1) + 1 = m /\ m - 1 < m
      BY <1>5, <3>3
    <3>5. matches(m - 1)
      <4>1. CASE m - 1 = 0
        BY <1>4, <4>1
      <4>2. CASE m - 1 # 0
        <5>1. m - 1 \in 1..L
          BY <1>5, <3>3, <4>2
        <5>2. m - 1 \notin T
          BY <3>2, <3>3, <3>4
        <5> QED BY <3>4, <5>1, <5>2
      <4> QED BY <4>1, <4>2
    <3>6. Last(m - 1)
      BY <3>3, <3>4, <3>5
    <3> QED BY <3>4, <3>6
  <2> QED BY <2>1, <2>2
<1> HIDE DEF Last
<1>7. Matching \in 0..L
  BY <1>3, <1>6
<1> QED BY <1>7 DEF L

\* The resumable checkpoints have a snapshot, but for the first one and the last one.
ResumableShape ==
    /\ Resumable \subseteq DOMAIN checkpoints /\ 1 \in DOMAIN checkpoints
    /\ \/ Resumable = {1}
       \/ /\ \E i \in Resumable : Has(zsnaps, Pre(checkpoints[i]))
          /\ \A p \in Resumable : Has(zsnaps, Pre(checkpoints[p])) \/ \A q \in Resumable : q <= p

\* get_resumable_checkpoints returns the first checkpoint alone, or checkpoints that all have
\* a first snapshot except perhaps the last of them.
LEMMA ResumableKnownShape ==
    ASSUME SnapInv
    PROVE  ResumableShape
<1>1. DOMAIN checkpoints = 1..Len(checkpoints) /\ Len(checkpoints) \in Nat /\ 1 \in DOMAIN checkpoints
  BY SizesKnown DEF Sizes
<1>2. CASE fs.files = <<>>
  BY <1>1, <1>2 DEF Resumable, ResumableShape
<1>3. CASE fs.files # <<>>
  <2> DEFINE found == {i \in 1..Matching : Has(zsnaps, Pre(checkpoints[i]))}
  <2>1. Matching \in 0..Len(checkpoints)
    BY <1>3, MatchingCounts
  <2>2. CASE found = {}
    BY <1>1, <1>3, <2>2 DEF Resumable, ResumableShape
  <2>3. CASE found # {}
    <3>1. Resumable = (found \cup {Matching + 1}) \cap DOMAIN checkpoints
      BY <1>3, <2>3 DEF Resumable
    <3>2. \A i \in found : i \in DOMAIN checkpoints /\ i <= Matching /\ Has(zsnaps, Pre(checkpoints[i]))
      BY <1>1, <2>1
    <3> HIDE DEF found
    <3>3. \E i \in Resumable : Has(zsnaps, Pre(checkpoints[i]))
      BY <2>3, <3>1, <3>2
    <3>4. ASSUME NEW p \in Resumable
          PROVE  Has(zsnaps, Pre(checkpoints[p])) \/ \A q \in Resumable : q <= p
      <4>1. CASE p \in found
        BY <3>2, <4>1
      <4>2. CASE p = Matching + 1
        <5>1. \A q \in Resumable : q = Matching + 1 \/ (q \in DOMAIN checkpoints /\ q <= Matching)
          BY <3>1, <3>2
        <5> QED BY <1>1, <2>1, <4>2, <5>1
      <4> QED BY <3>1, <4>1, <4>2
    <3>5. Resumable \subseteq DOMAIN checkpoints
      BY <3>1
    <3> QED BY <1>1, <3>3, <3>4, <3>5 DEF ResumableShape
  <2> QED BY <2>2, <2>3
<1> QED BY <1>2, <1>3

\* A checkpoint that two lists share has one position and the same predecessors.
LEMMA SharedCheckpoint ==
    ASSUME ResumingClient, NEW l \in Lists, NEW m \in Lists, NEW i \in DOMAIN l, NEW j \in DOMAIN m, l[i] = m[j]
    PROVE  i = j /\ SameUpTo(l, m, i)
BY DEF ResumingClient, SamePredecessors, SameUpTo

\* The flags after _rollback.
LEMMA RolledBackFlags ==
    ASSUME SnapInv, NEW p \in DOMAIN checkpoints, NEW i \in DOMAIN checkpoints
    PROVE  RolledBack(checkpoints, completed, p)[checkpoints[i]] <=> i < p
<1>1. Sizes /\ completed \in [Names -> BOOLEAN]
  BY SizesKnown DEF SnapInv, Control
<1>2. DOMAIN checkpoints = 1..Len(checkpoints) /\ checkpoints[i] \in Names
      /\ \A j \in DOMAIN checkpoints : checkpoints[j] = checkpoints[i] => j = i
  BY <1>1 DEF Sizes
<1>3. IsRegistered(checkpoints, checkpoints[i])
  BY DEF IsRegistered
<1>4. CpIndex(checkpoints, checkpoints[i]) = i
  <2>1. (CHOOSE j \in DOMAIN checkpoints : checkpoints[j] = checkpoints[i]) = i
    BY <1>2
  <2> QED BY <2>1 DEF CpIndex
<1>5. RolledBack(checkpoints, completed, p)[checkpoints[i]] = (CpIndex(checkpoints, checkpoints[i]) < p)
  BY <1>1, <1>2, <1>3 DEF RolledBack
<1> QED BY <1>4, <1>5

\* A snapshot to go back to for checkpoint p of list l: its own first one, or the second one
\* of the checkpoint before it.
RollbackPoint(z, l, u, p, name, x) ==
    /\ x \in 1..Len(z) /\ Get(z, name) = z[x] /\ Position(z, name) = x
    /\ x = 2 * (p - u) - 1 \/ x = 2 * (p - u) - 2
    /\ Point(z[x], name, l, p - 1)

\* A rollback goes back to such a snapshot, which is one of the list that is registered now.
LEMMA RollbackToPoint ==
    ASSUME ResumingClient, SnapInv, Timeline, NEW p \in DOMAIN checkpoints, p > unsaved, NEW name,
           \/ name = Pre(checkpoints[p])
           \/ p - 1 \in DOMAIN checkpoints /\ name = Completed(checkpoints[p - 1]),
           Has(zsnaps, name)
    PROVE  \E x \in 1..Len(zsnaps) :
              /\ RollbackPoint(zsnaps, checkpoints, unsaved, p, name, x)
              /\ Timed(SubSeq(zsnaps, 1, x), checkpoints, unsaved)
              /\ Len(SubSeq(zsnaps, 1, x)) = x
<1>1. Sizes /\ checkpoints \in Lists
  BY SizesKnown DEF SnapInv, Control
<1>2. PICK l \in Lists : Timed(zsnaps, l, unsaved)
  BY DEF Timeline
<1>3. Len(l) \in Nat /\ DOMAIN l = 1..Len(l)
  BY ListsAssumption, LenProperties
<1>4. /\ DOMAIN checkpoints = 1..Len(checkpoints) /\ Len(checkpoints) \in Nat
      /\ unsaved \in Nat /\ GoodSnaps(zsnaps) /\ Len(zsnaps) \in Nat
  BY <1>1 DEF Sizes
<1>5. p \in Nat /\ p <= Len(checkpoints) /\ p > 0
  BY <1>4
<1>6. CASE name = Pre(checkpoints[p])
  <2>1. PICK i \in 1..Len(zsnaps) : PreFoundAt(zsnaps, l, unsaved, checkpoints[p], i)
    BY <1>2, <1>4, <1>6, PreFound
  <2>2. /\ 2 * i - 1 <= Len(zsnaps) /\ unsaved + i <= Len(l) /\ l[unsaved + i] = checkpoints[p]
        /\ Get(zsnaps, name) = zsnaps[2 * i - 1] /\ Position(zsnaps, name) = 2 * i - 1
        /\ Point(zsnaps[2 * i - 1], name, l, unsaved + i - 1)
    BY <1>6, <2>1 DEF PreFoundAt
  <2>3. unsaved + i \in DOMAIN l
    BY <1>3, <1>4, <2>2
  <2>4. unsaved + i = p /\ SameUpTo(l, checkpoints, p)
    BY <1>1, <2>2, <2>3, SharedCheckpoint
  <2> DEFINE x == 2 * i - 1
  <2>5. x \in 1..Len(zsnaps) /\ x \in 0..Len(zsnaps) /\ x = 2 * (p - unsaved) - 1 /\ x <= 2 * (p - unsaved)
        /\ unsaved + i - 1 = p - 1
    <3>1. i \in Nat /\ i > 0 /\ 2 * i - 1 <= Len(zsnaps) /\ unsaved + i = p
      BY <1>4, <2>2, <2>4
    <3>2. i = p - unsaved /\ unsaved + i - 1 = p - 1
      BY <1>4, <1>5, <3>1
    <3>3. x \in 1..Len(zsnaps) /\ x \in 0..Len(zsnaps)
      BY <1>4, <3>1
    <3>4. x = 2 * (p - unsaved) - 1
      BY <3>2
    <3>5. x <= 2 * (p - unsaved)
      BY <1>4, <1>5, <3>4
    <3> QED BY <3>2, <3>3, <3>4, <3>5
  <2> HIDE DEF x
  <2>6. Timed(SubSeq(zsnaps, 1, x), l, unsaved) /\ Len(SubSeq(zsnaps, 1, x)) = x
    BY <1>2, <1>4, <2>5, TimedPrefix
  <2>7. x \in Nat /\ p - 1 \in Nat /\ p - 1 <= p
    BY <1>5, <2>5
  <2>8. Timed(SubSeq(zsnaps, 1, x), checkpoints, unsaved)
    <3> DEFINE y == SubSeq(zsnaps, 1, x)
    <3>1. Timed(y, l, unsaved) /\ Len(y) \in Nat /\ Len(y) <= 2 * (p - unsaved)
      BY <2>5, <2>6, <2>7
    <3> HIDE DEF y
    <3>2. Timed(y, checkpoints, unsaved)
      BY <1>4, <1>5, <2>4, <3>1, TimedOther
    <3> QED BY <3>2 DEF y
  <2>9. Point(zsnaps[x], name, l, p - 1) /\ Get(zsnaps, name) = zsnaps[x] /\ Position(zsnaps, name) = x
    BY <2>2, <2>5 DEF x
  <2>10. Point(zsnaps[x], name, checkpoints, p - 1)
    BY <1>5, <2>4, <2>7, <2>9, CleanDocOther DEF Point
  <2>11. RollbackPoint(zsnaps, checkpoints, unsaved, p, name, x)
    BY <2>5, <2>9, <2>10 DEF RollbackPoint
  <2> QED BY <2>5, <2>6, <2>8, <2>11
<1>7. CASE p - 1 \in DOMAIN checkpoints /\ name = Completed(checkpoints[p - 1])
  <2>1. PICK i \in 1..Len(zsnaps) : CompletedFoundAt(zsnaps, l, unsaved, checkpoints[p - 1], i)
    BY <1>2, <1>4, <1>7, CompletedFound
  <2>2. /\ 2 * i <= Len(zsnaps) /\ unsaved + i <= Len(l) /\ l[unsaved + i] = checkpoints[p - 1]
        /\ Get(zsnaps, name) = zsnaps[2 * i] /\ Position(zsnaps, name) = 2 * i
        /\ Point(zsnaps[2 * i], name, l, unsaved + i)
    BY <1>7, <2>1 DEF CompletedFoundAt
  <2>3. unsaved + i \in DOMAIN l
    BY <1>3, <1>4, <2>2
  <2>4. unsaved + i = p - 1 /\ SameUpTo(l, checkpoints, p - 1)
    BY <1>1, <1>7, <2>2, <2>3, SharedCheckpoint
  <2> DEFINE x == 2 * i
  <2>5. x \in 1..Len(zsnaps) /\ x \in 0..Len(zsnaps) /\ x = 2 * (p - unsaved) - 2 /\ x <= 2 * ((p - 1) - unsaved)
    <3>1. i \in Nat /\ i > 0 /\ 2 * i <= Len(zsnaps) /\ unsaved + i = p - 1
      BY <1>4, <2>2, <2>4
    <3>2. i = (p - 1) - unsaved
      BY <1>4, <1>5, <3>1
    <3>3. x \in 1..Len(zsnaps) /\ x \in 0..Len(zsnaps)
      BY <1>4, <3>1
    <3>4. x = 2 * ((p - 1) - unsaved)
      BY <3>2
    <3>5. x = 2 * (p - unsaved) - 2
      BY <1>4, <1>5, <3>4
    <3>6. x <= 2 * ((p - 1) - unsaved)
      BY <1>4, <1>5, <3>4
    <3> QED BY <3>3, <3>5, <3>6
  <2> HIDE DEF x
  <2>6. Timed(SubSeq(zsnaps, 1, x), l, unsaved) /\ Len(SubSeq(zsnaps, 1, x)) = x
    BY <1>2, <1>4, <2>5, TimedPrefix
  <2>7. x \in Nat /\ p - 1 \in Nat /\ p - 1 <= Len(checkpoints) /\ p - 1 <= p - 1
    BY <1>4, <1>5, <2>5
  <2>8. Timed(SubSeq(zsnaps, 1, x), checkpoints, unsaved)
    <3> DEFINE y == SubSeq(zsnaps, 1, x)
    <3>1. Timed(y, l, unsaved) /\ Len(y) \in Nat /\ Len(y) <= 2 * ((p - 1) - unsaved)
      BY <2>5, <2>6, <2>7
    <3> HIDE DEF y
    <3>2. Timed(y, checkpoints, unsaved)
      BY <1>4, <2>4, <2>7, <3>1, TimedOther
    <3> QED BY <3>2 DEF y
  <2>9. Point(zsnaps[x], name, l, p - 1) /\ Get(zsnaps, name) = zsnaps[x] /\ Position(zsnaps, name) = x
    BY <2>2, <2>4 DEF x
  <2>10. Point(zsnaps[x], name, checkpoints, p - 1)
    BY <2>4, <2>7, <2>9, CleanDocOther DEF Point
  <2>11. RollbackPoint(zsnaps, checkpoints, unsaved, p, name, x)
    BY <2>5, <2>9, <2>10 DEF RollbackPoint
  <2> QED BY <2>5, <2>6, <2>8, <2>11
<1> QED BY <1>6, <1>7

\* Which snapshot _rollback chooses for a checkpoint that is not completed, if it does
\* not raise.
LEMMA RollbackChoice ==
    ASSUME SnapInv, dataset = TRUE, NEW p \in DOMAIN checkpoints, ~completed[checkpoints[p]],
           CanRollback(p, Resumable)
    PROVE  \E name \in SnapNames :
              /\ \/ name = Pre(checkpoints[p])
                 \/ p - 1 \in DOMAIN checkpoints /\ name = Completed(checkpoints[p - 1])
              /\ Has(zsnaps, name)
              /\ RollbackSource(p, Resumable) = [snap |-> name, file |-> <<"dataset", name>>]
<1>1. /\ DOMAIN checkpoints = 1..Len(checkpoints) /\ Len(checkpoints) \in Nat
      /\ \A i \in DOMAIN checkpoints : checkpoints[i] \in Names
  BY SizesKnown DEF Sizes
<1> DEFINE n    == checkpoints[p]
           last == Resumable # {} /\ \A q \in Resumable : q <= p
           prev == Completed(checkpoints[p - 1])
<1>2. CASE Has(zsnaps, Pre(n))
  <2>1. RollbackSource(p, Resumable) = [snap |-> Pre(n), file |-> CacheFile(Pre(n))]
    BY <1>2 DEF RollbackSource
  <2>2. CacheFile(Pre(n)) = <<"dataset", Pre(n)>>
    BY DEF CacheFile
  <2>3. Pre(n) \in SnapNames
    BY <1>1, SnapshotNames
  <2> QED BY <1>2, <2>1, <2>2, <2>3
<1>3. CASE ~Has(zsnaps, Pre(n)) /\ last /\ Resumable # {p} /\ Has(zsnaps, prev)
  <2>1. RollbackSource(p, Resumable) = [snap |-> prev, file |-> CacheFile(prev)]
    BY <1>3 DEF RollbackSource
  <2>2. CacheFile(prev) = <<"dataset", prev>>
    BY DEF CacheFile
  <2>3. PICK q \in Resumable : q # p
    BY <1>3
  <2>4. q <= p /\ q \in DOMAIN checkpoints
    BY <1>3, <2>3, ResumableKnownShape DEF ResumableShape
  <2>5. p - 1 \in DOMAIN checkpoints
    BY <1>1, <2>3, <2>4
  <2>6. prev \in SnapNames
    BY <1>1, <2>5, SnapshotNames
  <2> QED BY <1>3, <2>1, <2>2, <2>5, <2>6
<1>4. CASE ~Has(zsnaps, Pre(n)) /\ ~(last /\ Resumable # {p} /\ Has(zsnaps, prev))
  <2>1. RollbackSource(p, Resumable) = [snap |-> None, file |-> None]
    BY <1>4 DEF RollbackSource
  <2> QED BY <2>1 DEF CanRollback
<1> QED BY <1>2, <1>3, <1>4

\* No name of a snapshot is None.
LEMMA NameNotNone ==
    ASSUME NEW name \in SnapNames
    PROVE  name # None /\ <<"dataset", name>> # None
<1>1. None \notin SnapNames /\ None \notin {"dataset", "tmp"} \X SnapNames
  BY NoneAssumption DEF SnapNames
<1> QED BY <1>1

\* What a resume with a rollback leaves.
ResumePoint(p) ==
    /\ CleanDoc(doc', checkpoints, p - 1) /\ fs'.work = OnDataset(doc'.work)
    /\ Timed(zsnaps', checkpoints, unsaved)
    /\ Len(zsnaps') = 2 * (p - unsaved) - 1 \/ Len(zsnaps') = 2 * (p - unsaved) - 2
    /\ Len(zsnaps') > 0
    /\ \A i \in DOMAIN checkpoints : completed'[checkpoints[i]] <=> i < p

\* A resume that rolls back leaves such a state.
LEMMA ResumeRollsBack ==
    ASSUME ResumingClient, SnapInv, DcInv, NEW p \in DOMAIN checkpoints, dataset = TRUE,
           p > unsaved, Executed = unsaved, Rollback(p, Resumable)
    PROVE  ResumePoint(p)
<1>1. Sizes
  BY SizesKnown
<1>2. p \in Nat /\ unsaved \in Nat /\ DOMAIN checkpoints = 1..Len(checkpoints) /\ Len(zsnaps) \in Nat
  BY <1>1 DEF Sizes
<1>3. ~completed[checkpoints[p]]
  BY <1>2 DEF DcInv, Flags
<1>4. CanRollback(p, Resumable)
  BY DEF Rollback
<1>5. PICK name \in SnapNames :
          /\ \/ name = Pre(checkpoints[p])
             \/ p - 1 \in DOMAIN checkpoints /\ name = Completed(checkpoints[p - 1])
          /\ Has(zsnaps, name)
          /\ RollbackSource(p, Resumable) = [snap |-> name, file |-> <<"dataset", name>>]
  BY <1>3, <1>4, RollbackChoice
<1>6. PICK x \in 1..Len(zsnaps) :
          /\ RollbackPoint(zsnaps, checkpoints, unsaved, p, name, x)
          /\ Timed(SubSeq(zsnaps, 1, x), checkpoints, unsaved)
          /\ Len(SubSeq(zsnaps, 1, x)) = x
  BY <1>5, RollbackToPoint DEF DcInv
<1>7. name # None
  BY NameNotNone
<1>8. PICK src : src = RollbackSource(p, Resumable)
  OBVIOUS
<1>9. src.snap = name /\ src.file[1] = "dataset" /\ src.file[2] = name
  BY <1>5, <1>8
<1>10. /\ fs' = RolledBackDataset(src)
       /\ zsnaps' = IF src.snap = None THEN zsnaps
                    ELSE SubSeq(zsnaps, 1, Position(zsnaps, src.snap))
       /\ doc' = Get(FilesAfter(src), src.file[2]).doc
       /\ completed' = RolledBack(checkpoints, completed, p)
  BY <1>8 DEF Rollback
<1>11. Get(zsnaps, name) = zsnaps[x] /\ Position(zsnaps, name) = x
       /\ Point(zsnaps[x], name, checkpoints, p - 1)
       /\ (x = 2 * (p - unsaved) - 1 \/ x = 2 * (p - unsaved) - 2)
  BY <1>6 DEF RollbackPoint
<1>12. fs' = zsnaps[x].fs /\ zsnaps' = SubSeq(zsnaps, 1, x)
  BY <1>7, <1>9, <1>10, <1>11 DEF RolledBackDataset
<1>13. doc' = Get(zsnaps[x].fs.files, name).doc
  BY <1>9, <1>10, <1>12 DEF FilesAfter
<1>14. CleanDoc(doc', checkpoints, p - 1) /\ fs'.work = OnDataset(doc'.work)
  BY <1>11, <1>12, <1>13 DEF Point
<1>15. \A i \in DOMAIN checkpoints : completed'[checkpoints[i]] <=> i < p
  BY <1>10, RolledBackFlags
<1>16. Len(zsnaps') = x /\ x > 0
  BY <1>2, <1>6, <1>12
<1> QED BY <1>6, <1>11, <1>12, <1>14, <1>15, <1>16 DEF ResumePoint

\* What resume_execute_checkpoints leaves when there is nothing to roll back.
LEMMA ResumeFromNothing ==
    ASSUME ResumingClient, SnapInv, DcInv, NEW p \in DOMAIN checkpoints,
           Executed = unsaved, NoRollbackNecessary(p), pc = "idle", client # "exited"
    PROVE  p = 1 /\ unsaved = 0 /\ zsnaps = <<>> /\ fs.work = OnDataset(doc.work)
<1>1. Sizes /\ checkpoints \in Lists
  BY SizesKnown DEF SnapInv, Control
<1>2. Resumable = {p} /\ ~completed[checkpoints[p]] /\ ~Has(zsnaps, Pre(checkpoints[p]))
  BY DEF NoRollbackNecessary
<1>3. p = 1
  BY <1>2, ResumableKnownShape DEF ResumableShape
<1>4. Executed \in Nat /\ unsaved \in Nat /\ DOMAIN checkpoints = 1..Len(checkpoints)
      /\ Len(zsnaps) \in Nat /\ GoodSnaps(zsnaps) /\ doc.work \in Seq(Effects)
  BY <1>1 DEF Sizes
<1>5. ~(p <= Executed)
  BY <1>2 DEF DcInv, Flags
<1>6. Executed = 0 /\ unsaved = 0
  BY <1>3, <1>4, <1>5
<1>7. Len(zsnaps) = 0
  <2> SUFFICES ASSUME Len(zsnaps) > 0
               PROVE  FALSE
    BY <1>4
  <2>1. PICK l \in Lists : Timed(zsnaps, l, unsaved)
    BY DEF DcInv, Timeline
  <2>2. 1 \in 1..Len(zsnaps) /\ 2 * 1 - 1 <= Len(zsnaps) /\ 2 * 1 - 1 = 1
    BY <1>4
  <2>3. PrePoint(zsnaps, l, unsaved, 1)
    BY <2>1, <2>2 DEF Timed
  <2>4. zsnaps[1].name = Pre(l[unsaved + 1])
    BY <2>2, <2>3 DEF PrePoint, Point
  <2>5. unsaved + 1 = 1
    BY <1>6
  <2>6. l[1] = checkpoints[1]
    BY <1>1, <2>1 DEF ResumingClient, SamePredecessors
  <2>7. zsnaps[1].name = Pre(checkpoints[p])
    BY <1>3, <2>4, <2>5, <2>6
  <2>8. Has(zsnaps, Pre(checkpoints[p]))
    BY <1>4, <2>2, <2>7, FoundAt
  <2> QED BY <1>2, <2>8
<1>8. zsnaps = <<>>
  BY <1>4, <1>7, EmptySeq DEF GoodSnaps
<1>9. fs.work = <<>>
  BY <1>6, <1>8 DEF DcInv, EmptyStart
<1>10. doc.work = <<>>
  <2>1. Len(doc.work) = 0
    BY <1>6 DEF DcInv, Works
  <2> QED BY <1>4, <2>1, EmptySeq
<1>11. OnDataset(<<>>) = <<>>
  BY KeptOfNothing DEF OnDataset
<1>12. fs.work = OnDataset(doc.work)
  BY <1>9, <1>10, <1>11, Zenon
<1> QED BY <1>3, <1>6, <1>8, <1>12

\* resume_execute_checkpoints(start_from).
LEMMA ResumeDc ==
    ASSUME ResumingClient, SnapInv, SnapInv', DcInv, NEW p \in DOMAIN checkpoints,
           NEW pause \in 1..(Len(checkpoints) + 1), Resume(p, pause), ResumesOnDataset,
           UNCHANGED choiceVars
    PROVE  DcInv' /\ Live' /\ pc' \in {"idle", "top"} /\ checkpoints' = checkpoints
<1>1. Sizes /\ Sizes' /\ Control /\ Phases /\ Flags /\ Works
  BY SizesKnown, SizesKnownNext DEF SnapInv, DcInv
<1>2. /\ pc = "idle" /\ client = "resume" /\ resume_ok = TRUE /\ dataset = TRUE
      /\ resume_ok' = FALSE /\ StartRun(p, pause, completed')
      /\ UNCHANGED <<checkpoints, dataset, client, snapshot_name, unsaved>>
  BY <1>1 DEF Resume, MayStart, ResumableKnown, choiceVars, Phases, Control
<1>3. Executed = unsaved
  BY <1>1, <1>2 DEF Phases
<1>4. /\ Executed \in Nat /\ unsaved \in Nat /\ DOMAIN checkpoints = 1..Len(checkpoints)
      /\ Len(checkpoints) \in Nat /\ Len(zsnaps) \in Nat /\ p \in Nat /\ p > 0 /\ p <= Len(checkpoints)
  <2>1. Sizes
    BY <1>1
  <2>2. /\ Executed \in Nat /\ unsaved \in Nat /\ DOMAIN checkpoints = 1..Len(checkpoints)
        /\ Len(checkpoints) \in Nat /\ Len(zsnaps) \in Nat
    BY <2>1 DEF Sizes
  <2> QED BY <2>2
<1>5. /\ CleanDoc(doc', checkpoints, p - 1) /\ fs'.work = OnDataset(doc'.work)
      /\ Timed(zsnaps', checkpoints, unsaved)
      /\ Len(zsnaps') = 2 * (p - unsaved) - 1 \/ Len(zsnaps') = 2 * (p - unsaved) - 2
      /\ EmptyStart' /\ p > unsaved
      /\ \A i \in DOMAIN checkpoints : completed'[checkpoints[i]] <=> i < p
  <2>1. CASE NoRollbackNecessary(p)
    <3>1. UNCHANGED <<fs, zsnaps, doc, completed>>
      BY <2>1 DEF Resume
    <3>2. p = 1 /\ unsaved = 0 /\ zsnaps = <<>> /\ fs.work = OnDataset(doc.work)
      BY <1>2, <1>3, <2>1, ResumeFromNothing
    <3>3. Len(zsnaps') = 0
      BY <3>1, <3>2, EmptySeq
    <3>4. Timed(zsnaps', checkpoints, unsaved)
      BY <3>3 DEF Timed
    <3>5. EmptyStart'
      BY <1>2, <3>1, SameEmptyStart DEF DcInv
    <3>6. CleanDoc(doc', checkpoints, 0)
      BY <1>1, <1>2, <1>3, <3>1, <3>2 DEF CleanDoc, Works, Flags, Executed, SameUpTo
    <3>7. \A i \in DOMAIN checkpoints : completed'[checkpoints[i]] <=> i < 1
      BY <1>1, <1>3, <1>4, <3>1, <3>2 DEF Flags
    <3>8. p - 1 = 0 /\ 0 = 2 * (p - unsaved) - 2 /\ p > unsaved
      BY <3>2
    <3> QED BY <3>1, <3>2, <3>3, <3>4, <3>5, <3>6, <3>7, <3>8
  <2>2. CASE ~NoRollbackNecessary(p)
    <3>1. Rollback(p, Resumable)
      BY <2>2 DEF Resume
    <3>2. \A i \in DOMAIN checkpoints : completed'[checkpoints[i]] <=> i < p
      BY <3>1, RolledBackFlags DEF Rollback
    <3>3. IsFirstIncomplete(checkpoints, completed', p)
      BY <1>4, <3>2 DEF IsFirstIncomplete
    <3>4. p > unsaved
      BY <1>2, <3>3 DEF ResumesOnDataset, ResumesAt
    <3>5. ResumePoint(p)
      BY <1>2, <1>3, <3>1, <3>4, ResumeRollsBack
    <3>6. zsnaps' # <<>>
      BY <3>5, EmptySeq DEF ResumePoint
    <3> QED BY <3>4, <3>5, <3>6 DEF ResumePoint, EmptyStart
  <2> QED BY <2>1, <2>2
<1>6. Executed' = p - 1
  BY <1>5 DEF CleanDoc, Executed
<1>7. Flags'
  <2>1. p - 1 <= Len(checkpoints) /\ \A i \in 1..Len(checkpoints) : i < p <=> i <= p - 1
    BY <1>4
  <2>2. SameUpTo(doc'.done, checkpoints, p - 1)
    BY <1>5 DEF CleanDoc
  <2>3. \A i \in DOMAIN checkpoints : completed'[checkpoints[i]] <=> i <= p - 1
    BY <1>4, <1>5, <2>1
  <2> QED BY <1>2, <1>6, <2>1, <2>2, <2>3 DEF Flags
<1>8. Loop' /\ pc' \in {"idle", "top"} /\ ok' = TRUE
  <2>1. Executed' + 1 = p
    BY <1>4, <1>6
  <2>2. Reach' = Len(checkpoints)
    BY <1>2 DEF Reach
  <2>3. pause <= Len(checkpoints) + 1
    BY <1>4
  <2> QED BY <1>2, <1>4, <2>1, <2>2, <2>3, RunOfList
<1>9. Phases'
  <2>1. p - 1 >= unsaved
    BY <1>4, <1>5
  <2> QED BY <1>2, <1>6, <1>8, <2>1 DEF Phases
<1>10. Works'
  BY <1>2, <1>5, <1>6, <1>8 DEF Works, CleanDoc
<1>11. Live' /\ ~Saving' /\ ~AfterWork'
  BY <1>2, <1>8 DEF Live, Saving, AfterWork
<1>12. InStep'
  <2>1. Ahead' = Len(zsnaps') - 2 * ((p - 1) - unsaved)
    BY <1>2, <1>6 DEF Ahead
  <2>2. Len(zsnaps') - 2 * ((p - 1) - unsaved) \in {0, 1}
    <3>1. Len(zsnaps') \in Int
      BY <1>1 DEF Sizes
    <3>2. p \in Int /\ unsaved \in Int
      BY <1>4
    <3> QED BY <1>5, <3>1, <3>2, AheadCount
  <2>3. Ahead' \in {0, 1}
    BY <2>1, <2>2
  <2> QED BY <1>2, <1>5, <1>8, <1>11, <2>3 DEF InStep
<1>13. Timeline'
  BY <1>1, <1>2, <1>5 DEF Timeline, Control
<1>14. SavedDoc'
  BY <1>8 DEF SavedDoc
<1> QED BY <1>2, <1>5, <1>7, <1>8, <1>9, <1>10, <1>11, <1>12, <1>13, <1>14 DEF DcInv

(***************************************************************************)
(* The theorems about distro_const                                         *)
(***************************************************************************)
LEMMA InitDc == ASSUME ResumingClient PROVE Init => DcInv
<1> SUFFICES ASSUME Init
             PROVE  DcInv
  OBVIOUS
<1>1. Sizes
  BY InitSnaps, SizesKnown
<1>2. /\ completed = NotCompleted /\ doc = EmptyDoc /\ dataset = FALSE /\ resume_ok = TRUE
      /\ client = "fresh" /\ fs = EmptyDataset /\ zsnaps = <<>> /\ pc = "idle" /\ ok = TRUE
      /\ checkpoints \in Lists
  BY DEF Init, ResumingClient
<1>3. doc.done = <<>> /\ doc.work = <<>> /\ fs.work = <<>> /\ Len(<<>>) = 0
  BY <1>2, EmptySeq DEF EmptyDoc, EmptyDataset
<1>4. Executed = 0
  BY <1>3 DEF Executed
<1>5. Flags
  <2>1. Len(checkpoints) \in Nat /\ DOMAIN checkpoints = 1..Len(checkpoints)
        /\ \A i \in 1..Len(checkpoints) : checkpoints[i] \in Names
    BY <1>1 DEF Sizes
  <2>2. \A i \in 1..Len(checkpoints) : completed[checkpoints[i]] = FALSE /\ ~(i <= 0)
    BY <1>2, <2>1 DEF NotCompleted
  <2> QED BY <1>4, <2>1, <2>2 DEF Flags, SameUpTo
<1>6. Phases
  <2>1. 0 <= unsaved
    BY <1>1 DEF Sizes
  <2> QED BY <1>2, <1>4, <2>1 DEF Phases
<1>7. Loop /\ SavedDoc /\ EmptyStart
  BY <1>2, <1>3 DEF Loop, SavedDoc, EmptyStart
<1>8. Works
  BY <1>2, <1>3, <1>4 DEF Works
<1>9. InStep
  BY <1>2, <1>3, KeptOfNothing DEF InStep, OnDataset
<1>10. Timeline
  BY <1>2, <1>3 DEF Timeline, Timed
<1> QED BY <1>5, <1>6, <1>7, <1>8, <1>9, <1>10 DEF DcInv

\* Every step keeps the invariant.
LEMMA NextDc ==
    ASSUME ResumingClient
    PROVE  /\ SnapInv /\ DcInv /\ [Next /\ UNCHANGED choiceVars]_vars
           /\ [ResumesOnDataset]_vars
           => DcInv'
<1> SUFFICES ASSUME SnapInv, DcInv, [Next /\ UNCHANGED choiceVars]_vars, [ResumesOnDataset]_vars
             PROVE  DcInv'
  OBVIOUS
<1>1. SnapInv' /\ client # "api" /\ stop_on_error = TRUE
  BY NextSnaps DEF DcInv, Phases, SnapInv, Control, ResumingClient
<1>2. CASE UNCHANGED vars
  <2>1. UNCHANGED <<checkpoints, completed, doc, dataset, resume_ok, client, fs, zsnaps, pc, todo,
                    ok, succeeded, snapshot_name, unsaved>>
    BY <1>2 DEF vars, processVars, runVars, choiceVars
  <2>2. Flags /\ Phases /\ Loop /\ Works /\ InStep /\ Timeline /\ EmptyStart /\ SavedDoc
    BY DEF DcInv
  <2>3. Flags' /\ Executed' = Executed
    BY <2>1, <2>2, SameFlags
  <2>4. /\ (Saving' <=> Saving) /\ (AfterWork' <=> AfterWork) /\ Reach' = Reach
        /\ (Live' <=> Live)
    BY <2>1 DEF Saving, AfterWork, Reach, Live
  <2>5. Turn' = Turn /\ Ahead' = Ahead
    BY <2>1, <2>3, <2>4 DEF Turn, Ahead
  <2>6. Phases' /\ Works' /\ SavedDoc'
    BY <2>1, <2>2, <2>3 DEF Phases, Works, SavedDoc
  <2>7. Loop'
    BY <2>1, <2>2, <2>4, <2>5 DEF Loop
  <2>8. InStep'
    BY <2>1, <2>2, <2>4, <2>5 DEF InStep
  <2>9. Timeline' /\ EmptyStart'
    BY <2>1, <2>2, SameTimeline, SameEmptyStart
  <2> QED BY <2>3, <2>6, <2>7, <2>8, <2>9 DEF DcInv
<1>3. CASE ~UNCHANGED vars
  <2>1. Next /\ UNCHANGED choiceVars /\ ResumesOnDataset
    BY <1>3
  <2>2. CASE SetDataset
    BY <2>1, <2>2, SetDatasetDc
  <2>3. ASSUME NEW pause \in 1..(Len(checkpoints) + 1), ExecuteNext(pause)
        PROVE  DcInv'
    BY <1>1, <2>1, <2>3, ExecuteNextDc
  <2>4. ASSUME NEW pause \in 1..(Len(checkpoints) + 1), NEW p \in DOMAIN checkpoints,
               ExecuteFrom(p, pause)
        PROVE  DcInv'
    BY <1>1, <2>4 DEF ExecuteFrom
  <2>5. ASSUME NEW pause \in 1..(Len(checkpoints) + 1), NEW p \in DOMAIN checkpoints,
               Resume(p, pause)
        PROVE  DcInv'
    BY <1>1, <2>1, <2>5, ResumeDc
  <2>6. CASE TakeTurn
    BY <2>1, <2>6, TakeTurnDc
  <2>7. CASE OpenCacheFile \/ DumpCache
    BY <2>1, <2>7, CacheDc
  <2>8. CASE DestroyOldSnapshot
    BY <2>1, <2>8, DestroyOldDc
  <2>9. CASE CreateSnapshot
    BY <2>1, <2>9, CreateSnapshotDc
  <2>10. CASE NoZfsSnapshot
    BY <2>1, <2>10, NoZfsSnapshotDc
  <2>11. CASE SnapshotRaises \/ FinishRun \/ CancelRun
    BY <2>1, <2>11, EndsDc
  <2>12. CASE ExecuteSucceeds
    BY <2>1, <2>12, ExecuteSucceedsDc
  <2>13. CASE ExecuteFailsAndStops
    BY <2>1, <2>13, ExecuteFailsDc
  <2>14. CASE ExecuteFailsAndContinues
    BY <1>1, <2>14 DEF ExecuteFailsAndContinues
  <2>15. CASE RecordCompletion
    BY <2>1, <2>15, RecordCompletionDc
  <2>16. CASE CleanupCheckpoints
    BY <1>1, <2>16 DEF CleanupCheckpoints
  <2>17. CASE \E list \in Lists, mode \in {"api", "fresh", "resume"} : Restart(list, mode)
    BY <1>1, <2>1, <2>17, RestartDc
  <2> QED BY <2>1, <2>2, <2>3, <2>4, <2>5, <2>6, <2>7, <2>8, <2>9, <2>10, <2>11, <2>12, <2>13,
             <2>14, <2>15, <2>16, <2>17 DEF Next
<1> QED BY <1>2, <1>3

\* The invariant of distro_const, whatever is killed, fails or is cut short.
LEMMA DcInvariant ==
    ASSUME ResumingClient
    PROVE  Spec /\ [][ResumesOnDataset]_vars => [](SnapInv /\ DcInv)
<1>1. Init => DcInv
  BY InitDc
<1>2. SnapInv /\ DcInv /\ [Next /\ UNCHANGED choiceVars]_vars /\ [ResumesOnDataset]_vars => DcInv'
  BY NextDc
<1> QED BY <1>1, <1>2, SnapInvariant, PTL DEF Spec

\* distro_const: a ZFS snapshot and the DOC saved in it have seen the same work.
THEOREM SnapshotsAreConsistent ==
    ASSUME ResumingClient
    PROVE  Spec /\ [][ResumesOnDataset]_vars => []SnapshotConsistent
<1>1. ASSUME SnapInv, DcInv PROVE SnapshotConsistent
  <2>1. Sizes
    BY <1>1, SizesKnown
  <2>2. DOMAIN zsnaps = 1..Len(zsnaps) /\ Len(zsnaps) \in Nat
    BY <2>1, LenProperties DEF Sizes, GoodSnaps
  <2>3. PICK l \in Lists : Timed(zsnaps, l, unsaved)
    BY <1>1 DEF DcInv, Timeline
  <2>4. ASSUME NEW x \in DOMAIN zsnaps
        PROVE  OnDataset(Get(zsnaps[x].fs.files, zsnaps[x].name).doc.work) = zsnaps[x].fs.work
    <3>1. x \in Nat /\ x > 0 /\ x <= Len(zsnaps)
      BY <2>2
    <3>2. PICK i \in 1..x : x = 2 * i - 1 \/ x = 2 * i
      BY <3>1, EvenOrOdd
    <3>3. i \in 1..Len(zsnaps)
      BY <2>2, <3>1
    <3>4. \E name, m : Point(zsnaps[x], name, l, m)
      <4>1. CASE x = 2 * i - 1
        <5>1. PrePoint(zsnaps, l, unsaved, i)
          BY <2>3, <3>1, <3>3, <4>1 DEF Timed
        <5> QED BY <4>1, <5>1 DEF PrePoint
      <4>2. CASE x = 2 * i
        <5>1. CompletedPoint(zsnaps, l, unsaved, i)
          BY <2>3, <3>1, <3>3, <4>2 DEF Timed
        <5> QED BY <4>2, <5>1 DEF CompletedPoint
      <4> QED BY <3>2, <4>1, <4>2
    <3> QED BY <3>4 DEF Point
  <2> QED BY <2>4 DEF SnapshotConsistent
<1>2. SnapInv /\ DcInv => SnapshotConsistent
  BY <1>1
<1> QED BY <1>2, DcInvariant, PTL

\* distro_const: between runs the DOC's record is the list of completed checkpoints.
THEOREM DoneAreCompleted ==
    ASSUME ResumingClient
    PROVE  Spec /\ [][ResumesOnDataset]_vars => []DoneIsCompleted
<1>1. ASSUME SnapInv, DcInv PROVE DoneIsCompleted
  <2>1. Sizes /\ Flags
    BY <1>1, SizesKnown DEF DcInv
  <2>2. Executed \in 0..Len(checkpoints)
    BY <2>1 DEF Sizes, Flags
  <2>3. doc.done = SubSeq(checkpoints, 1, Executed)
    <3> DEFINE front == SubSeq(checkpoints, 1, Executed)
    <3>1. front \in Seq(Names) /\ Len(front) = Executed /\ \A i \in 1..Executed : front[i] = checkpoints[i]
      <4>1. \A i \in 1..Executed : checkpoints[i] \in Names
        BY <2>1, <2>2 DEF Sizes
      <4>2. Executed \in Nat
        BY <2>1 DEF Sizes
      <4> QED BY <4>1, <4>2, SubSeqProperties
    <3> HIDE DEF front
    <3>2. Len(doc.done) = Len(front) /\ \A i \in 1..Len(front) : doc.done[i] = front[i]
      BY <2>1, <3>1 DEF Flags, SameUpTo, Executed
    <3>3. doc.done = front
      BY <2>1, <3>1, <3>2, SeqEqual DEF Sizes
    <3> QED BY <3>3 DEF front
  <2>4. \A i \in DOMAIN checkpoints : completed[checkpoints[i]] <=> i <= Executed
    BY <2>1 DEF Flags
  <2> QED BY <2>2, <2>3, <2>4 DEF DoneIsCompleted
<1>2. SnapInv /\ DcInv => DoneIsCompleted
  BY <1>1
<1> QED BY <1>2, DcInvariant, PTL

\* distro_const: every resumable checkpoint but the last can be rolled back to, whatever
\* was killed before.
THEOREM EarlierResumable ==
    ASSUME ResumingClient
    PROVE  Spec /\ [][ResumesOnDataset]_vars => []EarlierCanBeResumed
<1>1. ASSUME SnapInv, DcInv PROVE EarlierCanBeResumed
  <2> SUFFICES ASSUME CanResume, NEW p \in Resumable, p + 1 \in Resumable
               PROVE  CanRollback(p, Resumable)
    BY DEF EarlierCanBeResumed
  <2>1. Sizes /\ Control /\ Stores /\ Flags /\ Phases /\ Timeline /\ ResumableShape
    BY <1>1, SizesKnown, ResumableKnownShape DEF DcInv, SnapInv
  <2>2. dataset = TRUE /\ Executed = unsaved
    BY <2>1 DEF CanResume, ResumableKnown, Phases, Control
  <2>3. p \in DOMAIN checkpoints /\ DOMAIN checkpoints = 1..Len(checkpoints) /\ unsaved \in Nat
        /\ Len(zsnaps) \in Nat /\ GoodSnaps(zsnaps) /\ Len(checkpoints) \in Nat
    BY <2>1 DEF ResumableShape, Sizes
  <2>4. p \in Nat /\ p + 1 # p /\ ~(p + 1 <= p)
    BY <2>3
  <2>5. Has(zsnaps, Pre(checkpoints[p]))
    BY <2>1, <2>4 DEF ResumableShape
  <2> DEFINE name == Pre(checkpoints[p])
  <2>6. name \in SnapNames /\ name # None /\ <<"dataset", name>> # None
    <3>1. checkpoints[p] \in Names
      BY <2>1, <2>3 DEF Sizes
    <3> QED BY <3>1, SnapshotNames, NameNotNone
  <2>7. p > unsaved
    <3>1. PICK l \in Lists : Timed(zsnaps, l, unsaved)
      BY <2>1 DEF Timeline
    <3>2. PICK i \in 1..Len(zsnaps) : PreFoundAt(zsnaps, l, unsaved, checkpoints[p], i)
      BY <2>3, <2>5, <3>1, PreFound
    <3>3. unsaved + i <= Len(l) /\ l[unsaved + i] = checkpoints[p]
      BY <3>2 DEF PreFoundAt
    <3>4. Len(l) \in Nat /\ DOMAIN l = 1..Len(l) /\ checkpoints \in Lists
      BY <2>1, ListsAssumption, LenProperties DEF Control
    <3>5. unsaved + i \in DOMAIN l
      BY <2>3, <3>3, <3>4
    <3>6. unsaved + i = p
      BY <2>3, <3>3, <3>4, <3>5, SharedCheckpoint
    <3> QED BY <2>3, <2>4, <3>6
  <2>8. ~completed[checkpoints[p]]
    BY <2>1, <2>2, <2>3, <2>4, <2>7 DEF Flags
  <2>9. PICK src : src = RollbackSource(p, Resumable)
    OBVIOUS
  <2>10. src = [snap |-> name, file |-> <<"dataset", name>>]
    BY <2>2, <2>5, <2>8, <2>9 DEF RollbackSource, CacheFile
  <2>11. GoodSnapshot(Get(zsnaps, name)) /\ Has(zsnaps, name)
    BY <2>3, <2>5, SnapshotFound
  <2>12. Get(zsnaps, name).name = name
    BY <2>11, GetFinds
  <2> HIDE DEF name
  <2>13. src.snap = name /\ src.file = <<"dataset", name>> /\ src.file[1] = "dataset" /\ src.file[2] = name
    BY <2>10
  <2>14. FilesAfter(src) = Get(zsnaps, name).fs.files
    BY <2>6, <2>13 DEF FilesAfter, RolledBackDataset
  <2>15. Has(FilesAfter(src), name) /\ Get(FilesAfter(src), name).whole = TRUE
    BY <2>11, <2>12, <2>14 DEF GoodSnapshot, HasDoc
  <2> QED BY <2>2, <2>6, <2>9, <2>11, <2>13, <2>15 DEF CanRollback
<1>2. SnapInv /\ DcInv => EarlierCanBeResumed
  BY <1>1
<1> QED BY <1>2, DcInvariant, PTL

\* distro_const: resuming at a checkpoint gives it the DOC and the dataset it would find had
\* every earlier one just run once, whatever was killed, failed or cut short before.
THEOREM ResumesAreClean ==
    ASSUME ResumingClient
    PROVE  Spec /\ [][ResumesOnDataset]_vars => ResumeIsClean
<1> DEFINE Clean == \A p \in DOMAIN checkpoints : (ResumesAt(p) /\ p > unsaved) => CleanBefore(p)'
<1>1. ASSUME SnapInv, DcInv, [Next /\ UNCHANGED choiceVars]_vars, [ResumesOnDataset]_vars
      PROVE  [Clean]_vars
  <2> SUFFICES ASSUME ~UNCHANGED vars, NEW p \in DOMAIN checkpoints, ResumesAt(p), p > unsaved
               PROVE  CleanBefore(p)'
    OBVIOUS
  <2>1. Next /\ UNCHANGED choiceVars /\ ResumesOnDataset
    BY <1>1
  <2>2. SnapInv'
    BY <1>1, NextSnaps
  <2>3. PICK pause \in 1..(Len(checkpoints) + 1), q \in DOMAIN checkpoints : Resume(q, pause)
    <3>1. resume_ok = TRUE /\ resume_ok' # TRUE
      BY <1>1 DEF ResumesAt, SnapInv, Control
    <3> QED BY <2>1, <3>1 DEF Next, SetDataset, ExecuteNext, ExecuteFrom, TakeTurn, OpenCacheFile,
               DumpCache, DestroyOldSnapshot, CreateSnapshot, NoZfsSnapshot, SnapshotRaises,
               ExecuteSucceeds, ExecuteFailsAndStops, ExecuteFailsAndContinues, RecordCompletion,
               FinishRun, CancelRun, CleanupCheckpoints, Restart, EndRun, processVars
  <2>4. DcInv' /\ Live' /\ pc' \in {"idle", "top"} /\ checkpoints' = checkpoints
    BY <1>1, <2>1, <2>2, <2>3, ResumeDc
  <2>5. Sizes' /\ Flags' /\ Works' /\ InStep'
    BY <2>2, <2>4, SizesKnownNext DEF DcInv
  <2>6. PICK k \in Nat : Len(doc'.done) = k
    BY <2>5 DEF Sizes, Executed
  <2>7. /\ Len(checkpoints) \in Nat /\ DOMAIN checkpoints = 1..Len(checkpoints)
        /\ checkpoints \in Seq(Names) /\ doc'.done \in Seq(Names)
        /\ \A i \in 1..Len(checkpoints) : checkpoints[i] \in Names
    BY <2>4, <2>5 DEF Sizes
  <2>8. /\ k <= Len(checkpoints) /\ \A i \in 1..k : doc'.done[i] = checkpoints[i]
        /\ \A i \in DOMAIN checkpoints : completed'[checkpoints[i]] <=> i <= k
    BY <2>4, <2>5, <2>6 DEF Flags, Executed, SameUpTo
  <2>9. p = k + 1
    BY <2>7, <2>8, FirstIncomplete DEF ResumesAt
  <2>10. doc'.done = SubSeq(checkpoints, 1, p - 1)
    <3> DEFINE front == SubSeq(checkpoints, 1, k)
    <3>1. front \in Seq(Names) /\ Len(front) = k /\ \A i \in 1..k : front[i] = checkpoints[i]
      <4>1. \A i \in 1..k : checkpoints[i] \in Names
        BY <2>7, <2>8
      <4> QED BY <4>1, SubSeqProperties
    <3> HIDE DEF front
    <3>2. doc'.done = front
      BY <2>6, <2>7, <2>8, <3>1, SeqEqual
    <3>3. p - 1 = k
      BY <2>9
    <3> QED BY <3>2, <3>3 DEF front
  <2>11. /\ Len(doc'.work) = k
         /\ \A i \in 1..k : doc'.work[i].cp = checkpoints[i] /\ doc'.work[i].good = TRUE
    BY <2>4, <2>5, <2>6 DEF Works, Executed, Live
  <2>12. fs'.work = OnDataset(doc'.work)
    BY <2>4, <2>5 DEF InStep
  <2>13. p - 1 = k
    BY <2>9
  <2> QED BY <2>4, <2>10, <2>11, <2>12, <2>13 DEF CleanBefore
<1>2. SnapInv /\ DcInv /\ [Next /\ UNCHANGED choiceVars]_vars /\ [ResumesOnDataset]_vars => [Clean]_vars
  BY <1>1
<1> QED BY <1>2, DcInvariant, PTL DEF Spec, ResumeIsClean

(***************************************************************************)
(* Rolling back in one process                                             *)
(***************************************************************************)
\* One process, whose dataset is set before a checkpoint completes, or never.
OneProcess == UnsavedCounts = {0} /\ MaxRestarts = 0

\* What checkpoint n found, b, is in its first snapshot.
SnapshotOf(s, n, b) ==
    s.name = Pre(n) /\ Get(s.fs.files, Pre(n)).doc = b.doc /\ s.fs.work = b.work
InSnapshots(z, n, b) == \E x \in DOMAIN z : SnapshotOf(z[x], n, b)

\* Its DOC is in its first cache file.
InFile(t, n, b) == HasDoc(t, Pre(n)) /\ Get(t, Pre(n)).doc = b.doc

\* It is in the snapshot, or in the file, that the checkpoint's data name.
CanReturnTo(n) ==
    /\ dataset = TRUE =>
        /\ data_cache_path[n] = <<"dataset", Pre(n)>> /\ zfs_snap[n] = Pre(n)
        /\ InSnapshots(zsnaps, n, before[n])
    /\ dataset = FALSE =>
        /\ data_cache_path[n] = <<"tmp", Pre(n)>> /\ zfs_snap[n] = None
        /\ InFile(tmp, n, before[n])

\* The first k checkpoints are the completed ones.
FlagsAt(k) ==
    /\ k \in 0..Len(checkpoints)
    /\ \A i \in DOMAIN checkpoints : completed[checkpoints[i]] <=> i <= k

\* A run of the list l, from position t on.
PartOf(q, l, t) ==
    t > 0 /\ t + Len(q) - 1 <= Len(l) /\ \A j \in 1..Len(q) : q[j] = l[t + (j - 1)]

\* The rest of the run starts at the checkpoint in hand, the next one unless it has just completed.
LoopAt(k) == pc # "idle" =>
    /\ IF AfterWork THEN PartOf(todo, checkpoints, k) ELSE PartOf(todo, checkpoints, k + 1)
    /\ Saving => snapshot_name[1] = Head(todo)
    /\ pc = "record" => succeeded = TRUE

\* The first m checkpoints can be rolled back to.
Points(m) == \A i \in 1..m : CanReturnTo(checkpoints[i])

\* The completed ones can, and the one in hand too from its snapshot on.
PointsAt(k) == Points(k) /\ (pc \in {"exec", "record"} => Points(k + 1))

\* Where the DOC is saved.
Store == IF dataset = TRUE THEN fs.files ELSE tmp
Place == IF dataset = TRUE THEN "dataset" ELSE "tmp"

\* What the checkpoint in hand found has not changed since, and is what was dumped.
InHandAt(k) == (Saving /\ ~AfterWork) =>
    /\ before[checkpoints[k + 1]] = [doc |-> doc, work |-> fs.work]
    /\ pc = "zfs" =>
        /\ Get(Store, snapshot_name).doc = doc
        /\ data_cache_path[checkpoints[k + 1]] = <<Place, snapshot_name>>

\* No later checkpoint has a first snapshot.
SnapsUpTo(z, l, m) == \A i \in DOMAIN l : Has(z, Pre(l[i])) => i <= m

\* The first snapshots are in the order of the list.
Ordered(z, l) ==
    \A x, y \in DOMAIN z : \A i, j \in DOMAIN l :
        (z[x].name = Pre(l[i]) /\ z[y].name = Pre(l[j]) /\ i < j) => x < y

ProcAt(k) ==
    FlagsAt(k) /\ LoopAt(k) /\ PointsAt(k) /\ InHandAt(k) /\ SnapsUpTo(zsnaps, checkpoints, k + 1)

\* Nothing has failed in a run that goes on, and snapshots are taken once the dataset is set.
Steady ==
    /\ ok = TRUE /\ Ordered(zsnaps, checkpoints)
    /\ zfs_modified = FALSE => zsnaps = <<>>
    /\ dataset = FALSE => zsnaps = <<>>

ProcInv == Steady /\ \E k \in Nat : ProcAt(k)

StoppingInv == stop_on_error = TRUE => ProcInv

(***************************************************************************)
(* Snapshots in the order of the list                                      *)
(***************************************************************************)
\* A part of the snapshots, in their order.
LEMMA OrderedPart ==
    ASSUME NEW z, NEW l, Ordered(z, l), NEW new, DOMAIN new \subseteq Int, DOMAIN z \subseteq Int,
           NEW at \in [DOMAIN new -> DOMAIN z],
           \A x \in DOMAIN new : new[x] = z[at[x]],
           \A x, y \in DOMAIN new : x < y => at[x] < at[y]
    PROVE  Ordered(new, l)
<1> SUFFICES ASSUME NEW x \in DOMAIN new, NEW y \in DOMAIN new, NEW i \in DOMAIN l, NEW j \in DOMAIN l,
                    new[x].name = Pre(l[i]), new[y].name = Pre(l[j]), i < j
             PROVE  x < y
  BY DEF Ordered
<1>1. at[x] \in DOMAIN z /\ at[y] \in DOMAIN z /\ z[at[x]].name = Pre(l[i]) /\ z[at[y]].name = Pre(l[j])
  OBVIOUS
<1>2. at[x] < at[y]
  BY <1>1 DEF Ordered
<1>3. at[x] \in Int /\ at[y] \in Int /\ x \in Int /\ y \in Int
  BY <1>1
<1>4. ~(y < x) /\ x # y
  BY <1>2, <1>3
<1> QED BY <1>3, <1>4

\* Destroying snapshots keeps the order of the others.
LEMMA OrderedWithout ==
    ASSUME NEW z, GoodSnaps(z), NEW l, Ordered(z, l), NEW names
    PROVE  Ordered(Without(z, names), l)
<1> DEFINE S == {e \in {z[i] : i \in DOMAIN z} : e.name \notin names}
           new == Kept(z, S)
<1>1. new \in Seq(Snapshot) /\ Selection(new, z, S, Len(z))
  <2> HIDE DEF S
  <2>1. z \in Seq(Snapshot)
    BY DEF GoodSnaps
  <2> QED BY <2>1, KeptSelects
<1>2. Without(z, names) = new
  BY DEF Without
<1>3. /\ DOMAIN z = 1..Len(z) /\ Len(z) \in Nat
      /\ DOMAIN new = 1..Len(new) /\ Len(new) \in Nat
  BY <1>1, LenProperties DEF GoodSnaps
<1> HIDE DEF new
<1>4. PICK at \in [DOMAIN new -> 1..Len(z)] :
          /\ \A i \in DOMAIN new : new[i] = z[at[i]]
          /\ \A i, j \in DOMAIN new : i < j => at[i] < at[j]
  BY <1>1 DEF Selection
<1>5. DOMAIN new \subseteq Int /\ DOMAIN z \subseteq Int /\ at \in [DOMAIN new -> DOMAIN z]
  BY <1>3
<1>6. Ordered(new, l)
  BY <1>4, <1>5, OrderedPart
<1> QED BY <1>2, <1>6

\* The snapshots up to a position, element by element.
LEMMA UpTo ==
    ASSUME NEW z, GoodSnaps(z), NEW m \in 0..Len(z)
    PROVE  DOMAIN SubSeq(z, 1, m) = 1..m /\ \A x \in 1..m : SubSeq(z, 1, m)[x] = z[x]
<1>1. z \in Seq(Snapshot)
  BY DEF GoodSnaps
<1>2. Len(z) \in Nat /\ DOMAIN z = 1..Len(z) /\ \A i \in 1..Len(z) : z[i] \in Snapshot
  BY <1>1, LenProperties, ElementOfSeq
<1> DEFINE new == SubSeq(z, 1, m)
<1>3. new \in Seq(Snapshot) /\ Len(new) = m /\ \A i \in 1..m : new[i] = z[i]
  <2>1. \A i \in 1..m : z[i] \in Snapshot
    BY <1>2
  <2> QED BY <1>2, <2>1, SubSeqProperties
<1>4. DOMAIN new = 1..m
  BY <1>3, LenProperties
<1> QED BY <1>3, <1>4

\* Going back to the first snapshot of the checkpoint at p keeps those of the earlier ones.
BackTo(z, new, l, p) ==
    /\ Ordered(new, l) /\ SnapsUpTo(new, l, p)
    /\ \A i \in DOMAIN l : i < p => \A b : InSnapshots(z, l[i], b) => InSnapshots(new, l[i], b)

\* `zfs rollback -r' to a first snapshot does just that.
LEMMA BackToFirst ==
    ASSUME NEW z, GoodSnaps(z), NEW l, Len(l) \in Nat, DOMAIN l = 1..Len(l), Ordered(z, l),
           NEW p \in DOMAIN l, Has(z, Pre(l[p]))
    PROVE  BackTo(z, SubSeq(z, 1, Position(z, Pre(l[p]))), l, p)
<1>1. DOMAIN z = 1..Len(z) /\ Len(z) \in Nat
  BY LenProperties DEF GoodSnaps
<1>2. PICK m \in 1..Len(z) : z[m].name = Pre(l[p])
  BY <1>1 DEF Has
<1>3. Position(z, Pre(l[p])) = m
  BY <1>2, FoundAt
<1> DEFINE new == SubSeq(z, 1, m)
<1>4. DOMAIN new = 1..m /\ \A x \in 1..m : new[x] = z[x]
  BY <1>1, UpTo
<1>5. \A x \in 1..m : x \in DOMAIN z /\ x \in Int
  BY <1>1
<1> HIDE DEF new
<1>6. Ordered(new, l)
  BY <1>4, <1>5 DEF Ordered
<1>7. ASSUME NEW i \in DOMAIN l, Has(new, Pre(l[i])) PROVE i <= p
  <2>1. PICK x \in 1..m : new[x].name = Pre(l[i])
    BY <1>4, <1>7 DEF Has
  <2>2. p < i => m < x
    BY <1>1, <1>2, <1>4, <1>5, <2>1 DEF Ordered
  <2>3. ~(m < x)
    BY <2>1
  <2> QED BY <2>2, <2>3
<1>8. ASSUME NEW i \in DOMAIN l, i < p, NEW b, InSnapshots(z, l[i], b)
      PROVE  InSnapshots(new, l[i], b)
  <2>1. PICK x \in DOMAIN z : SnapshotOf(z[x], l[i], b)
    BY <1>8 DEF InSnapshots
  <2>2. x < m
    BY <1>1, <1>2, <1>8, <2>1 DEF Ordered, SnapshotOf
  <2>3. x \in 1..m
    BY <1>1, <2>1, <2>2
  <2> QED BY <1>4, <2>1, <2>3 DEF InSnapshots
<1>9. BackTo(z, new, l, p)
  BY <1>6, <1>7, <1>8 DEF BackTo, SnapsUpTo
<1> QED BY <1>3, <1>9 DEF new

\* Destroying the snapshots of other names keeps those of a checkpoint.
LEMMA WithoutOthers ==
    ASSUME NEW z, GoodSnaps(z), NEW names, NEW n
    PROVE  /\ Has(Without(z, names), Pre(n)) => Has(z, Pre(n)) /\ Pre(n) \notin names
           /\ Pre(n) \notin names =>
                \A b : InSnapshots(z, n, b) => InSnapshots(Without(z, names), n, b)
<1> DEFINE new == Without(z, names)
<1>1. Left(new, z, names)
  BY WithoutLeaves DEF GoodSnaps
<1> HIDE DEF new
<1>2. ASSUME Has(new, Pre(n)) PROVE Has(z, Pre(n)) /\ Pre(n) \notin names
  <2>1. PICK i \in DOMAIN new : new[i].name = Pre(n)
    BY <1>2 DEF Has
  <2>2. new[i].name \notin names /\ \E x \in DOMAIN z : new[i] = z[x]
    BY <1>1 DEF Left
  <2> QED BY <2>1, <2>2 DEF Has
<1>3. ASSUME Pre(n) \notin names, NEW b, InSnapshots(z, n, b) PROVE InSnapshots(new, n, b)
  <2>1. PICK x \in DOMAIN z : SnapshotOf(z[x], n, b)
    BY <1>3 DEF InSnapshots
  <2>2. z[x].name \notin names
    BY <1>3, <2>1 DEF SnapshotOf
  <2>3. PICK i \in DOMAIN new : new[i] = z[x]
    BY <1>1, <2>2 DEF Left
  <2> QED BY <2>1, <2>3 DEF InSnapshots
<1> QED BY <1>2, <1>3 DEF new

\* A snapshot more, of another checkpoint than the earlier ones or a second one.
LEMMA OneSnapshotMore ==
    ASSUME NEW z, GoodSnaps(z), NEW s \in Snapshot, NEW l, Len(l) \in Nat, DOMAIN l = 1..Len(l),
           Ordered(z, l), NEW m \in Nat, SnapsUpTo(z, l, m), ~Has(z, s.name),
           \A i \in DOMAIN l : s.name = Pre(l[i]) => i = m
    PROVE  /\ Ordered(Append(z, s), l) /\ SnapsUpTo(Append(z, s), l, m)
           /\ \A n, b : InSnapshots(z, n, b) => InSnapshots(Append(z, s), n, b)
           /\ \A n, b : SnapshotOf(s, n, b) => InSnapshots(Append(z, s), n, b)
<1>1. z \in Seq(Snapshot) /\ DOMAIN z = 1..Len(z) /\ Len(z) \in Nat
  BY LenProperties DEF GoodSnaps
<1> DEFINE new == Append(z, s)
<1>2. /\ new \in Seq(Snapshot) /\ Len(new) = Len(z) + 1
      /\ \A x \in 1..Len(z) : new[x] = z[x]
      /\ new[Len(z) + 1] = s
  BY <1>1, AppendProperties
<1>3. DOMAIN new = 1..(Len(z) + 1)
  BY <1>2, LenProperties
<1> HIDE DEF new
<1>4. \A x \in 1..(Len(z) + 1) : x \in 1..Len(z) \/ x = Len(z) + 1
  BY <1>1
<1>5. Len(z) + 1 \in DOMAIN new /\ \A x \in DOMAIN z : x \in DOMAIN new
  BY <1>1, <1>3
<1>6. \A x \in DOMAIN z : z[x].name # s.name
  BY DEF Has
<1>7. \A x \in DOMAIN z, i \in DOMAIN l : z[x].name = Pre(l[i]) => i <= m
  BY DEF SnapsUpTo, Has
<1>8. SnapsUpTo(new, l, m)
  <2> SUFFICES ASSUME NEW i \in DOMAIN l, NEW x \in DOMAIN new, new[x].name = Pre(l[i])
               PROVE  i <= m
    BY DEF SnapsUpTo, Has
  <2>1. CASE x \in 1..Len(z)
    BY <1>1, <1>2, <1>7, <2>1
  <2>2. CASE x = Len(z) + 1
    <3>1. i = m
      BY <1>2, <2>2
    <3> QED BY <3>1
  <2> QED BY <1>3, <1>4, <2>1, <2>2
<1>9. Ordered(new, l)
  <2> SUFFICES ASSUME NEW x \in DOMAIN new, NEW y \in DOMAIN new, NEW i \in DOMAIN l, NEW j \in DOMAIN l,
                      new[x].name = Pre(l[i]), new[y].name = Pre(l[j]), i < j
               PROVE  x < y
    BY DEF Ordered
  <2>1. CASE x \in 1..Len(z) /\ y \in 1..Len(z)
    BY <1>1, <1>2, <2>1 DEF Ordered
  <2>2. CASE x \in 1..Len(z) /\ y = Len(z) + 1
    BY <1>1, <2>2
  <2>3. CASE x = Len(z) + 1
    <3>1. i = m
      BY <1>2, <2>3
    <3>2. j <= m
      BY <1>8 DEF SnapsUpTo, Has
    <3>3. i \in Int /\ j \in Int
      OBVIOUS
    <3> QED BY <3>1, <3>2, <3>3
  <2> QED BY <1>3, <1>4, <2>1, <2>2, <2>3
<1>10. ASSUME NEW n, NEW b, InSnapshots(z, n, b) PROVE InSnapshots(new, n, b)
  <2>1. PICK x \in DOMAIN z : SnapshotOf(z[x], n, b)
    BY <1>10 DEF InSnapshots
  <2>2. x \in DOMAIN new /\ new[x] = z[x]
    BY <1>1, <1>2, <1>5
  <2> QED BY <2>1, <2>2 DEF InSnapshots
<1>11. ASSUME NEW n, NEW b, SnapshotOf(s, n, b) PROVE InSnapshots(new, n, b)
  BY <1>2, <1>5, <1>11 DEF InSnapshots
<1> QED BY <1>8, <1>9, <1>10, <1>11 DEF new

\* Writing one file leaves the others as they are.
LEMMA OtherFiles ==
    ASSUME NEW files, GoodFiles(files), NEW f \in SnapNames, NEW d \in Docs, NEW w \in BOOLEAN,
           NEW n, NEW b, InFile(files, n, b), Pre(n) # f
    PROVE  InFile(WriteFile(files, f, d, w), n, b)
<1> DEFINE new == WriteFile(files, f, d, w)
           rest == Without(files, {f})
           e == [name |-> f, doc |-> d, whole |-> w]
<1>1. files \in Seq(File) /\ NamesOnce(files) /\ GoodFiles(new)
  BY FileWritten DEF GoodFiles
<1>2. rest \in Seq(File) /\ Left(rest, files, {f}) /\ e \in File
  BY <1>1, WithoutLeaves DEF File
<1>3. new = Append(rest, e)
  BY DEF WriteFile
<1> HIDE DEF rest, e, new
<1>4. PICK x \in DOMAIN files : files[x].name = Pre(n) /\ Get(files, Pre(n)) = files[x]
  BY GetFinds DEF InFile, HasDoc
<1>5. PICK y \in DOMAIN rest : rest[y] = files[x]
  BY <1>2, <1>4 DEF Left
<1>6. y \in DOMAIN new /\ new[y] = files[x]
  <2>1. DOMAIN rest = 1..Len(rest) /\ Len(rest) \in Nat
    BY <1>2, LenProperties
  <2>2. new \in Seq(File) /\ Len(new) = Len(rest) + 1 /\ \A i \in 1..Len(rest) : new[i] = rest[i]
    BY <1>2, <1>3, AppendProperties
  <2>3. DOMAIN new = 1..(Len(rest) + 1)
    BY <2>2, LenProperties
  <2>4. y \in 1..Len(rest) /\ y \in 1..(Len(rest) + 1)
    BY <2>1
  <2> QED BY <1>5, <2>2, <2>3, <2>4
<1>7. Has(new, Pre(n))
  BY <1>4, <1>6 DEF Has
<1>8. Get(new, Pre(n)) = files[x]
  <2>1. PICK i \in DOMAIN new : new[i].name = Pre(n) /\ Get(new, Pre(n)) = new[i]
    BY <1>7, GetFinds
  <2>2. i = y
    BY <1>1, <1>4, <1>6, <2>1 DEF GoodFiles, NamesOnce
  <2> QED BY <1>6, <2>1, <2>2
<1> QED BY <1>4, <1>7, <1>8 DEF InFile, HasDoc, new

(***************************************************************************)
(* The steps of the process                                                *)
(***************************************************************************)
\* What keeps the points that can be rolled back to.
LEMMA PointsKept ==
    ASSUME NEW m, Points(m), UNCHANGED <<checkpoints, dataset>>,
           \A i \in 1..m :
              /\ data_cache_path'[checkpoints[i]] = data_cache_path[checkpoints[i]]
              /\ zfs_snap'[checkpoints[i]] = zfs_snap[checkpoints[i]]
              /\ before'[checkpoints[i]] = before[checkpoints[i]],
           \A i \in 1..m : \A b : dataset = TRUE =>
              (InSnapshots(zsnaps, checkpoints[i], b) => InSnapshots(zsnaps', checkpoints[i], b)),
           \A i \in 1..m : \A b : dataset = FALSE =>
              (InFile(tmp, checkpoints[i], b) => InFile(tmp', checkpoints[i], b))
    PROVE  Points(m)'
<1> SUFFICES ASSUME NEW i \in 1..m
             PROVE  CanReturnTo(checkpoints[i])'
  BY DEF Points
<1>1. CanReturnTo(checkpoints[i])
  BY DEF Points
<1> QED BY <1>1 DEF CanReturnTo

\* The checkpoint at the head of a part of the list.
LEMMA HeadOfPart ==
    ASSUME NEW l, Len(l) \in Nat, NEW q \in Seq(Names), q # <<>>, NEW t \in Nat, PartOf(q, l, t)
    PROVE  t \in 1..Len(l) /\ Head(q) = l[t]
<1>1. Len(q) \in Nat /\ Len(q) > 0
  BY EmptySeq, LenProperties
<1>2. t > 0 /\ t + Len(q) - 1 <= Len(l) /\ \A j \in 1..Len(q) : q[j] = l[t + (j - 1)]
  BY DEF PartOf
<1>3. t \in 1..Len(l)
  BY <1>1, <1>2
<1>4. Head(q) = q[1]
  BY HeadTailProperties
<1>5. 1 \in 1..Len(q) /\ t + (1 - 1) = t
  BY <1>1
<1>6. q[1] = l[t + (1 - 1)]
  BY <1>2, <1>5
<1> QED BY <1>3, <1>4, <1>5, <1>6

\* The rest of a part of the list.
LEMMA TailOfPart ==
    ASSUME NEW l, NEW q \in Seq(Names), q # <<>>, NEW t \in Nat, PartOf(q, l, t)
    PROVE  PartOf(Tail(q), l, t + 1)
<1>1. Len(q) \in Nat /\ Len(q) > 0
  BY EmptySeq, LenProperties
<1>2. t > 0 /\ t + Len(q) - 1 <= Len(l) /\ \A j \in 1..Len(q) : q[j] = l[t + (j - 1)]
  BY DEF PartOf
<1>3. Len(Tail(q)) = Len(q) - 1 /\ \A j \in 1..(Len(q) - 1) : Tail(q)[j] = q[j + 1]
  BY HeadTailProperties
<1>4. ASSUME NEW j \in 1..(Len(q) - 1) PROVE Tail(q)[j] = l[(t + 1) + (j - 1)]
  <2>1. j + 1 \in 1..Len(q) /\ t + ((j + 1) - 1) = (t + 1) + (j - 1)
    BY <1>1
  <2>2. q[j + 1] = l[t + ((j + 1) - 1)]
    BY <1>2, <2>1
  <2> QED BY <1>3, <2>1, <2>2
<1>5. (t + 1) + (Len(q) - 1) - 1 = t + Len(q) - 1 /\ t + 1 > 0
  BY <1>1
<1>6. (t + 1) + Len(Tail(q)) - 1 = t + Len(q) - 1
  BY <1>3, <1>5
<1> QED BY <1>2, <1>3, <1>4, <1>5, <1>6 DEF PartOf

\* The checkpoint in hand, and its snapshot.
InTurn(k, t) ==
    /\ t \in 1..Len(checkpoints) /\ Head(todo) = checkpoints[t] /\ PartOf(todo, checkpoints, t)
    /\ t = (IF AfterWork THEN k ELSE k + 1)
    /\ Saving => snapshot_name = IF AfterWork THEN Completed(checkpoints[t]) ELSE Pre(checkpoints[t])

\* A run that is not at its end has one in hand.
LEMMA TurnKnown ==
    ASSUME SnapInv, NEW k \in Nat, ProcAt(k), pc # "idle", todo # <<>>
    PROVE  \E t \in Nat : InTurn(k, t)
<1>1. Sizes /\ RunState
  BY SizesKnown DEF SnapInv
<1>2. PICK t \in Nat : t = (IF AfterWork THEN k ELSE k + 1)
  OBVIOUS
<1>3. PartOf(todo, checkpoints, t) /\ (Saving => snapshot_name[1] = Head(todo))
  BY <1>2 DEF ProcAt, LoopAt
<1>4. t \in 1..Len(checkpoints) /\ Head(todo) = checkpoints[t]
  BY <1>1, <1>3, HeadOfPart DEF Sizes
<1>5. ASSUME Saving
      PROVE  snapshot_name = IF AfterWork THEN Completed(checkpoints[t]) ELSE Pre(checkpoints[t])
  <2>1. snapshot_name \in Names \X {"pre", "completed"}
    BY <1>1, <1>5 DEF RunState, SnapNames, Saving
  <2>2. snapshot_name = <<snapshot_name[1], snapshot_name[2]>> /\ snapshot_name[2] \in {"pre", "completed"}
    BY <2>1
  <2>3. snapshot_name[1] = checkpoints[t]
    BY <1>3, <1>4, <1>5
  <2>4. AfterWork <=> snapshot_name[2] = "completed"
    BY <1>5 DEF AfterWork
  <2> QED BY <2>2, <2>3, <2>4 DEF Pre, Completed
<1> QED BY <1>2, <1>3, <1>4, <1>5 DEF InTurn

\* The checkpoints before k + 1 are others, and so are the names of their snapshots.
LEMMA OthersDiffer ==
    ASSUME SnapInv, NEW k \in Nat, NEW i \in 1..k, k + 1 <= Len(checkpoints)
    PROVE  checkpoints[i] # checkpoints[k + 1] /\ Pre(checkpoints[i]) # Pre(checkpoints[k + 1])
<1>1. Sizes
  BY SizesKnown
<1>2. i \in 1..Len(checkpoints) /\ k + 1 \in 1..Len(checkpoints) /\ i # k + 1
  BY <1>1 DEF Sizes
<1>3. checkpoints[i] # checkpoints[k + 1]
  BY <1>1, <1>2 DEF Sizes
<1> QED BY <1>3, NamesDiffer

\* A run that ends changes nothing that can be rolled back to.
LEMMA EndsProc ==
    ASSUME NEW k \in Nat, Steady, ProcAt(k), pc' = "idle",
           UNCHANGED <<checkpoints, completed, data_cache_path, zfs_snap, before, dataset, zsnaps, tmp,
                       ok, zfs_modified>>
    PROVE  Steady' /\ ProcAt(k)'
<1>1. Steady'
  BY DEF Steady
<1>2. Points(k)'
  BY PointsKept DEF ProcAt, PointsAt
<1>3. FlagsAt(k)' /\ SnapsUpTo(zsnaps, checkpoints, k + 1)'
  BY DEF ProcAt, FlagsAt
<1>4. LoopAt(k)' /\ PointsAt(k)' /\ InHandAt(k)'
  BY <1>2 DEF LoopAt, PointsAt, InHandAt, Saving
<1> QED BY <1>1, <1>3, <1>4 DEF ProcAt

\* The four ways a run ends.
LEMMA RunEndsProc ==
    ASSUME NEW k \in Nat, Steady, ProcAt(k),
           SnapshotRaises \/ FinishRun \/ CancelRun \/ ExecuteFailsAndStops
    PROVE  Steady' /\ ProcAt(k)'
<1>1. pc' = "idle" /\ UNCHANGED <<checkpoints, completed, data_cache_path, zfs_snap, before, dataset,
                       zsnaps, tmp, ok, zfs_modified>>
  BY DEF SnapshotRaises, FinishRun, CancelRun, ExecuteFailsAndStops, EndRun
<1> QED BY <1>1, EndsProc

\* A run that starts after the completed checkpoints runs a part of the list.
LEMMA RunFrom ==
    ASSUME SnapInv, NEW pause \in 1..(Len(checkpoints) + 1), NEW k \in Nat, k + 1 \in DOMAIN checkpoints,
           NEW done, StartRun(k + 1, pause, done), checkpoints' = checkpoints
    PROVE  LoopAt(k)' /\ InHandAt(k)' /\ pc' \in {"idle", "top"} /\ ok' = TRUE
<1>1. Sizes
  BY SizesKnown
<1>2. pc' \in {"idle", "top"} /\ ok' = TRUE
  BY DEF StartRun
<1>3. ~Saving' /\ ~AfterWork' /\ pc' # "record"
  BY <1>2 DEF Saving, AfterWork
<1>4. CASE pc' = "idle"
  BY <1>2, <1>3, <1>4 DEF LoopAt, InHandAt
<1>5. CASE pc' = "top"
  <2> DEFINE p == k + 1
  <2>1. p <= pause /\ todo' = SubSeq(checkpoints, p, pause - 1) /\ todo' # <<>>
    BY <1>5 DEF StartRun, ExecListIsValid, ExecList
  <2>2. p \in Nat /\ pause \in Nat /\ p > 0 /\ Len(checkpoints) \in Nat /\ pause - 1 <= Len(checkpoints)
    BY <1>1 DEF Sizes
  <2> HIDE DEF p
  <2>3. \A i \in p..(pause - 1) : checkpoints[i] \in Names
    <3>1. \A i \in p..(pause - 1) : i \in 1..Len(checkpoints)
      BY <2>2
    <3> QED BY <1>1, <3>1 DEF Sizes
  <2>4. p \in Int /\ pause - 1 \in Int
    BY <2>2
  <2>5. /\ Len(todo') = IF p <= pause - 1 THEN (pause - 1) - p + 1 ELSE 0
        /\ \A j \in 1..((pause - 1) - p + 1) : todo'[j] = checkpoints[p + j - 1]
    BY <2>1, <2>3, <2>4, SubSeqProperties
  <2>6. Len(todo') = pause - p
    BY <2>1, <2>2, <2>5
  <2>7. ASSUME NEW j \in 1..(pause - p) PROVE todo'[j] = checkpoints[p + (j - 1)]
    <3>1. j \in 1..((pause - 1) - p + 1) /\ p + j - 1 = p + (j - 1)
      BY <2>2
    <3> QED BY <2>5, <3>1
  <2>8. p + (pause - p) - 1 <= Len(checkpoints)
    BY <2>2
  <2>9. PartOf(todo', checkpoints', p)
    BY <2>2, <2>6, <2>7, <2>8 DEF PartOf
  <2> QED BY <1>2, <1>3, <2>9 DEF LoopAt, InHandAt, p
<1> QED BY <1>2, <1>4, <1>5

\* The start of a run, when the first k checkpoints are completed.
LEMMA StartsProc ==
    ASSUME SnapInv, NEW pause \in 1..(Len(checkpoints) + 1), NEW k \in Nat, k + 1 \in DOMAIN checkpoints,
           NEW done, StartRun(k + 1, pause, done), checkpoints' = checkpoints,
           FlagsAt(k)', Points(k)', SnapsUpTo(zsnaps', checkpoints, k + 1)
    PROVE  ProcAt(k)' /\ ok' = TRUE
<1>1. LoopAt(k)' /\ InHandAt(k)' /\ pc' \in {"idle", "top"} /\ ok' = TRUE
  BY RunFrom
<1>2. PointsAt(k)'
  BY <1>1 DEF PointsAt
<1> QED BY <1>1, <1>2 DEF ProcAt

\* execute_checkpoints().
LEMMA ExecuteNextProc ==
    ASSUME SnapInv, NEW k \in Nat, Steady, ProcAt(k), NEW pause \in 1..(Len(checkpoints) + 1),
           ExecuteNext(pause)
    PROVE  Steady' /\ ProcAt(k)'
<1>1. Sizes
  BY SizesKnown
<1>2. PICK p \in DOMAIN checkpoints :
          IsFirstIncomplete(checkpoints, completed, p) /\ StartRun(p, pause, completed)
  BY DEF ExecuteNext
<1>3. UNCHANGED <<checkpoints, completed, data_cache_path, zfs_snap, before, dataset, zsnaps, tmp,
                  zfs_modified>>
  BY DEF ExecuteNext, processVars
<1>4. p = k + 1
  BY <1>1, <1>2, FirstIncomplete DEF Sizes, ProcAt, FlagsAt
<1>5. FlagsAt(k)' /\ SnapsUpTo(zsnaps', checkpoints, k + 1)
  BY <1>3 DEF ProcAt, FlagsAt
<1>6. Points(k)'
  BY <1>3, PointsKept DEF ProcAt, PointsAt
<1>7. ProcAt(k)' /\ ok' = TRUE
  BY <1>2, <1>3, <1>4, <1>5, <1>6, StartsProc
<1> QED BY <1>3, <1>7 DEF Steady

\* Nothing is completed when the dataset is set.
LEMMA SetDatasetProc ==
    ASSUME OneProcess, SnapInv, NEW k \in Nat, Steady, ProcAt(k), SetDataset
    PROVE  Steady' /\ ProcAt(k)'
<1>1. Sizes /\ Control
  BY SizesKnown DEF SnapInv
<1>2. /\ pc = "idle" /\ dataset = FALSE /\ dataset' = TRUE /\ unsaved = 0
      /\ \A i \in DOMAIN checkpoints : completed[checkpoints[i]] <=> i <= 0
      /\ UNCHANGED <<checkpoints, completed, zsnaps, pc, ok, zfs_modified>>
  BY <1>1 DEF SetDataset, runVars, Control, OneProcess
<1>3. k = 0
  <2>1. 1 \in DOMAIN checkpoints /\ ~(1 <= 0)
    BY <1>1 DEF Sizes
  <2>2. ~(1 <= k)
    BY <1>2, <2>1 DEF ProcAt, FlagsAt
  <2> QED BY <2>2
<1>4. Steady'
  BY <1>2 DEF Steady
<1>5. Points(k)'
  <2>1. 1..0 = {}
    OBVIOUS
  <2> QED BY <1>3, <2>1 DEF Points
<1>6. FlagsAt(k)' /\ SnapsUpTo(zsnaps, checkpoints, k + 1)'
  BY <1>2 DEF ProcAt, FlagsAt
<1>7. LoopAt(k)' /\ PointsAt(k)' /\ InHandAt(k)'
  BY <1>2, <1>5 DEF LoopAt, PointsAt, InHandAt, Saving
<1> QED BY <1>4, <1>6, <1>7 DEF ProcAt

\* Before the first snapshot the only resumable checkpoint is the first one, and there is
\* nothing to roll back.
LEMMA NothingToRollBack ==
    ASSUME SnapInv, NEW k \in Nat, Steady, ProcAt(k), NEW p \in Resumable, dataset = TRUE,
           zfs_modified = FALSE
    PROVE  k = 0 /\ p = 1 /\ zsnaps = <<>> /\ NoRollbackNecessary(p)
<1>1. Sizes /\ ResumableShape
  BY SizesKnown, ResumableKnownShape
<1>2. zsnaps = <<>> /\ DOMAIN zsnaps = {}
  <2>1. zsnaps = <<>>
    BY DEF Steady
  <2>2. zsnaps \in Seq(Snapshot) /\ Len(zsnaps) = 0
    BY <1>1, <2>1, EmptySeq DEF Sizes, GoodSnaps
  <2>3. DOMAIN zsnaps = 1..0
    BY <2>2, LenProperties
  <2> QED BY <2>1, <2>3
<1>3. \A name : ~Has(zsnaps, name)
  BY <1>2 DEF Has
<1>4. Resumable = {1} /\ p = 1
  BY <1>1, <1>3 DEF ResumableShape
<1>5. k = 0
  <2> SUFFICES ASSUME k # 0
               PROVE  FALSE
    OBVIOUS
  <2>1. 1 \in 1..k
    OBVIOUS
  <2>2. CanReturnTo(checkpoints[1])
    BY <2>1 DEF ProcAt, PointsAt, Points
  <2> QED BY <1>2, <2>2 DEF CanReturnTo, InSnapshots
<1>6. ~completed[checkpoints[p]]
  <2>1. p \in DOMAIN checkpoints /\ ~(p <= k)
    BY <1>1, <1>4, <1>5 DEF ResumableShape
  <2> QED BY <2>1 DEF ProcAt, FlagsAt
<1> QED BY <1>2, <1>3, <1>4, <1>5, <1>6 DEF NoRollbackNecessary

\* resume_execute_checkpoints(start_from), which starts at the first checkpoint here.
LEMMA ResumeProc ==
    ASSUME SnapInv, NEW k \in Nat, Steady, ProcAt(k), NEW p \in DOMAIN checkpoints,
           NEW pause \in 1..(Len(checkpoints) + 1), Resume(p, pause)
    PROVE  Steady' /\ ProcAt(k)'
<1>1. Sizes /\ Control
  BY SizesKnown DEF SnapInv
<1>2. dataset = TRUE /\ zfs_modified = FALSE /\ p \in Resumable
  BY <1>1 DEF Resume, ResumableKnown, Control
<1>3. k = 0 /\ p = 1 /\ NoRollbackNecessary(p)
  BY <1>2, NothingToRollBack
<1>4. /\ StartRun(p, pause, completed')
      /\ UNCHANGED <<checkpoints, completed, data_cache_path, zfs_snap, before, dataset, zsnaps, tmp,
                     zfs_modified>>
  BY <1>3 DEF Resume
<1>5. FlagsAt(k)' /\ SnapsUpTo(zsnaps', checkpoints, k + 1)
  BY <1>4 DEF ProcAt, FlagsAt
<1>6. Points(k)'
  BY <1>4, PointsKept DEF ProcAt, PointsAt
<1>7. p = k + 1
  BY <1>3
<1>8. ProcAt(k)' /\ ok' = TRUE
  BY <1>4, <1>5, <1>6, <1>7, StartsProc
<1> QED BY <1>4, <1>8 DEF Steady

\* A checkpoint's turn comes: what it finds is remembered.
LEMMA TakeTurnProc ==
    ASSUME SnapInv, NEW k \in Nat, Steady, ProcAt(k), TakeTurn
    PROVE  Steady' /\ ProcAt(k)'
<1>1. Sizes /\ Control
  BY SizesKnown DEF SnapInv
<1>2. /\ pc = "top" /\ todo # <<>> /\ pc' = "open" /\ snapshot_name' = Pre(Head(todo))
      /\ before' = [before EXCEPT ![Head(todo)] = [doc |-> doc, work |-> fs.work]]
      /\ UNCHANGED <<checkpoints, completed, data_cache_path, zfs_snap, doc, dataset, tmp, zfs_modified,
                     fs, zsnaps, todo, ok, succeeded>>
  BY DEF TakeTurn, processVars, Steady
<1>3. ~AfterWork
  BY <1>2 DEF AfterWork, Saving
<1>4. PICK t \in Nat : InTurn(k, t)
  BY <1>2, TurnKnown
<1>5. /\ k + 1 \in 1..Len(checkpoints) /\ Head(todo) = checkpoints[k + 1]
      /\ PartOf(todo, checkpoints, k + 1)
  BY <1>3, <1>4 DEF InTurn
<1>6. checkpoints[k + 1] \in Names /\ k + 1 <= Len(checkpoints)
  BY <1>1, <1>5 DEF Sizes
<1>7. before'[checkpoints[k + 1]] = [doc |-> doc, work |-> fs.work]
  BY <1>1, <1>2, <1>5, <1>6 DEF Control
<1>8. \A i \in 1..k : before'[checkpoints[i]] = before[checkpoints[i]]
  <2>1. \A i \in 1..k : i \in 1..Len(checkpoints)
    BY <1>1, <1>6 DEF Sizes
  <2>2. \A i \in 1..k : checkpoints[i] \in Names /\ checkpoints[i] # checkpoints[k + 1]
    BY <1>1, <1>6, <2>1, OthersDiffer DEF Sizes
  <2> QED BY <1>1, <1>2, <1>5, <2>2 DEF Control
<1>9. Points(k)'
  BY <1>2, <1>8, PointsKept DEF ProcAt, PointsAt
<1>10. Steady' /\ FlagsAt(k)' /\ SnapsUpTo(zsnaps, checkpoints, k + 1)' /\ PointsAt(k)'
  BY <1>2, <1>9 DEF Steady, ProcAt, FlagsAt, PointsAt
<1>11. snapshot_name'[1] = Head(todo) /\ ~AfterWork'
  BY <1>2, NamesDiffer DEF AfterWork
<1>12. LoopAt(k)'
  BY <1>2, <1>5, <1>11 DEF LoopAt
<1>13. InHandAt(k)'
  BY <1>2, <1>7 DEF InHandAt
<1> QED BY <1>10, <1>12, <1>13 DEF ProcAt

\* Saving the DOC: the other files are as they were, and the one written holds it.
Written(f, d) ==
    /\ fs'.work = fs.work /\ Get(Store', f).doc = d
    /\ dataset = FALSE => \A n, b : (InFile(tmp, n, b) /\ Pre(n) # f) => InFile(tmp', n, b)

\* take_snapshot writes one file and no other.
LEMMA SavedProc ==
    ASSUME SnapInv, NEW f \in SnapNames, NEW d \in Docs, NEW w \in BOOLEAN, SaveDoc(f, d, w),
           dataset' = dataset
    PROVE  Written(f, d)
<1>1. GoodDataset(fs) /\ GoodFiles(tmp) /\ dataset \in BOOLEAN
  BY DEF SnapInv, Stores, Control
<1>2. fs'.work = fs.work /\ (dataset = TRUE => Get(fs'.files, f).doc = d)
  BY SavedWork
<1>3. CASE dataset = TRUE
  <2>1. Store' = fs'.files
    BY <1>3 DEF Store
  <2> QED BY <1>2, <1>3, <2>1 DEF Written
<1>4. CASE dataset = FALSE
  <2>1. tmp' = WriteFile(tmp, f, d, w)
    BY <1>4 DEF SaveDoc
  <2>2. Store' = tmp'
    BY <1>4 DEF Store
  <2>3. Get(tmp', f).doc = d
    BY <1>1, <2>1, WrittenFile
  <2>4. \A n, b : (InFile(tmp, n, b) /\ Pre(n) # f) => InFile(tmp', n, b)
    BY <1>1, <2>1, OtherFiles
  <2> QED BY <1>2, <2>2, <2>3, <2>4 DEF Written
<1> QED BY <1>1, <1>3, <1>4

\* The names of the earlier checkpoints' first snapshots are not the one in hand.
LEMMA OtherNames ==
    ASSUME SnapInv, NEW k \in Nat, ProcAt(k), Saving, NEW i \in 1..k
    PROVE  /\ Pre(checkpoints[i]) # snapshot_name
           /\ ~AfterWork => checkpoints[i] # snapshot_name[1]
<1>1. todo # <<>> /\ pc # "idle" /\ Sizes
  BY SizesKnown DEF SnapInv, RunState, Saving
<1>2. PICK t \in Nat : InTurn(k, t)
  BY <1>1, TurnKnown
<1>3. CASE AfterWork
  <2>1. snapshot_name = Completed(checkpoints[t])
    BY <1>2, <1>3 DEF InTurn
  <2> QED BY <1>3, <2>1, NamesDiffer
<1>4. CASE ~AfterWork
  <2>1. snapshot_name = Pre(checkpoints[k + 1]) /\ k + 1 \in 1..Len(checkpoints)
    BY <1>2, <1>4 DEF InTurn
  <2>2. k + 1 <= Len(checkpoints)
    BY <1>1, <2>1 DEF Sizes
  <2>3. checkpoints[i] # checkpoints[k + 1] /\ Pre(checkpoints[i]) # Pre(checkpoints[k + 1])
    BY <2>2, OthersDiffer
  <2> QED BY <2>1, <2>3, NamesDiffer
<1> QED BY <1>3, <1>4

\* The cache file is truncated, then written.
LEMMA CacheProc ==
    ASSUME SnapInv, NEW k \in Nat, Steady, ProcAt(k), OpenCacheFile \/ DumpCache
    PROVE  Steady' /\ ProcAt(k)'
<1>1. Sizes /\ Control /\ RunState /\ doc \in Docs
  BY SizesKnown DEF SnapInv, Stores
<1>2. /\ pc \in {"open", "dump"} /\ pc' \in {"dump", "zfs"}
      /\ UNCHANGED <<checkpoints, completed, zfs_snap, doc, dataset, zfs_modified, zsnaps, todo, ok,
                     succeeded, snapshot_name, before>>
  BY DEF OpenCacheFile, DumpCache
<1>3. Saving /\ Saving' /\ (AfterWork' <=> AfterWork) /\ todo # <<>> /\ snapshot_name \in SnapNames
  BY <1>1, <1>2 DEF AfterWork, Saving, RunState
<1>4. PICK t \in Nat : InTurn(k, t)
  BY <1>2, <1>3, TurnKnown
<1>5. PICK d \in Docs : Written(snapshot_name, d) /\ (pc' = "zfs" => d = doc)
  <2>1. CASE OpenCacheFile
    <3>1. Written(snapshot_name, EmptyDoc) /\ EmptyDoc \in Docs
      BY <1>2, <1>3, <2>1, SavedProc, EmptyTypes DEF OpenCacheFile
    <3> QED BY <2>1, <3>1 DEF OpenCacheFile
  <2>2. CASE DumpCache
    <3>1. Written(snapshot_name, doc)
      BY <1>1, <1>2, <1>3, <2>2, SavedProc DEF DumpCache
    <3> QED BY <1>1, <3>1
  <2> QED BY <2>1, <2>2
<1>6. /\ data_cache_path' \in {data_cache_path,
                               [data_cache_path EXCEPT ![snapshot_name[1]] = CacheFile(snapshot_name)]}
      /\ AfterWork => data_cache_path' = data_cache_path
      /\ (~AfterWork /\ pc' = "zfs") =>
            data_cache_path' = [data_cache_path EXCEPT ![snapshot_name[1]] = CacheFile(snapshot_name)]
  <2>1. CASE OpenCacheFile
    BY <2>1 DEF OpenCacheFile
  <2>2. CASE DumpCache
    <3>1. IsPre <=> ~AfterWork
      BY <1>3, <1>4, NamesDiffer DEF IsPre, InTurn
    <3> QED BY <2>2, <3>1 DEF DumpCache
  <2> QED BY <2>1, <2>2
<1>7. \A i \in 1..k : data_cache_path'[checkpoints[i]] = data_cache_path[checkpoints[i]]
  <2>1. ~AfterWork => \A i \in 1..k : checkpoints[i] # snapshot_name[1]
    BY <1>3, OtherNames
  <2>2. \A i \in 1..k : checkpoints[i] \in Names
    <3>1. \A i \in 1..k : i \in 1..Len(checkpoints)
      BY <1>1 DEF Sizes, ProcAt, FlagsAt
    <3> QED BY <1>1, <3>1 DEF Sizes
  <2> QED BY <1>1, <1>6, <2>1, <2>2 DEF Control
<1>8. Points(k)'
  <2>1. \A i \in 1..k : \A b : dataset = FALSE =>
          (InFile(tmp, checkpoints[i], b) => InFile(tmp', checkpoints[i], b))
    BY <1>3, <1>5, OtherNames DEF Written
  <2> QED BY <1>2, <1>7, <2>1, PointsKept DEF ProcAt, PointsAt
<1>9. Steady' /\ FlagsAt(k)' /\ SnapsUpTo(zsnaps, checkpoints, k + 1)' /\ PointsAt(k)'
  BY <1>2, <1>8 DEF Steady, ProcAt, FlagsAt, PointsAt
<1>10. LoopAt(k)'
  BY <1>2, <1>3 DEF ProcAt, LoopAt
<1>11. InHandAt(k)'
  <2> SUFFICES ASSUME ~AfterWork
               PROVE  InHandAt(k)'
    BY <1>3 DEF InHandAt
  <2>1. before'[checkpoints[k + 1]] = [doc |-> doc', work |-> fs'.work]
    BY <1>2, <1>3, <1>5 DEF ProcAt, InHandAt, Written
  <2>2. ASSUME pc' = "zfs"
        PROVE  /\ Get(Store', snapshot_name').doc = doc'
               /\ data_cache_path'[checkpoints'[k + 1]] = <<Place', snapshot_name'>>
    <3>1. snapshot_name = Pre(checkpoints[k + 1]) /\ k + 1 \in 1..Len(checkpoints)
      BY <1>3, <1>4 DEF InTurn
    <3>2. checkpoints[k + 1] \in Names /\ snapshot_name[1] = checkpoints[k + 1]
      BY <1>1, <3>1, NamesDiffer DEF Sizes
    <3>3. data_cache_path'[checkpoints[k + 1]] = CacheFile(snapshot_name)
      BY <1>1, <1>6, <2>2, <3>2 DEF Control
    <3>4. CacheFile(snapshot_name) = <<Place', snapshot_name>>
      BY <1>1, <1>2 DEF CacheFile, Place, Control
    <3> QED BY <1>2, <1>5, <2>2, <3>3, <3>4 DEF Written
  <2> QED BY <1>2, <2>1, <2>2 DEF InHandAt
<1> QED BY <1>9, <1>10, <1>11 DEF ProcAt

\* The snapshot of that name, left by an earlier execution, is destroyed first.
LEMMA DestroyOldProc ==
    ASSUME SnapInv, NEW k \in Nat, Steady, ProcAt(k), DestroyOldSnapshot
    PROVE  Steady' /\ ProcAt(k)'
<1>1. Sizes /\ Control
  BY SizesKnown DEF SnapInv
<1>2. /\ pc = "zfs" /\ dataset = TRUE /\ zsnaps' = Without(zsnaps, {snapshot_name}) /\ zsnaps # <<>>
      /\ UNCHANGED <<checkpoints, completed, data_cache_path, zfs_snap, doc, dataset, tmp, zfs_modified,
                     fs, pc, todo, ok, succeeded, snapshot_name, before>>
  <2>1. Has(zsnaps, snapshot_name)
    BY DEF DestroyOldSnapshot
  <2>2. zsnaps # <<>>
    BY <1>1, <2>1, EmptySeq, LenProperties DEF Has
  <2> QED BY <1>1, <2>2 DEF DestroyOldSnapshot, processVars, runVars, Control
<1>3. Saving /\ GoodSnaps(zsnaps)
  BY <1>1, <1>2 DEF Saving, Sizes
<1>4. Points(k)'
  <2>1. \A i \in 1..k : Pre(checkpoints[i]) \notin {snapshot_name}
    BY <1>3, OtherNames
  <2>2. \A i \in 1..k : \A b :
          InSnapshots(zsnaps, checkpoints[i], b) => InSnapshots(zsnaps', checkpoints[i], b)
    BY <1>2, <1>3, <2>1, WithoutOthers
  <2> QED BY <1>2, <2>2, PointsKept DEF ProcAt, PointsAt
<1>5. Ordered(zsnaps', checkpoints)
  BY <1>2, <1>3, OrderedWithout DEF Steady
<1>6. SnapsUpTo(zsnaps', checkpoints, k + 1)
  BY <1>2, <1>3, WithoutOthers DEF ProcAt, SnapsUpTo
<1>7. Steady'
  BY <1>2, <1>5 DEF Steady
<1>8. FlagsAt(k)' /\ PointsAt(k)'
  BY <1>2, <1>4 DEF ProcAt, FlagsAt, PointsAt
<1>9. Saving' /\ (AfterWork' <=> AfterWork) /\ Store' = Store /\ Place' = Place
  BY <1>2 DEF Saving, AfterWork, Store, Place
<1>10. LoopAt(k)' /\ InHandAt(k)'
  BY <1>2, <1>3, <1>9 DEF ProcAt, LoopAt, InHandAt
<1> QED BY <1>2, <1>6, <1>7, <1>8, <1>10 DEF ProcAt

\* What a snapshot leaves of the run, and the checkpoint's data.
Snapped(k, snap) ==
    /\ LoopAt(k)' /\ InHandAt(k)' /\ ~Saving' /\ pc' # "record"
    /\ pc' = "exec" <=> ~AfterWork
    /\ k + 1 \in 1..Len(checkpoints) \/ AfterWork
    /\ AfterWork => zfs_snap' = zfs_snap
    /\ ~AfterWork => zfs_snap'[checkpoints[k + 1]] = snap
    /\ \A i \in 1..k : zfs_snap'[checkpoints[i]] = zfs_snap[checkpoints[i]]

\* The run goes on to the work, or to the next checkpoint.
LEMMA AfterSnapshotProc ==
    ASSUME SnapInv, NEW k \in Nat, ProcAt(k), pc = "zfs", AfterSnapshot, NEW snap, RecordZfsSnap(snap),
           UNCHANGED <<checkpoints, succeeded>>
    PROVE  Snapped(k, snap)
<1>1. Sizes /\ Control /\ todo # <<>> /\ Saving
  BY SizesKnown DEF SnapInv, RunState, Saving
<1>2. PICK t \in Nat : InTurn(k, t)
  BY <1>1, TurnKnown
<1>3. \A i \in 1..k : checkpoints[i] \in Names
  <2>1. \A i \in 1..k : i \in 1..Len(checkpoints)
    BY <1>1 DEF Sizes, ProcAt, FlagsAt
  <2> QED BY <1>1, <2>1 DEF Sizes
<1>4. CASE AfterWork
  <2>1. snapshot_name = Completed(checkpoints[k]) /\ PartOf(todo, checkpoints, k)
    BY <1>1, <1>2, <1>4 DEF InTurn
  <2>2. ~IsPre
    BY <2>1, NamesDiffer DEF IsPre
  <2>3. pc' = "top" /\ todo' = Tail(todo) /\ zfs_snap' = zfs_snap
    BY <2>2 DEF AfterSnapshot, RecordZfsSnap
  <2>4. PartOf(todo', checkpoints', k + 1)
    BY <1>1, <2>1, <2>3, TailOfPart DEF Sizes
  <2>5. ~Saving' /\ ~AfterWork'
    BY <2>3 DEF Saving, AfterWork
  <2> QED BY <1>4, <2>3, <2>4, <2>5 DEF Snapped, LoopAt, InHandAt
<1>5. CASE ~AfterWork
  <2>1. /\ snapshot_name = Pre(checkpoints[k + 1]) /\ PartOf(todo, checkpoints, k + 1)
        /\ k + 1 \in 1..Len(checkpoints)
    BY <1>1, <1>2, <1>5 DEF InTurn
  <2>2. IsPre /\ snapshot_name[1] = checkpoints[k + 1] /\ checkpoints[k + 1] \in Names
    BY <1>1, <2>1, NamesDiffer DEF IsPre, Sizes
  <2>3. pc' = "exec" /\ todo' = todo /\ zfs_snap' = [zfs_snap EXCEPT ![checkpoints[k + 1]] = snap]
    BY <2>2 DEF AfterSnapshot, RecordZfsSnap
  <2>4. ~Saving' /\ ~AfterWork'
    BY <2>3 DEF Saving, AfterWork
  <2>5. \A i \in 1..k : checkpoints[i] # checkpoints[k + 1]
    BY <1>1, <1>5, <2>2, OtherNames
  <2>6. zfs_snap'[checkpoints[k + 1]] = snap
        /\ \A i \in 1..k : zfs_snap'[checkpoints[i]] = zfs_snap[checkpoints[i]]
    BY <1>1, <1>3, <2>2, <2>3, <2>5 DEF Control
  <2> QED BY <1>5, <2>1, <2>3, <2>4, <2>6 DEF Snapped, LoopAt, InHandAt
<1> QED BY <1>4, <1>5

\* One point more, that of the checkpoint in hand.
LEMMA OnePointMore ==
    ASSUME NEW k \in Nat, Points(k)', CanReturnTo(checkpoints[k + 1])'
    PROVE  Points(k + 1)'
<1>1. \A i \in 1..(k + 1) : i \in 1..k \/ i = k + 1
  OBVIOUS
<1> QED BY <1>1 DEF Points

\* A first snapshot is a new point to roll back to, a second one changes none.
LEMMA CreateSnapshotProc ==
    ASSUME SnapInv, NEW k \in Nat, Steady, ProcAt(k), CreateSnapshot
    PROVE  Steady' /\ ProcAt(k)'
<1>1. Sizes /\ Control /\ Stores /\ RunState
  BY SizesKnown DEF SnapInv
<1> DEFINE s == [name |-> snapshot_name, fs |-> fs]
<1>2. /\ pc = "zfs" /\ dataset = TRUE /\ ~Has(zsnaps, snapshot_name) /\ zsnaps' = Append(zsnaps, s)
      /\ RecordZfsSnap(snapshot_name) /\ AfterSnapshot /\ zfs_modified' = TRUE
      /\ UNCHANGED <<checkpoints, completed, data_cache_path, doc, dataset, tmp, fs, ok, succeeded,
                     snapshot_name, before>>
  BY <1>1 DEF CreateSnapshot, Control
<1>3. Saving /\ todo # <<>> /\ snapshot_name \in SnapNames
  BY <1>1, <1>2 DEF Saving, RunState
<1>4. s \in Snapshot /\ s.name = snapshot_name /\ s.fs = fs
  BY <1>1, <1>3 DEF Snapshot, Stores, GoodDataset
<1> HIDE DEF s
<1>5. PICK t \in Nat : InTurn(k, t)
  BY <1>2, <1>3, TurnKnown
<1>6. Snapped(k, snapshot_name)
  BY <1>2, AfterSnapshotProc
<1>7. \A i \in DOMAIN checkpoints : s.name = Pre(checkpoints[i]) => i = k + 1
  <2> SUFFICES ASSUME NEW i \in DOMAIN checkpoints, snapshot_name = Pre(checkpoints[i])
               PROVE  i = k + 1
    BY <1>4
  <2>1. ~AfterWork
    BY <1>3, <1>5, NamesDiffer DEF InTurn
  <2>2. snapshot_name = Pre(checkpoints[k + 1]) /\ k + 1 \in 1..Len(checkpoints)
    BY <1>3, <1>5, <2>1 DEF InTurn
  <2>3. checkpoints[i] = checkpoints[k + 1]
    <3>1. Pre(checkpoints[i]) = Pre(checkpoints[k + 1])
      BY <2>2
    <3> QED BY <3>1 DEF Pre
  <2> QED BY <1>1, <2>2, <2>3 DEF Sizes
<1>8. /\ Ordered(zsnaps', checkpoints) /\ SnapsUpTo(zsnaps', checkpoints, k + 1)
      /\ \A n, b : InSnapshots(zsnaps, n, b) => InSnapshots(zsnaps', n, b)
      /\ \A n, b : SnapshotOf(s, n, b) => InSnapshots(zsnaps', n, b)
  <2>1. /\ GoodSnaps(zsnaps) /\ Len(checkpoints) \in Nat /\ DOMAIN checkpoints = 1..Len(checkpoints)
        /\ Ordered(zsnaps, checkpoints) /\ SnapsUpTo(zsnaps, checkpoints, k + 1) /\ k + 1 \in Nat
        /\ ~Has(zsnaps, s.name)
    BY <1>1, <1>2, <1>4 DEF Sizes, Steady, ProcAt
  <2> QED BY <1>2, <1>4, <1>7, <2>1, OneSnapshotMore
<1>9. Points(k)'
  BY <1>2, <1>6, <1>8, PointsKept DEF ProcAt, PointsAt, Snapped
<1>10. ASSUME ~AfterWork PROVE Points(k + 1)'
  <2>1. snapshot_name = Pre(checkpoints[k + 1])
    BY <1>3, <1>5, <1>10 DEF InTurn
  <2>2. /\ before[checkpoints[k + 1]] = [doc |-> doc, work |-> fs.work]
        /\ Get(Store, snapshot_name).doc = doc
        /\ data_cache_path[checkpoints[k + 1]] = <<Place, snapshot_name>>
    BY <1>2, <1>3, <1>10 DEF ProcAt, InHandAt
  <2>3. Store = fs.files /\ Place = "dataset"
    BY <1>2 DEF Store, Place
  <2>4. SnapshotOf(s, checkpoints[k + 1], before[checkpoints[k + 1]])
    BY <1>4, <2>1, <2>2, <2>3 DEF SnapshotOf
  <2>5. InSnapshots(zsnaps', checkpoints[k + 1], before[checkpoints[k + 1]])
    BY <1>8, <2>4
  <2>6. zfs_snap'[checkpoints[k + 1]] = snapshot_name
    BY <1>6, <1>10 DEF Snapped
  <2>7. CanReturnTo(checkpoints[k + 1])'
    BY <1>2, <2>1, <2>2, <2>3, <2>5, <2>6 DEF CanReturnTo
  <2> QED BY <1>9, <2>7, OnePointMore
<1>11. PointsAt(k)'
  BY <1>6, <1>9, <1>10 DEF PointsAt, Snapped
<1>12. FlagsAt(k)' /\ LoopAt(k)' /\ InHandAt(k)'
  BY <1>2, <1>6 DEF ProcAt, FlagsAt, Snapped
<1>13. Steady'
  BY <1>2, <1>8 DEF Steady
<1> QED BY <1>2, <1>8, <1>11, <1>12, <1>13 DEF ProcAt

\* Without a dataset the file is the point to roll back to.
LEMMA NoZfsSnapshotProc ==
    ASSUME SnapInv, NEW k \in Nat, Steady, ProcAt(k), NoZfsSnapshot
    PROVE  Steady' /\ ProcAt(k)'
<1>1. Sizes /\ Control /\ RunState /\ Saved
  BY SizesKnown DEF SnapInv
<1>2. /\ pc = "zfs" /\ dataset = FALSE /\ RecordZfsSnap(None) /\ AfterSnapshot
      /\ UNCHANGED <<checkpoints, completed, data_cache_path, doc, dataset, tmp, zfs_modified, fs, zsnaps,
                     ok, succeeded, snapshot_name, before>>
  BY <1>1 DEF NoZfsSnapshot, Control
<1>3. Saving /\ todo # <<>> /\ HasDoc(tmp, snapshot_name)
  BY <1>1, <1>2 DEF Saving, RunState, Saved
<1>4. PICK t \in Nat : InTurn(k, t)
  BY <1>2, <1>3, TurnKnown
<1>5. Snapped(k, None)
  BY <1>2, AfterSnapshotProc
<1>6. Points(k)'
  BY <1>2, <1>5, PointsKept DEF ProcAt, PointsAt, Snapped
<1>7. ASSUME ~AfterWork PROVE Points(k + 1)'
  <2>1. snapshot_name = Pre(checkpoints[k + 1])
    BY <1>3, <1>4, <1>7 DEF InTurn
  <2>2. /\ before[checkpoints[k + 1]] = [doc |-> doc, work |-> fs.work]
        /\ Get(Store, snapshot_name).doc = doc
        /\ data_cache_path[checkpoints[k + 1]] = <<Place, snapshot_name>>
    BY <1>2, <1>3, <1>7 DEF ProcAt, InHandAt
  <2>3. Store = tmp /\ Place = "tmp"
    BY <1>2 DEF Store, Place
  <2>4. before[checkpoints[k + 1]].doc = doc
    BY <2>2
  <2>5. InFile(tmp, checkpoints[k + 1], before[checkpoints[k + 1]])
    BY <1>3, <2>1, <2>2, <2>3, <2>4 DEF InFile
  <2>6. zfs_snap'[checkpoints[k + 1]] = None
    BY <1>5, <1>7 DEF Snapped
  <2>7. CanReturnTo(checkpoints[k + 1])'
    BY <1>2, <2>1, <2>2, <2>3, <2>5, <2>6 DEF CanReturnTo
  <2> QED BY <1>6, <2>7, OnePointMore
<1>8. PointsAt(k)'
  BY <1>5, <1>6, <1>7 DEF PointsAt, Snapped
<1>9. FlagsAt(k)' /\ LoopAt(k)' /\ InHandAt(k)'
  BY <1>2, <1>5 DEF ProcAt, FlagsAt, Snapped
<1>10. Steady'
  BY <1>2 DEF Steady
<1> QED BY <1>2, <1>8, <1>9, <1>10 DEF ProcAt

\* The work of a checkpoint is not in the snapshot it can be rolled back to.
LEMMA ExecuteSucceedsProc ==
    ASSUME SnapInv, NEW k \in Nat, Steady, ProcAt(k), ExecuteSucceeds
    PROVE  Steady' /\ ProcAt(k)'
<1>1. /\ pc = "exec" /\ pc' = "record" /\ succeeded' = TRUE
      /\ UNCHANGED <<checkpoints, completed, data_cache_path, zfs_snap, dataset, tmp, zfs_modified, zsnaps,
                     todo, ok, snapshot_name, before>>
  BY DEF ExecuteSucceeds
<1>2. Points(k)' /\ Points(k + 1)'
  <2>1. Points(k) /\ Points(k + 1)
    BY <1>1 DEF ProcAt, PointsAt
  <2>2. Points(k)'
    BY <1>1, <2>1, PointsKept
  <2>3. Points(k + 1)'
    BY <1>1, <2>1, PointsKept
  <2> QED BY <2>2, <2>3
<1>3. ~Saving /\ ~Saving' /\ ~AfterWork /\ ~AfterWork'
  BY <1>1 DEF Saving, AfterWork
<1>4. Steady' /\ FlagsAt(k)' /\ SnapsUpTo(zsnaps, checkpoints, k + 1)' /\ PointsAt(k)'
  BY <1>1, <1>2 DEF Steady, ProcAt, FlagsAt, PointsAt
<1>5. LoopAt(k)' /\ InHandAt(k)'
  BY <1>1, <1>3 DEF ProcAt, LoopAt, InHandAt
<1> QED BY <1>4, <1>5 DEF ProcAt

\* One checkpoint more is completed.
LEMMA RecordCompletionProc ==
    ASSUME SnapInv, NEW k \in Nat, Steady, ProcAt(k), RecordCompletion
    PROVE  Steady' /\ ProcAt(k + 1)' /\ k + 1 \in Nat
<1>1. Sizes /\ Control /\ RunState
  BY SizesKnown DEF SnapInv
<1>2. /\ pc = "record" /\ pc' = "open" /\ snapshot_name' = Completed(Head(todo)) /\ succeeded = TRUE
      /\ completed' = [completed EXCEPT ![Head(todo)] = succeeded]
      /\ UNCHANGED <<checkpoints, data_cache_path, zfs_snap, dataset, tmp, zfs_modified, zsnaps, todo, ok,
                     before>>
  BY DEF RecordCompletion, Steady, ProcAt, LoopAt
<1>3. todo # <<>> /\ ~AfterWork
  BY <1>1, <1>2 DEF RunState, AfterWork, Saving
<1>4. PICK t \in Nat : InTurn(k, t)
  BY <1>2, <1>3, TurnKnown
<1>5. /\ k + 1 \in 1..Len(checkpoints) /\ Head(todo) = checkpoints[k + 1]
      /\ PartOf(todo, checkpoints, k + 1)
  BY <1>3, <1>4 DEF InTurn
<1>6. Points(k + 1)'
  <2>1. Points(k + 1)
    BY <1>2 DEF ProcAt, PointsAt
  <2> QED BY <1>2, <2>1, PointsKept
<1>7. FlagsAt(k + 1)'
  <2>1. ASSUME NEW i \in 1..Len(checkpoints)
        PROVE  completed'[checkpoints[i]] <=> i <= k + 1
    <3>1. completed[checkpoints[i]] <=> i <= k
      BY <1>1 DEF ProcAt, FlagsAt, Sizes
    <3>2. checkpoints[i] \in Names /\ completed \in [Names -> BOOLEAN]
      BY <1>1 DEF Sizes, Control
    <3>3. CASE i = k + 1
      <4>1. completed'[checkpoints[i]] = TRUE
        BY <1>2, <1>5, <3>2, <3>3
      <4> QED BY <3>3, <4>1
    <3>4. CASE i # k + 1
      <4>1. checkpoints[i] # Head(todo)
        BY <1>1, <1>5, <3>4 DEF Sizes
      <4>2. completed'[checkpoints[i]] = completed[checkpoints[i]]
        BY <1>2, <3>2, <4>1
      <4>3. i <= k <=> i <= k + 1
        BY <3>4
      <4> QED BY <3>1, <4>2, <4>3
    <3> QED BY <3>3, <3>4
  <2>2. DOMAIN checkpoints = 1..Len(checkpoints) /\ k + 1 \in 0..Len(checkpoints)
    BY <1>1, <1>5 DEF Sizes
  <2> QED BY <1>2, <2>1, <2>2 DEF FlagsAt
<1>8. Saving' /\ AfterWork' /\ snapshot_name'[1] = Head(todo')
  BY <1>2, NamesDiffer DEF AfterWork, Saving
<1>9. LoopAt(k + 1)' /\ InHandAt(k + 1)' /\ PointsAt(k + 1)'
  BY <1>2, <1>5, <1>6, <1>8 DEF LoopAt, InHandAt, PointsAt
<1>10. SnapsUpTo(zsnaps, checkpoints, (k + 1) + 1)'
  <2>1. \A i \in DOMAIN checkpoints : i <= k + 1 => i <= (k + 1) + 1
    BY <1>1 DEF Sizes
  <2> QED BY <1>2, <2>1 DEF ProcAt, SnapsUpTo
<1>11. Steady'
  BY <1>2 DEF Steady
<1> QED BY <1>7, <1>9, <1>10, <1>11 DEF ProcAt

\* No snapshot is left of the registered checkpoints.
LEMMA CleanupProc ==
    ASSUME SnapInv, NEW k \in Nat, Steady, ProcAt(k), CleanupCheckpoints
    PROVE  Steady' /\ ProcAt(0)'
<1>1. Sizes /\ Control
  BY SizesKnown DEF SnapInv
<1>2. /\ pc = "idle"
      /\ zsnaps' = IF dataset THEN Without(zsnaps, RegisteredSnapshots) ELSE zsnaps
      /\ completed' = [n \in Names |-> completed[n] /\ ~IsRegistered(checkpoints, n)]
      /\ UNCHANGED <<checkpoints, dataset, zfs_modified, pc, ok>>
  BY DEF CleanupCheckpoints, runVars
<1>3. GoodSnaps(zsnaps) /\ DOMAIN checkpoints = 1..Len(checkpoints) /\ Len(checkpoints) \in Nat
  BY <1>1 DEF Sizes
<1>4. \A i \in DOMAIN checkpoints : Pre(checkpoints[i]) \in RegisteredSnapshots
  BY DEF Pre, RegisteredSnapshots
<1>5. zsnaps = <<>> => DOMAIN zsnaps = {}
  <2>1. zsnaps = <<>> => DOMAIN zsnaps = 1..0
    BY <1>3, EmptySeq, LenProperties DEF GoodSnaps
  <2> QED BY <2>1
<1>6. \A i \in DOMAIN checkpoints : ~Has(zsnaps', Pre(checkpoints[i]))
  <2>1. CASE dataset = TRUE
    BY <1>2, <1>3, <1>4, <2>1, WithoutOthers
  <2>2. CASE dataset = FALSE
    <3>1. zsnaps' = zsnaps /\ zsnaps = <<>>
      BY <1>2, <2>2 DEF Steady
    <3> QED BY <1>5, <3>1 DEF Has
  <2> QED BY <1>1, <2>1, <2>2 DEF Control
<1>7. zsnaps = <<>> => zsnaps' = <<>>
  <2> SUFFICES ASSUME zsnaps = <<>>, dataset = TRUE
               PROVE  zsnaps' = <<>>
    BY <1>1, <1>2 DEF Control
  <2> DEFINE new == Without(zsnaps, RegisteredSnapshots)
  <2>1. new \in Seq(Snapshot) /\ Left(new, zsnaps, RegisteredSnapshots)
    BY <1>3, WithoutLeaves DEF GoodSnaps
  <2> HIDE DEF new
  <2>2. DOMAIN new = {}
    BY <1>5, <2>1 DEF Left
  <2>3. Len(new) \in Nat /\ DOMAIN new = 1..Len(new)
    BY <2>1, LenProperties
  <2>4. Len(new) = 0
    <3>1. 1 \notin 1..Len(new)
      BY <2>2, <2>3
    <3> QED BY <2>3, <3>1
  <2>5. new = <<>>
    BY <2>1, <2>4, EmptySeq
  <2> QED BY <1>2, <2>5 DEF new
<1>8. Ordered(zsnaps', checkpoints) /\ SnapsUpTo(zsnaps', checkpoints, 0 + 1)
  BY <1>6 DEF Ordered, SnapsUpTo, Has
<1>9. Steady'
  BY <1>2, <1>7, <1>8 DEF Steady
<1>10. FlagsAt(0)'
  <2>1. ASSUME NEW i \in 1..Len(checkpoints) PROVE completed'[checkpoints[i]] <=> i <= 0
    <3>1. checkpoints[i] \in Names
      BY <1>1 DEF Sizes
    <3>2. IsRegistered(checkpoints, checkpoints[i])
      BY <1>3 DEF IsRegistered
    <3>3. completed'[checkpoints[i]] = (completed[checkpoints[i]] /\ ~IsRegistered(checkpoints, checkpoints[i]))
      BY <1>2, <3>1
    <3>4. ~completed'[checkpoints[i]]
      BY <3>2, <3>3
    <3>5. ~(i <= 0)
      OBVIOUS
    <3> QED BY <3>4, <3>5
  <2>2. 0 \in 0..Len(checkpoints)
    BY <1>3
  <2> QED BY <1>2, <1>3, <2>1, <2>2 DEF FlagsAt
<1>11. Points(0)'
  <2>1. 1..0 = {}
    OBVIOUS
  <2> QED BY <2>1 DEF Points
<1>12. LoopAt(0)' /\ PointsAt(0)' /\ InHandAt(0)'
  BY <1>2, <1>11 DEF LoopAt, PointsAt, InHandAt, Saving
<1> QED BY <1>2, <1>8, <1>9, <1>10, <1>12 DEF ProcAt

\* Only a completed checkpoint, or the next one, has a snapshot to start from.
LEMMA StartsFromCompleted ==
    ASSUME SnapInv, NEW k \in Nat, ProcAt(k), NEW p \in DOMAIN checkpoints, CanRollback(p, {}),
           ~IsFirstIncomplete(checkpoints, completed, p)
    PROVE  p <= k
<1>1. Sizes
  BY SizesKnown
<1>2. p \in Nat /\ p > 0 /\ DOMAIN checkpoints = 1..Len(checkpoints) /\ Len(checkpoints) \in Nat
  BY <1>1 DEF Sizes
<1>3. \A i \in DOMAIN checkpoints : completed[checkpoints[i]] <=> i <= k
  BY DEF ProcAt, FlagsAt
<1> SUFFICES ASSUME p > k
             PROVE  FALSE
  BY <1>2
<1>4. ~completed[checkpoints[p]]
  BY <1>2, <1>3
<1>5. p # k + 1
  <2> SUFFICES ASSUME p = k + 1
               PROVE  FALSE
    OBVIOUS
  <2>1. \A j \in 1..(p - 1) : j \in DOMAIN checkpoints /\ j <= k
    BY <1>2
  <2> QED BY <1>3, <1>4, <2>1 DEF IsFirstIncomplete
<1>6. ~Has(zsnaps, Pre(checkpoints[p]))
  <2>1. Has(zsnaps, Pre(checkpoints[p])) => p <= k + 1
    BY DEF ProcAt, SnapsUpTo
  <2> QED BY <1>2, <1>5, <2>1
<1>7. RollbackSource(p, {}) = [snap |-> None, file |-> None]
  BY <1>4, <1>6 DEF RollbackSource
<1> QED BY <1>7 DEF CanRollback

\* What _rollback finds for a completed checkpoint: the snapshot taken as its turn came, or its file.
SourceKnown(p, src) ==
    LET n == checkpoints[p] IN
    /\ RollbackSource(p, {}) = src
    /\ src.file # None /\ src.snap = zfs_snap[n]
    /\ src.snap # None => Has(zsnaps, src.snap) /\ RolledBackDataset(src).work = before[n].work
    /\ HasDoc(FilesAfter(src), src.file[2]) /\ Get(FilesAfter(src), src.file[2]).doc = before[n].doc
    /\ IF dataset = TRUE THEN src.snap = Pre(n) ELSE src.snap = None

\* There is such a source for each of them.
LEMMA CompletedSource ==
    ASSUME SnapInv, NEW k \in Nat, ProcAt(k), NEW p \in DOMAIN checkpoints, p <= k
    PROVE  \E src : SourceKnown(p, src)
<1>1. Sizes /\ Control
  BY SizesKnown DEF SnapInv
<1> DEFINE n == checkpoints[p]
           src == [snap |-> zfs_snap[n], file |-> data_cache_path[n]]
<1>2. completed[n] /\ n \in Names
  BY <1>1 DEF ProcAt, FlagsAt, Sizes
<1>3. RollbackSource(p, {}) = src
  BY <1>2 DEF RollbackSource
<1>4. src.snap = zfs_snap[n] /\ src.file = data_cache_path[n]
  OBVIOUS
<1>5. CanReturnTo(n)
  <2>1. p \in 1..k
    BY <1>1 DEF Sizes
  <2> QED BY <2>1 DEF ProcAt, PointsAt, Points
<1>6. Pre(n) \in SnapNames
  BY <1>2 DEF Pre, SnapNames
<1>7. Pre(n) # None /\ <<"dataset", Pre(n)>> # None /\ <<"tmp", Pre(n)>> # None
  <2>1. None \notin SnapNames /\ None \notin {"dataset", "tmp"} \X SnapNames
    BY NoneAssumption DEF SnapNames
  <2> QED BY <1>6, <2>1
<1> HIDE DEF n, src
<1>8. CASE dataset = TRUE
  <2>1. src.file = <<"dataset", Pre(n)>> /\ src.snap = Pre(n) /\ InSnapshots(zsnaps, n, before[n])
    BY <1>4, <1>5, <1>8 DEF CanReturnTo
  <2>2. PICK x \in DOMAIN zsnaps : SnapshotOf(zsnaps[x], n, before[n])
    BY <2>1 DEF InSnapshots
  <2>3. GoodSnaps(zsnaps) /\ DOMAIN zsnaps = 1..Len(zsnaps)
    BY <1>1, LenProperties DEF Sizes, GoodSnaps
  <2>4. zsnaps[x].name = Pre(n)
    BY <2>2 DEF SnapshotOf
  <2>5. Has(zsnaps, Pre(n)) /\ Get(zsnaps, Pre(n)) = zsnaps[x]
    BY <2>2, <2>3, <2>4, FoundAt
  <2>6. RolledBackDataset(src) = zsnaps[x].fs
    BY <1>7, <2>1, <2>5 DEF RolledBackDataset
  <2>7. src.file[1] = "dataset" /\ src.file[2] = Pre(n)
    BY <2>1
  <2>8. FilesAfter(src) = zsnaps[x].fs.files
    BY <2>6, <2>7 DEF FilesAfter
  <2>9. HasDoc(zsnaps[x].fs.files, Pre(n))
    BY <2>2, <2>3, <2>4 DEF GoodSnaps, GoodSnapshot
  <2>10. src.file # None
    BY <1>7, <2>1
  <2>11. Get(zsnaps[x].fs.files, Pre(n)).doc = before[n].doc /\ zsnaps[x].fs.work = before[n].work
    BY <2>2 DEF SnapshotOf
  <2>12. SourceKnown(p, src)
    BY <1>3, <1>4, <1>8, <2>1, <2>5, <2>6, <2>7, <2>8, <2>9, <2>10, <2>11 DEF SourceKnown, n
  <2> QED BY <2>12
<1>9. CASE dataset = FALSE
  <2>1. src.file = <<"tmp", Pre(n)>> /\ src.snap = None /\ InFile(tmp, n, before[n])
    BY <1>4, <1>5, <1>9 DEF CanReturnTo
  <2>2. src.file[1] = "tmp" /\ src.file[2] = Pre(n) /\ src.file # None
    BY <1>7, <2>1
  <2>3. FilesAfter(src) = tmp
    BY <2>2 DEF FilesAfter
  <2>4. SourceKnown(p, src)
    BY <1>3, <1>4, <1>9, <2>1, <2>2, <2>3 DEF SourceKnown, InFile, n
  <2> QED BY <2>4
<1> QED BY <1>1, <1>8, <1>9 DEF Control

\* What a rollback to a completed checkpoint restores.
RestoredAt(p) ==
    /\ doc' = before[checkpoints[p]].doc
    /\ zfs_snap[checkpoints[p]] # None => fs'.work = before[checkpoints[p]].work
    /\ \A i \in DOMAIN checkpoints : completed'[checkpoints[i]] <=> i < p
    /\ IF dataset = TRUE THEN BackTo(zsnaps, zsnaps', checkpoints, p) /\ zsnaps # <<>>
                         ELSE zsnaps' = zsnaps

\* _rollback to a completed checkpoint does so.
LEMMA RollbackToCompleted ==
    ASSUME SnapInv, NEW k \in Nat, Steady, ProcAt(k), NEW p \in DOMAIN checkpoints, p <= k, Rollback(p, {})
    PROVE  RestoredAt(p)
<1>1. Sizes /\ Control
  BY SizesKnown DEF SnapInv
<1>2. PICK src : SourceKnown(p, src)
  BY CompletedSource
<1>3. RollbackSource(p, {}) = src
  BY <1>2 DEF SourceKnown
<1>4. /\ fs' = RolledBackDataset(src)
      /\ zsnaps' = IF src.snap = None THEN zsnaps ELSE SubSeq(zsnaps, 1, Position(zsnaps, src.snap))
      /\ doc' = Get(FilesAfter(src), src.file[2]).doc
      /\ completed' = RolledBack(checkpoints, completed, p)
  BY <1>3 DEF Rollback
<1>5. doc' = before[checkpoints[p]].doc
  BY <1>2, <1>4 DEF SourceKnown
<1>6. zfs_snap[checkpoints[p]] # None => fs'.work = before[checkpoints[p]].work
  BY <1>2, <1>4 DEF SourceKnown
<1>7. \A i \in DOMAIN checkpoints : completed'[checkpoints[i]] <=> i < p
  BY <1>4, RolledBackFlags
<1>8. CASE dataset = TRUE
  <2>1. src.snap = Pre(checkpoints[p])
    BY <1>2, <1>8 DEF SourceKnown
  <2>2. src.snap # None
    <3>1. None \notin SnapNames /\ checkpoints[p] \in Names
      BY <1>1, NoneAssumption DEF SnapNames, Sizes
    <3> QED BY <2>1, <3>1 DEF Pre, SnapNames
  <2>3. Has(zsnaps, Pre(checkpoints[p]))
    BY <1>2, <2>1, <2>2 DEF SourceKnown
  <2>4. zsnaps' = SubSeq(zsnaps, 1, Position(zsnaps, Pre(checkpoints[p])))
    BY <1>4, <2>1, <2>2
  <2>5. BackTo(zsnaps, zsnaps', checkpoints, p)
    BY <1>1, <2>3, <2>4, BackToFirst DEF Sizes, Steady
  <2>6. zsnaps # <<>>
    BY <2>3, EmptySeq, LenProperties DEF Has
  <2> QED BY <1>5, <1>6, <1>7, <1>8, <2>5, <2>6 DEF RestoredAt
<1>9. CASE dataset = FALSE
  <2>1. zsnaps' = zsnaps
    BY <1>2, <1>4, <1>9 DEF SourceKnown
  <2> QED BY <1>5, <1>6, <1>7, <1>9, <2>1 DEF RestoredAt
<1> QED BY <1>1, <1>8, <1>9 DEF Control

\* execute_checkpoints(start_from).
LEMMA ExecuteFromProc ==
    ASSUME SnapInv, NEW k \in Nat, Steady, ProcAt(k), NEW p \in DOMAIN checkpoints,
           NEW pause \in 1..(Len(checkpoints) + 1), ExecuteFrom(p, pause)
    PROVE  Steady' /\ ProcAt(p - 1)' /\ p - 1 \in Nat /\ RestoredAt(p)
<1>1. Sizes /\ Control
  BY SizesKnown DEF SnapInv
<1>2. /\ Rollback(p, {}) /\ StartRun(p, pause, completed')
      /\ ~IsFirstIncomplete(checkpoints, completed, p)
      /\ UNCHANGED <<checkpoints, data_cache_path, zfs_snap, dataset, tmp, zfs_modified, before>>
  BY DEF ExecuteFrom
<1>3. p <= k
  <2>1. CanRollback(p, {})
    BY <1>2 DEF Rollback
  <2> QED BY <1>2, <2>1, StartsFromCompleted
<1>4. RestoredAt(p)
  BY <1>2, <1>3, RollbackToCompleted
<1>5. PICK m \in Nat : p = m + 1
  <2>1. p - 1 \in Nat /\ p = (p - 1) + 1
    BY <1>1 DEF Sizes
  <2> QED BY <2>1
<1>6. m \in 0..Len(checkpoints) /\ m + 1 \in DOMAIN checkpoints /\ m <= k /\ p - 1 = m
  BY <1>1, <1>3, <1>5 DEF Sizes
<1>7. FlagsAt(m)'
  <2>1. \A i \in DOMAIN checkpoints : i < p <=> i <= m
    BY <1>1, <1>5 DEF Sizes
  <2>2. \A i \in DOMAIN checkpoints : completed'[checkpoints[i]] <=> i < p
    BY <1>4 DEF RestoredAt
  <2> QED BY <1>2, <1>6, <2>1, <2>2 DEF FlagsAt
<1>8. \A i \in 1..m : i \in DOMAIN checkpoints /\ i < p
  BY <1>1, <1>5, <1>6 DEF Sizes
<1>9. Points(m)
  <2>1. \A i \in 1..m : i \in 1..k
    BY <1>6
  <2> QED BY <2>1 DEF ProcAt, PointsAt, Points
<1>10. Points(m)'
  <2>1. \A i \in 1..m : \A b : dataset = TRUE =>
          (InSnapshots(zsnaps, checkpoints[i], b) => InSnapshots(zsnaps', checkpoints[i], b))
    BY <1>4, <1>8 DEF RestoredAt, BackTo
  <2> QED BY <1>2, <1>9, <2>1, PointsKept
<1>11. SnapsUpTo(zsnaps', checkpoints, m + 1)
  <2>1. CASE dataset = TRUE
    BY <1>4, <1>5, <2>1 DEF RestoredAt, BackTo
  <2>2. CASE dataset = FALSE
    <3>1. zsnaps' = <<>>
      BY <1>4, <2>2 DEF RestoredAt, Steady
    <3> QED BY <3>1, EmptySeq, LenProperties DEF SnapsUpTo, Has
  <2> QED BY <1>1, <2>1, <2>2 DEF Control
<1>12. ProcAt(m)' /\ ok' = TRUE
  BY <1>2, <1>5, <1>6, <1>7, <1>10, <1>11, StartsProc
<1>13. Steady'
  <2>1. CASE dataset = TRUE
    BY <1>2, <1>4, <1>12, <2>1 DEF Steady, RestoredAt, BackTo
  <2>2. CASE dataset = FALSE
    BY <1>2, <1>4, <1>12, <2>2 DEF Steady, RestoredAt
  <2> QED BY <1>1, <2>1, <2>2 DEF Control
<1> QED BY <1>4, <1>6, <1>12, <1>13

(***************************************************************************)
(* The theorems about one process                                          *)
(***************************************************************************)
LEMMA InitStopping == Init => StoppingInv
<1> SUFFICES ASSUME Init
             PROVE  ProcInv
  BY DEF StoppingInv
<1>1. Sizes
  BY InitSnaps, SizesKnown
<1>2. completed = NotCompleted /\ zsnaps = <<>> /\ pc = "idle" /\ ok = TRUE
  BY DEF Init
<1>3. Len(checkpoints) \in Nat /\ DOMAIN checkpoints = 1..Len(checkpoints)
      /\ \A i \in 1..Len(checkpoints) : checkpoints[i] \in Names
  BY <1>1 DEF Sizes
<1>4. FlagsAt(0)
  <2>1. \A i \in 1..Len(checkpoints) : completed[checkpoints[i]] = FALSE /\ ~(i <= 0)
    BY <1>2, <1>3 DEF NotCompleted
  <2> QED BY <1>3, <2>1 DEF FlagsAt
<1>5. \A name : ~Has(zsnaps, name)
  BY <1>2, EmptySeq, LenProperties DEF Has
<1>6. Steady /\ SnapsUpTo(zsnaps, checkpoints, 0 + 1)
  BY <1>2, <1>5 DEF Steady, Ordered, SnapsUpTo, Has
<1>7. LoopAt(0) /\ PointsAt(0) /\ InHandAt(0)
  BY <1>2 DEF LoopAt, PointsAt, InHandAt, Saving, Points
<1>8. ProcAt(0)
  BY <1>4, <1>6, <1>7 DEF ProcAt
<1> QED BY <1>6, <1>8 DEF ProcInv

\* Every step keeps the invariant.
LEMMA NextStopping ==
    ASSUME OneProcess
    PROVE  SnapInv /\ StoppingInv /\ [Next /\ UNCHANGED choiceVars]_vars => StoppingInv'
<1> SUFFICES ASSUME SnapInv, StoppingInv, [Next /\ UNCHANGED choiceVars]_vars, stop_on_error' = TRUE
             PROVE  ProcInv'
  BY DEF StoppingInv
<1>1. stop_on_error = TRUE
  BY DEF vars, choiceVars
<1>2. Steady /\ \E k \in Nat : ProcAt(k)
  BY <1>1 DEF StoppingInv, ProcInv
<1>3. PICK k \in Nat : ProcAt(k)
  BY <1>2
<1> SUFFICES Steady' /\ \E m \in Nat : ProcAt(m)'
  BY DEF ProcInv
<1>4. CASE UNCHANGED vars
  <2>1. UNCHANGED <<checkpoints, completed, data_cache_path, zfs_snap, doc, dataset, tmp, zfs_modified,
                    fs, zsnaps, pc, todo, ok, succeeded, snapshot_name, before>>
    BY <1>4 DEF vars, processVars, runVars
  <2>2. Points(k)' /\ (pc \in {"exec", "record"} => Points(k + 1)')
    <3>1. Points(k)'
      BY <1>3, <2>1, PointsKept DEF ProcAt, PointsAt
    <3>2. ASSUME Points(k + 1) PROVE Points(k + 1)'
      BY <2>1, <3>2, PointsKept
    <3> QED BY <1>3, <3>1, <3>2 DEF ProcAt, PointsAt
  <2>3. /\ (Saving' <=> Saving) /\ (AfterWork' <=> AfterWork) /\ Store' = Store /\ Place' = Place
    BY <2>1 DEF Saving, AfterWork, Store, Place
  <2>4. Steady' /\ FlagsAt(k)' /\ SnapsUpTo(zsnaps, checkpoints, k + 1)' /\ PointsAt(k)'
    BY <1>2, <1>3, <2>1, <2>2 DEF Steady, ProcAt, FlagsAt, PointsAt
  <2>5. LoopAt(k)'
    BY <1>3, <2>1, <2>3 DEF ProcAt, LoopAt
  <2>6. InHandAt(k)'
    BY <1>3, <2>1, <2>3 DEF ProcAt, InHandAt
  <2> QED BY <2>4, <2>5, <2>6 DEF ProcAt
<1>5. CASE ~UNCHANGED vars
  <2>1. Next
    BY <1>5
  <2>2. CASE SetDataset
    BY <1>2, <1>3, <2>2, SetDatasetProc
  <2>3. ASSUME NEW pause \in 1..(Len(checkpoints) + 1), ExecuteNext(pause)
        PROVE  Steady' /\ \E m \in Nat : ProcAt(m)'
    BY <1>2, <1>3, <2>3, ExecuteNextProc
  <2>4. ASSUME NEW pause \in 1..(Len(checkpoints) + 1), NEW p \in DOMAIN checkpoints,
               ExecuteFrom(p, pause)
        PROVE  Steady' /\ \E m \in Nat : ProcAt(m)'
    BY <1>2, <1>3, <2>4, ExecuteFromProc
  <2>5. ASSUME NEW pause \in 1..(Len(checkpoints) + 1), NEW p \in DOMAIN checkpoints,
               Resume(p, pause)
        PROVE  Steady' /\ \E m \in Nat : ProcAt(m)'
    BY <1>2, <1>3, <2>5, ResumeProc
  <2>6. CASE TakeTurn
    BY <1>2, <1>3, <2>6, TakeTurnProc
  <2>7. CASE OpenCacheFile \/ DumpCache
    BY <1>2, <1>3, <2>7, CacheProc
  <2>8. CASE DestroyOldSnapshot
    BY <1>2, <1>3, <2>8, DestroyOldProc
  <2>9. CASE CreateSnapshot
    BY <1>2, <1>3, <2>9, CreateSnapshotProc
  <2>10. CASE NoZfsSnapshot
    BY <1>2, <1>3, <2>10, NoZfsSnapshotProc
  <2>11. CASE SnapshotRaises \/ FinishRun \/ CancelRun \/ ExecuteFailsAndStops
    BY <1>2, <1>3, <2>11, RunEndsProc
  <2>12. CASE ExecuteSucceeds
    BY <1>2, <1>3, <2>12, ExecuteSucceedsProc
  <2>13. ~ExecuteFailsAndContinues
    BY <1>1 DEF ExecuteFailsAndContinues
  <2>14. CASE RecordCompletion
    BY <1>2, <1>3, <2>14, RecordCompletionProc
  <2>15. CASE CleanupCheckpoints
    <3>1. Steady' /\ ProcAt(0)'
      BY <1>2, <1>3, <2>15, CleanupProc
    <3> QED BY <3>1
  <2>16. ~\E list \in Lists, mode \in {"api", "fresh", "resume"} : Restart(list, mode)
    BY DEF Restart, OneProcess, SnapInv, Control
  <2> QED BY <2>1, <2>2, <2>3, <2>4, <2>5, <2>6, <2>7, <2>8, <2>9, <2>10, <2>11, <2>12, <2>13,
             <2>14, <2>15, <2>16 DEF Next
<1> QED BY <1>4, <1>5

\* The invariant of one process.
LEMMA StoppingInvariant ==
    ASSUME OneProcess
    PROVE  Spec => [](SnapInv /\ StoppingInv)
<1>1. SnapInv /\ StoppingInv /\ [Next /\ UNCHANGED choiceVars]_vars => StoppingInv'
  BY NextStopping
<1> QED BY <1>1, InitStopping, SnapInvariant, PTL DEF Spec

\* One process: whatever is executed, rolled back and cleaned up, and wherever a snapshot
\* raises, _rollback does not raise for a checkpoint that has completed.
THEOREM CompletedRollBack ==
    ASSUME OneProcess
    PROVE  Spec => []CompletedCanBeRolledBack
<1>1. ASSUME SnapInv, StoppingInv PROVE CompletedCanBeRolledBack
  <2> SUFFICES ASSUME NEW p \in DOMAIN checkpoints, stop_on_error, completed[checkpoints[p]]
               PROVE  CanRollback(p, {})
    BY DEF CompletedCanBeRolledBack
  <2>1. stop_on_error = TRUE
    BY <1>1, BoundsAssumption DEF SnapInv, Control
  <2>2. PICK k \in Nat : ProcAt(k)
    BY <1>1, <2>1 DEF StoppingInv, ProcInv
  <2>3. p <= k
    BY <2>2 DEF ProcAt, FlagsAt
  <2>4. PICK src : SourceKnown(p, src)
    BY <1>1, <2>2, <2>3, CompletedSource
  <2>5. /\ RollbackSource(p, {}) = src /\ src.file # None
        /\ src.snap # None => Has(zsnaps, src.snap)
        /\ Has(FilesAfter(src), src.file[2]) /\ Get(FilesAfter(src), src.file[2]).whole = TRUE
    BY <2>4 DEF SourceKnown, HasDoc
  <2> QED BY <2>5 DEF CanRollback
<1>2. SnapInv /\ StoppingInv => CompletedCanBeRolledBack
  BY <1>1
<1> QED BY <1>2, StoppingInvariant, PTL

\* One process: execute_checkpoints(start_from) of a completed checkpoint gives it back what
\* it found when its turn came.
THEOREM RollbacksRestore ==
    ASSUME OneProcess
    PROVE  Spec => RollbackRestores
<1> DEFINE Restores ==
        \A p \in DOMAIN checkpoints :
            LET n == checkpoints[p] IN
            (stop_on_error /\ completed[n] /\ \E pause \in 1..(Len(checkpoints) + 1) : ExecuteFrom(p, pause))
            => /\ doc' = before[n].doc
               /\ zfs_snap[n] # None => fs'.work = before[n].work
<1>1. ASSUME SnapInv, StoppingInv PROVE Restores
  <2> SUFFICES ASSUME NEW p \in DOMAIN checkpoints, stop_on_error,
                      NEW pause \in 1..(Len(checkpoints) + 1), ExecuteFrom(p, pause)
               PROVE  /\ doc' = before[checkpoints[p]].doc
                      /\ zfs_snap[checkpoints[p]] # None => fs'.work = before[checkpoints[p]].work
    OBVIOUS
  <2>1. stop_on_error = TRUE
    BY <1>1, BoundsAssumption DEF SnapInv, Control
  <2>2. PICK k \in Nat : Steady /\ ProcAt(k)
    BY <1>1, <2>1 DEF StoppingInv, ProcInv
  <2>3. RestoredAt(p)
    BY <1>1, <2>2, ExecuteFromProc
  <2> QED BY <2>3 DEF RestoredAt
<1>2. SnapInv /\ StoppingInv => [Restores]_vars
  BY <1>1
<1>3. RollbackRestores <=> [][Restores]_vars
  BY DEF RollbackRestores
<1> HIDE DEF Restores
<1> QED BY <1>2, <1>3, StoppingInvariant, PTL

=============================================================================
