------------------------ MODULE Pk11ReferencesProofs ------------------------
(***************************************************************************)
(* Proofs about Pk11Keys: active_list counts the references of the session *)
(* structures, so that a thread uses the object of its own key, no object  *)
(* is left behind, and the cache implements KeyReferences.                 *)
(*                                                                         *)
(* None of these is inductive.  A count goes down with a reference and     *)
(* destroys the object at zero, which is right only if the count is exact; *)
(* it stays exact because a session belongs to one call at a time (Owned), *)
(* because a slot is empty when a handle is put into it (CallState), and   *)
(* because what is cached has the value the cache check compares (Cached). *)
(***************************************************************************)
EXTENDS Pk11KeysProofs, FiniteSetTheorems

\* A session is in the pool, or one call works on it, or it is lost.
Owned ==
    \A t \in Threads : th[t].s # None =>
       /\ th[t].s \notin free
       /\ \A u \in Threads : th[u].s = th[t].s => u = t

\* The token has the keys of the keystore for good; what the engine creates are
\* session objects.
TokenKeeps ==
    /\ \A v \in KeyStore : object[TokenHandle(v)] = [class |-> "priv", val |-> v, token |-> TRUE]
    /\ \A h \in Handles : object[h] # None => object[h].token = FALSE

\* The handle is in the session, the reference is not counted yet.
Loading(c) == c.pc \in {"load_read", "load_add"}

\* How far a call has got shows in the session it works on.
CallState(c) ==
    /\ c.pc \in {"drop_other", "find", "create", "add"} => key[c.s][c.role] = None
    /\ c.pc \in {"find", "create", "add"} => key[c.s][Other(c.role)] = None \/ num[c.s] = c.val
    /\ c.pc \in {"check", "drop", "drop_other", "find", "create"} => c.found = FALSE
    /\ c.pc = "add" =>
          /\ object[c.h] = [class |-> c.role, val |-> c.val, token |-> c.byref]
          /\ \/ c.found = TRUE
             \/ c.h \in Handles /\ \A s \in Sessions, r \in Roles : key[s][r] # c.h
    /\ c.pc = "use" => key[c.s][c.role] = c.h /\ c.h # None /\ num[c.s] = c.val
    /\ c.pc \in {"load_find", "load_set", "load_read", "load_add"} =>
          c.role = "priv" /\ c.val \in KeyStore
    /\ c.pc \in {"load_set", "load_read", "load_add"} => c.h = TokenHandle(c.val)
    /\ c.pc = "load_set" => key[c.s]["priv"] = None
    /\ Loading(c) => key[c.s]["priv"] = c.h /\ key[c.s]["pub"] = None

\* What a session caches exists, is of the right kind, and has the value the session
\* remembers, unless pk11_load_privkey is about to set that value.
Cached(s, r) ==
    key[s][r] # None =>
       /\ object[key[s][r]] # None
       /\ object[key[s][r]].class = r
       /\ \/ num[s] \in {None, object[key[s][r]].val}
          \/ \E t \in Threads : th[t].s = s /\ Loading(th[t])

\* The count and the references not counted yet make up the references.
Balance(h) == active[h] + Cardinality(Uncounted(h)) = Cardinality(References(h))

\* An object nobody refers to is about to get its first reference.
Adopted ==
    (\A s \in Sessions : persistent[s] = FALSE) =>
       \A h \in Handles : object[h] # None /\ active[h] = 0 =>
          \E t \in Threads : th[t].pc = "add" /\ th[t].h = h /\ th[t].found = FALSE

Consistent ==
    /\ TokenKeeps
    /\ \A t \in Threads : CallState(th[t])
    /\ \A s \in Sessions, r \in Roles : Cached(s, r)
    /\ \A h \in AllHandles : Balance(h)
    /\ Adopted

RefInv == KeyInv /\ Owned /\ (unhandled = FALSE => Consistent)

(***************************************************************************)
(* Counting                                                                *)
(***************************************************************************)
\* There are finitely many references and loading threads.
LEMMA FiniteReferences ==
    ASSUME NEW h
    PROVE  /\ IsFiniteSet(References(h)) /\ Cardinality(References(h)) \in Nat
           /\ IsFiniteSet(Uncounted(h)) /\ Cardinality(Uncounted(h)) \in Nat
<1>1. IsFiniteSet(Roles)
  <2>1. IsFiniteSet({"pub"}) /\ IsFiniteSet({"pub"} \cup {"priv"})
    BY FS_Singleton, FS_AddElement
  <2>2. Roles = {"pub"} \cup {"priv"}
    BY DEF Roles
  <2>3. QED BY <2>1, <2>2
<1>2. IsFiniteSet(Sessions \X Roles)
  BY <1>1, FiniteAssumption, FS_Product
<1>3. References(h) \subseteq Sessions \X Roles /\ Uncounted(h) \subseteq Threads
  BY DEF References, Uncounted
<1>4. IsFiniteSet(References(h)) /\ IsFiniteSet(Uncounted(h))
  BY <1>2, <1>3, FiniteAssumption, FS_Subset
<1>5. QED BY <1>4, FS_CardinalityType

\* A handle put into an empty slot is one reference more.
LEMMA ReferenceTaken ==
    ASSUME TypeOK, NEW s \in Sessions, NEW r \in Roles, NEW h \in AllHandles,
           key[s][r] = None, key' = [key EXCEPT ![s][r] = h]
    PROVE  /\ Cardinality(References(h)') = Cardinality(References(h)) + 1
           /\ \A g \in AllHandles : g # h => References(g)' = References(g)
<1>1. h # None /\ \A g \in AllHandles : g # None
  BY NoneAssumption
<1>2. \A s1 \in Sessions, r1 \in Roles :
         key'[s1][r1] = IF s1 = s /\ r1 = r THEN h ELSE key[s1][r1]
  BY DEF TypeOK
<1>3. <<s, r>> \notin References(h)
  BY <1>1 DEF References
<1>4. References(h)' = References(h) \cup {<<s, r>>}
  BY <1>2 DEF References
<1>5. Cardinality(References(h)') = Cardinality(References(h)) + 1
  BY <1>3, <1>4, FiniteReferences, FS_AddElement
<1>6. ASSUME NEW g \in AllHandles, g # h PROVE References(g)' = References(g)
  BY <1>1, <1>2, <1>6 DEF References
<1>7. QED BY <1>5, <1>6

\* A slot that is emptied is one reference less.
LEMMA ReferenceDropped ==
    ASSUME TypeOK, NEW s \in Sessions, NEW r \in Roles, NEW h \in AllHandles,
           key[s][r] = h, key' = [key EXCEPT ![s][r] = None]
    PROVE  /\ References(h)' = References(h) \ {<<s, r>>}
           /\ Cardinality(References(h)') = Cardinality(References(h)) - 1
           /\ \A g \in AllHandles : g # h => References(g)' = References(g)
<1>1. h # None /\ \A g \in AllHandles : g # None
  BY NoneAssumption
<1>2. \A s1 \in Sessions, r1 \in Roles :
         key'[s1][r1] = IF s1 = s /\ r1 = r THEN None ELSE key[s1][r1]
  BY DEF TypeOK
<1>3. <<s, r>> \in References(h)
  BY DEF References
<1>4. References(h)' = References(h) \ {<<s, r>>}
  BY <1>1, <1>2 DEF References
<1>5. Cardinality(References(h)') = Cardinality(References(h)) - 1
  BY ZenonT(60), <1>3, <1>4, FiniteReferences, FS_RemoveElement
<1>6. ASSUME NEW g \in AllHandles, g # h PROVE References(g)' = References(g)
  BY <1>1, <1>2, <1>6 DEF References
<1>7. QED BY <1>4, <1>5, <1>6

\* A reference of a session that is not being loaded is a counted one.
LEMMA ReferenceIsCounted ==
    ASSUME TypeOK, CallsOK, Owned, \A t \in Threads : CallState(th[t]),
           NEW s \in Sessions, NEW r \in Roles, NEW h \in AllHandles,
           key[s][r] = h, Balance(h),
           \A t \in Threads : Loading(th[t]) => th[t].s # s
    PROVE  active[h] > 0
<1> DEFINE U == Uncounted(h)
           R == References(h) \ {<<s, r>>}
           f == [u \in U |-> <<th[u].s, "priv">>]
<1>1. ASSUME NEW u \in U
      PROVE  th[u].s \in Sessions /\ th[u].s # s /\ key[th[u].s]["priv"] = h /\ th[u].s # None
  <2>1. u \in Threads /\ Loading(th[u]) /\ th[u].h = h
    BY DEF Uncounted, Loading
  <2>2. th[u].pc # "idle"
    BY <2>1 DEF Loading
  <2>3. th[u].s \in Sessions
    BY <2>1, <2>2, CallHasSession
  <2>4. key[th[u].s]["priv"] = h
    BY <2>1 DEF CallState
  <2>5. QED BY <2>1, <2>3, <2>4, NoneAssumption
<1>2. f \in [U -> R]
  BY <1>1 DEF References, Roles
<1>3. \A u, w \in U : f[u] = f[w] => u = w
  <2> SUFFICES ASSUME NEW u \in U, NEW w \in U, f[u] = f[w] PROVE u = w
    OBVIOUS
  <2>1. th[u].s = th[w].s
    OBVIOUS
  <2>2. QED BY <1>1, <2>1 DEF Owned, Uncounted
<1>4. f \in Injection(U, R)
  BY <1>2, <1>3 DEF Injection, IsInjective
<1>5. IsFiniteSet(R) /\ Cardinality(R) = Cardinality(References(h)) - 1
  <2>1. <<s, r>> \in References(h)
    BY DEF References
  <2>2. QED BY <2>1, FiniteReferences, FS_RemoveElement
<1> HIDE DEF f
<1>6. Cardinality(U) <= Cardinality(R)
  BY <1>4, <1>5, FS_Injection
<1>7. QED
  <2>1. active[h] \in Nat
    BY DEF TypeOK
  <2>2. QED BY <1>5, <1>6, <2>1, FiniteReferences DEF Balance

(***************************************************************************)
(* What a step leaves alone                                                *)
(***************************************************************************)
\* The call after a search: with what was found, or about to create it.
LEMMA FindCall ==
    ASSUME CallsOK, NEW t \in Threads, Find(t)
    PROVE  \/ \E h \in Matching(t) :
                 th'[t] = [th[t] EXCEPT !.pc = "add", !.h = h, !.found = TRUE]
           \/ Matching(t) = {} /\ th'[t] = [th[t] EXCEPT !.pc = "create"]
<1>1. CASE \E h \in Matching(t) :
              th' = [th EXCEPT ![t].pc = "add", ![t].h = h, ![t].found = TRUE]
  <2>1. PICK h \in Matching(t) :
           th' = [th EXCEPT ![t].pc = "add", ![t].h = h, ![t].found = TRUE]
    BY <1>1
  <2>2. th'[t] = [th[t] EXCEPT !.pc = "add", !.h = h, !.found = TRUE]
    BY <2>1 DEF CallsOK, Call
  <2>3. QED BY <2>2
<1>2. CASE Matching(t) = {} /\ Goto(t, "create")
  BY <1>2 DEF Goto, CallsOK
<1>3. QED BY <1>1, <1>2, Zenon DEF Find

\* A step of thread t is a step of its own call, on its own session.
LEMMA OwnSessionOnly ==
    ASSUME KeyInv, NEW t \in Threads, Step(t)
    PROVE  /\ \A u \in Threads : u # t => th'[u] = th[u]
           /\ \A s \in Sessions : s # th[t].s => key'[s] = key[s] /\ num'[s] = num[s]
           /\ th[t].pc = "idle" => key' = key /\ num' = num
<1>1. /\ th \in [Threads -> Call]
      /\ key \in [Sessions -> [Roles -> AllHandles \cup {None}]]
      /\ num \in [Sessions -> Values \cup {None}]
  BY DEF KeyInv, TypeOK
<1>2. \A u \in Threads : u # t => th'[u] = th[u]
  BY <1>1 DEF Step, Begin, Check, DropOwn, DropOther, Find, FindFails, Create, CreateFails, Add,
              AddRollsBack, Return, LoadBegin, LoadFails, LoadDrop, LoadSet, LoadRead, LoadAdd,
              CountLoaded, LoadFailsLate, Goto
<1>3. CASE key' = key /\ num' = num
  BY <1>2, <1>3
<1>4. ASSUME NEW s0 \in Sessions, NEW r \in Roles, DestroyRsaObject(s0, r)
      PROVE  \A s \in Sessions : s # s0 => key'[s] = key[s] /\ num'[s] = num[s]
  BY <1>1, <1>4 DEF DestroyRsaObject, ForgetKey
<1>5. CASE DropOwn(t) \/ DropOther(t) \/ LoadDrop(t)
  <2>1. /\ th[t].s \in Sessions /\ th[t].role \in Roles /\ Other(th[t].role) \in Roles
        /\ th[t].pc # "idle"
    BY <1>5, CallHasSession DEF DropOwn, DropOther, LoadDrop, KeyInv, Other, Roles
  <2>2. QED BY <1>2, <1>4, <1>5, <2>1 DEF DropOwn, DropOther, LoadDrop, Roles
<1>6. CASE FindFails(t) \/ Add(t) \/ AddRollsBack(t) \/ LoadSet(t) \/ CountLoaded(t)
  <2>1. th[t].s \in Sessions /\ th[t].role \in Roles /\ th[t].pc # "idle"
    BY <1>6, CallHasSession DEF FindFails, Add, AddRollsBack, LoadSet, CountLoaded, KeyInv
  <2>2. QED BY <1>1, <1>2, <1>6, <2>1 DEF FindFails, Add, AddRollsBack, LoadSet, CountLoaded
<1>7. CASE LoadAdd(t) \/ LoadFailsLate(t)
  BY <1>3, <1>6, <1>7 DEF LoadAdd, LoadFailsLate
<1>8. QED
  BY <1>3, <1>5, <1>6, <1>7 DEF Step, Begin, Check, Find, Create, CreateFails, Return, LoadBegin,
                          LoadFails, LoadRead, cache

\* What the code has not coped with stays on record.
LEMMA UnhandledStays ==
    ASSUME KeyInv, NEW t \in Threads, Step(t), unhandled' = FALSE PROVE unhandled = FALSE
<1>1. unhandled \in BOOLEAN
  BY DEF KeyInv, TypeOK
<1>2. unhandled => unhandled'
  BY Zenon DEF Step, Begin, Check, DropOwn, DropOther, Find, FindFails, Create, CreateFails, Add,
              AddRollsBack, Return, LoadBegin, LoadFails, LoadDrop, LoadSet, LoadRead, LoadAdd,
              CountLoaded, LoadFailsLate, DestroyRsaObject, DropReference
<1>3. QED BY <1>1, <1>2

\* A call keeps its session until it ends, and gets it from the pool.
LEMMA OwnedStep == ASSUME KeyInv, Owned, NEW t \in Threads, Step(t) PROVE Owned'
<1>1. \A u \in Threads : u # t => th'[u] = th[u]
  BY OwnSessionOnly
<1>2. th \in [Threads -> Call] /\ free \subseteq Sessions
  BY DEF KeyInv, TypeOK
<1>3. CASE Begin(t) \/ LoadBegin(t)
  <2>1. PICK s \in free : free' = free \ {s} /\ th'[t].s = s
    <3>1. CASE Begin(t)
      <4>1. PICK s \in free, r \in Roles, p \in Structs, v \in Values, byref \in BOOLEAN :
               /\ byref => r = "priv"
               /\ free' = free \ {s}
               /\ th' = [th EXCEPT ![t] = [NoCall EXCEPT !.pc = "check", !.s = s, !.role = r,
                                             !.struct = p, !.val = v, !.byref = byref]]
        BY <3>1, Zenon DEF Begin
      <4>2. QED BY <1>2, <4>1 DEF NoCall
    <3>2. CASE LoadBegin(t)
      <4>1. PICK s \in free, v \in KeyStore, p \in Structs :
               /\ free' = free \ {s}
               /\ th' = [th EXCEPT ![t] = [NoCall EXCEPT !.pc = "load_find", !.s = s,
                             !.role = "priv", !.struct = p, !.val = v, !.byref = TRUE]]
        BY <3>2, Zenon DEF LoadBegin
      <4>2. QED BY <1>2, <4>1 DEF NoCall
    <3>3. QED BY <1>3, <3>1, <3>2
  <2>2. s # None /\ \A u \in Threads : th[u].s # s
    BY <1>2, NoneAssumption DEF Owned
  <2>3. QED BY <1>1, <2>1, <2>2 DEF Owned
<1>4. CASE Return(t) \/ LoadFails(t) \/ LoadFailsLate(t)
  <2>1. th'[t].s = None /\ free' \subseteq free \cup {th[t].s} /\ th[t].s # None
    <3>1. th[t].pc # "idle"
      BY <1>4 DEF Return, LoadFails, LoadFailsLate, CountLoaded
    <3>2. QED BY <1>2, <1>4, <3>1, CallHasSession, NoneAssumption
              DEF Return, LoadFails, LoadFailsLate, CountLoaded, NoCall, KeyInv
  <2>2. QED BY <1>1, <2>1 DEF Owned
<1>5. CASE th'[t].s = th[t].s /\ free' = free
  BY <1>1, <1>5 DEF Owned
<1>6. CASE Check(t) \/ DropOwn(t) \/ DropOther(t) \/ CreateFails(t) \/ LoadSet(t)
  <2>1. th'[t].s = th[t].s /\ free' = free
    BY <1>2, <1>6 DEF Check, DropOwn, DropOther, CreateFails, LoadSet, Goto, Call
  <2>2. QED BY <1>5, <2>1
<1>7. CASE Find(t) \/ FindFails(t) \/ Create(t)
  <2>1. th'[t].s = th[t].s /\ free' = free
    <3>1. CASE Find(t)
      BY <1>2, <3>1, FindCall DEF Find, KeyInv, CallsOK, Call
    <3>2. CASE FindFails(t)
      BY ZenonT(60), <1>2, <3>2 DEF FindFails, Goto, Call
    <3>3. CASE Create(t)
      BY <1>2, <3>3 DEF Create, Call
    <3>4. QED BY <1>7, <3>1, <3>2, <3>3
  <2>2. QED BY <1>5, <2>1
<1>8. CASE Add(t) \/ AddRollsBack(t)
  <2>1. th'[t].s = th[t].s /\ free' = free
    BY <1>2, <1>8 DEF Add, AddRollsBack, Call
  <2>2. QED BY <1>5, <2>1
<1>9. CASE LoadDrop(t) \/ LoadRead(t) \/ LoadAdd(t)
  <2>1. th'[t].s = th[t].s /\ free' = free
    BY <1>2, <1>9 DEF LoadDrop, LoadRead, LoadAdd, CountLoaded, Call
  <2>2. QED BY <1>5, <2>1
<1>10. QED BY <1>3, <1>4, <1>6, <1>7, <1>8, <1>9 DEF Step

\* Session objects and token objects have different handles.
LEMMA HandlesDiffer == \A v \in KeyStore : TokenHandle(v) \in AllHandles \ Handles
BY TokenHandleAssumption DEF AllHandles

(***************************************************************************)
(* Calls of other threads                                                  *)
(***************************************************************************)
\* A thread that has found or created an object holds find_lock: nobody destroys the
\* object, and nobody else takes a reference to a session object.
LEMMA SectionIsSafe ==
    ASSUME KeyInv, NEW t \in Threads, CallState(th[t]), Step(t), unhandled' = FALSE,
           NEW u \in Threads, u # t, th[u].pc = "add"
    PROVE  /\ object' = object
           /\ \A s \in Sessions, r \in Roles : key'[s][r] \in Handles => key'[s][r] = key[s][r]
<1>1. find_lock = u /\ find_lock # None /\ find_lock # t
  BY NoneAssumption DEF KeyInv, Critical
<1>2. th[t].pc \notin {"create", "add"}
  BY <1>1 DEF KeyInv, Critical
<1>3. Begin(t) \/ Check(t) \/ Return(t) \/ LoadBegin(t) \/ LoadFails(t) \/ LoadSet(t)
      \/ LoadRead(t) \/ LoadAdd(t) \/ LoadFailsLate(t)
  BY <1>1, <1>2 DEF Step, DropOwn, DropOther, Find, FindFails, Create, CreateFails, Add,
                    AddRollsBack, LoadDrop, DestroyRsaObject
<1>4. CASE LoadSet(t)
  <2>1. th[t].h \notin Handles
    BY <1>4, HandlesDiffer DEF LoadSet, CallState
  <2>2. QED BY <1>4, <2>1 DEF LoadSet, KeyInv, TypeOK
<1>5. QED
  BY <1>3, <1>4 DEF Begin, Check, Return, LoadBegin, LoadFails, LoadRead, LoadAdd,
                    LoadFailsLate, CountLoaded, cache

\* The state of a call is not disturbed by a step of another thread.
LEMMA OtherCalls ==
    ASSUME KeyInv, Owned, \A u \in Threads : CallState(th[u]),
           NEW t \in Threads, Step(t), unhandled' = FALSE, NEW u \in Threads, u # t
    PROVE  CallState(th[u])'
<1> DEFINE c == th[u]
<1>1. th'[u] = c
  BY OwnSessionOnly
<1>2. CASE c.pc = "idle"
  BY <1>1, <1>2 DEF CallState, Loading
<1>3. CASE c.pc # "idle"
  <2>1. c.s \in Sessions /\ c.role \in Roles
    BY <1>3, CallHasSession DEF KeyInv
  <2>2. c.s # None /\ c.s # th[t].s
    BY <2>1, NoneAssumption DEF Owned
  <2>3. key'[c.s] = key[c.s] /\ num'[c.s] = num[c.s]
    BY <2>1, <2>2, OwnSessionOnly
  <2>4. ASSUME c.pc = "add"
        PROVE  /\ object'[c.h] = [class |-> c.role, val |-> c.val, token |-> c.byref]
               /\ \/ c.found = TRUE
                  \/ c.h \in Handles /\ \A s \in Sessions, r \in Roles : key'[s][r] # c.h
    <3>1. object' = object
      BY <2>4, SectionIsSafe
    <3>2. \A s \in Sessions, r \in Roles : key'[s][r] \in Handles => key'[s][r] = key[s][r]
      BY <2>4, SectionIsSafe
    <3>3. QED BY <2>4, <3>1, <3>2 DEF CallState
  <2>5. CallState(c)
    OBVIOUS
  <2> HIDE DEF c
  <2>6. QED BY <1>1, <2>3, <2>4, <2>5 DEF CallState, Loading
<1>4. QED BY <1>2, <1>3

(***************************************************************************)
(* Steps that change no key, object or count                               *)
(***************************************************************************)
\* The context of the lemmas below: a step of t that the code copes with.
Handled(t) == KeyInv /\ Owned /\ Consistent /\ Step(t) /\ unhandled' = FALSE

\* Then everything is as it was if the call itself is in order.
LEMMA NothingMoved ==
    ASSUME NEW t \in Threads, Handled(t), CallState(th[t])',
           key' = key, num' = num, object' = object, active' = active,
           persistent' = persistent, th[t].pc # "add",
           \/ ~Loading(th[t]) /\ ~Loading(th'[t])
           \/ /\ Loading(th[t]) /\ Loading(th'[t])
              /\ th'[t].h = th[t].h /\ th'[t].s = th[t].s
    PROVE  Consistent'
<1>1. /\ KeyInv /\ Owned /\ TokenKeeps
      /\ \A u \in Threads : CallState(th[u])
      /\ \A s \in Sessions, r \in Roles : Cached(s, r)
      /\ \A h \in AllHandles : Balance(h)
      /\ Adopted
  BY DEF Handled, Consistent
<1>2. \A u \in Threads : u # t => th'[u] = th[u]
  BY OwnSessionOnly DEF Handled
<1>3. \A u \in Threads : CallState(th[u])'
  BY <1>1, OtherCalls DEF Handled
<1>4. TokenKeeps'
  BY <1>1 DEF TokenKeeps
<1>5. ASSUME NEW s \in Sessions, NEW r \in Roles PROVE Cached(s, r)'
  <2>1. ASSUME NEW u \in Threads, th[u].s = s, Loading(th[u])
        PROVE  th'[u].s = s /\ Loading(th'[u])
    BY <1>2, <2>1
  <2>2. QED BY <1>1, <2>1 DEF Cached
<1>6. ASSUME NEW h \in AllHandles PROVE Balance(h)'
  <2>1. Uncounted(h)' = Uncounted(h)
    BY <1>2 DEF Uncounted, Loading
  <2>2. References(h)' = References(h)
    BY DEF References
  <2>3. QED BY <1>1, <2>1, <2>2 DEF Balance
<1>7. Adopted'
  <2>1. ASSUME NEW u \in Threads, th[u].pc = "add" PROVE th'[u] = th[u]
    BY <1>2, <2>1
  <2>2. QED BY <1>1, <2>1 DEF Adopted
<1>8. QED BY <1>3, <1>4, <1>5, <1>6, <1>7 DEF Consistent

\* The call of thread t: types, state.
LEMMA OwnCall ==
    ASSUME NEW t \in Threads, Handled(t)
    PROVE  /\ TypeOK /\ CallsOK /\ th[t] \in Call /\ CallState(th[t])
           /\ th \in [Threads -> Call]
           /\ th[t].pc # "idle" => th[t].s \in Sessions /\ th[t].role \in Roles
                                   /\ th[t].val \in Values /\ th[t].s # None
BY CallHasSession, NoneAssumption DEF Handled, KeyInv, Consistent, CallsOK

\* A call begins.
LEMMA BeginConsistent ==
    ASSUME NEW t \in Threads, Handled(t), Begin(t) \/ LoadBegin(t) PROVE Consistent'
<1>1. CASE Begin(t)
  <2>1. PICK s \in free, r \in Roles, p \in Structs, v \in Values, byref \in BOOLEAN :
           /\ byref => r = "priv"
           /\ free' = free \ {s}
           /\ th' = [th EXCEPT ![t] = [NoCall EXCEPT !.pc = "check", !.s = s, !.role = r,
                                         !.struct = p, !.val = v, !.byref = byref]]
    BY <1>1, Zenon DEF Begin
  <2>2. th'[t].pc = "check" /\ th'[t].found = FALSE
    BY <2>1, OwnCall DEF NoCall
  <2>3. CallState(th[t])'
    BY <2>2 DEF CallState, Loading
  <2>4. QED BY <1>1, <2>2, <2>3, NothingMoved DEF Begin, cache, Loading
<1>2. CASE LoadBegin(t)
  <2>1. PICK s \in free, v \in KeyStore, p \in Structs :
           /\ free' = free \ {s}
           /\ th' = [th EXCEPT ![t] = [NoCall EXCEPT !.pc = "load_find", !.s = s,
                         !.role = "priv", !.struct = p, !.val = v, !.byref = TRUE]]
    BY <1>2, Zenon DEF LoadBegin
  <2>2. th'[t].pc = "load_find" /\ th'[t].role = "priv" /\ th'[t].val \in KeyStore
    BY <2>1, OwnCall DEF NoCall
  <2>3. CallState(th[t])'
    BY <2>2 DEF CallState, Loading
  <2>4. QED BY <1>2, <2>2, <2>3, NothingMoved DEF LoadBegin, cache, Loading
<1>3. QED BY <1>1, <1>2

\* A call ends.
LEMMA ReturnConsistent ==
    ASSUME NEW t \in Threads, Handled(t), Return(t) \/ LoadFails(t) PROVE Consistent'
<1>1. th'[t].pc = "idle"
  BY OwnCall DEF Return, LoadFails, NoCall
<1>2. CallState(th[t])'
  BY <1>1 DEF CallState, Loading
<1>3. QED BY <1>1, <1>2, NothingMoved DEF Return, LoadFails, cache, Loading

\* A cache hit is for the value that was asked for.
LEMMA CheckConsistent ==
    ASSUME NEW t \in Threads, Handled(t), Check(t) PROVE Consistent'
<1> DEFINE c == th[t]
<1>1. c \in Call /\ th \in [Threads -> Call] /\ c.pc = "check" /\ c.found = FALSE /\ TypeOK
  BY OwnCall DEF Check, CallState
<1>2. c.s \in Sessions /\ c.role \in Roles /\ c.val \in Values
  BY <1>1, OwnCall
<1>3. /\ th'[t].s = c.s /\ th'[t].role = c.role /\ th'[t].val = c.val /\ th'[t].found = FALSE
      /\ \/ /\ CheckNewRsaKey(t) /\ key[c.s][c.role] # None
            /\ th'[t].pc = "use" /\ th'[t].h = key[c.s][c.role]
         \/ CheckNewRsaKey(t) /\ key[c.s][c.role] = None /\ th'[t].pc = "find"
         \/ th'[t].pc = "drop"
  <2>1. CASE /\ CheckNewRsaKey(t) /\ key[c.s][c.role] # None
             /\ th' = [th EXCEPT ![t].pc = "use", ![t].h = key[c.s][c.role]]
    BY <1>1, <2>1 DEF Call
  <2>2. CASE CheckNewRsaKey(t) /\ key[c.s][c.role] = None /\ Goto(t, "find")
    BY <1>1, <2>2 DEF Call, Goto
  <2>3. CASE Goto(t, "drop")
    BY <1>1, <2>3 DEF Call, Goto
  <2>4. QED BY <2>1, <2>2, <2>3, Zenon DEF Check
<1>4. key' = key /\ num' = num /\ object' = object
  BY DEF Check, cache
<1>5. CheckNewRsaKey(t) => num[c.s] = c.val
  BY DEF CheckNewRsaKey
<1> HIDE DEF c
<1>6. CallState(th[t])'
  BY <1>2, <1>3, <1>4, <1>5 DEF CallState, Loading
<1>7. ~Loading(th[t]) /\ ~Loading(th'[t]) /\ th[t].pc # "add"
  BY <1>1, <1>3 DEF Loading, c
<1>8. QED BY <1>6, <1>7, NothingMoved DEF Check, cache

\* What a search finds is the object of the key, referenced or about to be.
LEMMA FindConsistent ==
    ASSUME NEW t \in Threads, Handled(t), Find(t) PROVE Consistent'
<1> DEFINE c == th[t]
<1>1. c \in Call /\ c.pc = "find" /\ CallState(c) /\ CallsOK
  BY OwnCall DEF Find
<1>2. key' = key /\ num' = num /\ object' = object
  BY DEF Find, cache
<1>3. CallState(th[t])' /\ ~Loading(th'[t])
  <2>1. CASE \E h \in Matching(t) :
               th'[t] = [th[t] EXCEPT !.pc = "add", !.h = h, !.found = TRUE]
    <3>1. PICK h \in Matching(t) : th'[t] = [c EXCEPT !.pc = "add", !.h = h, !.found = TRUE]
      BY <2>1
    <3>2. object[h] = [class |-> c.role, val |-> c.val, token |-> c.byref]
      BY <3>1 DEF Matching
    <3>3. /\ th'[t].pc = "add" /\ th'[t].h = h /\ th'[t].found = TRUE
          /\ th'[t].s = c.s /\ th'[t].role = c.role /\ th'[t].val = c.val
          /\ th'[t].byref = c.byref
      BY <1>1, <3>1 DEF Call
    <3> HIDE DEF c
    <3>4. QED BY <1>1, <1>2, <3>2, <3>3 DEF CallState, Loading
  <2>2. CASE Matching(t) = {} /\ th'[t] = [th[t] EXCEPT !.pc = "create"]
    <3>1. /\ th'[t].pc = "create" /\ th'[t].found = c.found
          /\ th'[t].s = c.s /\ th'[t].role = c.role /\ th'[t].val = c.val
      BY <1>1, <2>2 DEF Call
    <3> HIDE DEF c
    <3>2. QED BY <1>1, <1>2, <3>1 DEF CallState, Loading
  <2>3. QED BY <1>1, <2>1, <2>2, FindCall
<1>4. QED BY <1>1, <1>3, NothingMoved DEF Find, cache, Loading

\* A failed search or creation leaves nothing behind.
LEMMA FailsConsistent ==
    ASSUME NEW t \in Threads, Handled(t), FindFails(t) \/ CreateFails(t) PROVE Consistent'
<1>1. th[t] \in Call /\ th[t].pc \in {"find", "create"} /\ th \in [Threads -> Call]
  BY OwnCall DEF FindFails, CreateFails
<1>2. Goto(t, "done") /\ key' = key
  BY DEF FindFails, CreateFails, Handled, cache
<1>3. th'[t].pc = "done"
  BY <1>1, <1>2 DEF Goto, Call
<1>4. CallState(th[t])'
  BY <1>3 DEF CallState, Loading
<1>5. QED BY <1>1, <1>2, <1>3, <1>4, NothingMoved DEF FindFails, CreateFails, cache, Loading

\* The count is read.
LEMMA LoadReadConsistent ==
    ASSUME NEW t \in Threads, Handled(t), LoadRead(t) PROVE Consistent'
<1> DEFINE c == th[t]
<1>1. c \in Call /\ c.pc = "load_read" /\ CallState(c) /\ th \in [Threads -> Call]
  BY OwnCall DEF LoadRead
<1>2. /\ th'[t].pc = "load_add" /\ th'[t].s = c.s /\ th'[t].h = c.h /\ th'[t].val = c.val
      /\ th'[t].role = c.role
  BY <1>1 DEF LoadRead, Call
<1>3. key' = key /\ num' = num /\ object' = object
  BY DEF LoadRead, cache
<1> HIDE DEF c
<1>4. CallState(th[t])'
  BY <1>1, <1>2, <1>3 DEF CallState, Loading
<1>5. Loading(th[t]) /\ Loading(th'[t])
  BY <1>1, <1>2 DEF Loading, c
<1>6. th'[t].h = th[t].h /\ th'[t].s = th[t].s /\ th[t].pc # "add"
  BY <1>1, <1>2 DEF c
<1>7. QED BY <1>4, <1>5, <1>6, NothingMoved DEF LoadRead, cache

(***************************************************************************)
(* References are dropped                                                  *)
(***************************************************************************)
\* What Consistent says, as facts of their own.
LEMMA ConsistentParts ==
    ASSUME NEW t \in Threads, Handled(t)
    PROVE  /\ KeyInv /\ TypeOK /\ Owned /\ TokenKeeps /\ Adopted
           /\ \A u \in Threads : CallState(th[u])
           /\ \A s \in Sessions, r \in Roles : Cached(s, r)
           /\ \A h \in AllHandles : Balance(h)
           /\ \A u \in Threads : u # t => th'[u] = th[u]
           /\ \A u \in Threads : u # t => CallState(th[u])'
BY OwnSessionOnly, OtherCalls DEF Handled, Consistent, KeyInv

\* Every reference to a session object is counted.
LEMMA SessionObjectsCounted ==
    ASSUME NEW t \in Threads, Handled(t), NEW h \in Handles
    PROVE  Uncounted(h) = {} /\ active[h] = Cardinality(References(h))
<1>1. h \in AllHandles /\ active[h] \in Nat
  BY ConsistentParts DEF AllHandles, TypeOK
<1>2. Uncounted(h) = {}
  <2> SUFFICES ASSUME NEW u \in Uncounted(h) PROVE FALSE
    OBVIOUS
  <2>1. u \in Threads /\ th[u].pc \in {"load_read", "load_add"} /\ th[u].h = h
    BY DEF Uncounted
  <2>2. CallState(th[u])
    BY <2>1, ConsistentParts
  <2>3. th[u].val \in KeyStore /\ h = TokenHandle(th[u].val)
    BY <2>1, <2>2 DEF CallState
  <2>4. QED BY <2>3, HandlesDiffer
<1>3. QED BY <1>1, <1>2, ConsistentParts, FS_EmptySet, FiniteReferences DEF Balance

\* pk11_destroy_rsa_object_* takes one off the count, and destroys the object only
\* with the last reference to it.
LEMMA LastReference ==
    ASSUME NEW t \in Threads, Handled(t), th[t].pc \in {"drop", "drop_other", "load_find"},
           NEW r \in Roles, DestroyRsaObject(th[t].s, r), key[th[t].s][r] # None
    PROVE  LET s == th[t].s
               h == key[s][r] IN
           /\ s \in Sessions /\ h \in AllHandles
           /\ key' = [key EXCEPT ![s][r] = None] /\ num' = [num EXCEPT ![s] = None]
           /\ active[h] > 0 /\ active' = [active EXCEPT ![h] = active[h] - 1]
           /\ \/ object' = object
              \/ /\ object' = [object EXCEPT ![h] = None]
                 /\ h \in Handles /\ References(h) = {<<s, r>>}
           /\ h \in Handles /\ active[h] = 1 /\ persistent[s] = FALSE => object'[h] = None
<1> DEFINE s == th[t].s
           h == key[s][r]
<1>1. s \in Sessions /\ s # None /\ TypeOK /\ CallsOK
  BY OwnCall
<1>2. h \in AllHandles /\ active[h] \in Nat /\ persistent[s] \in BOOLEAN
  BY <1>1 DEF TypeOK
<1>3. key' = [key EXCEPT ![s][r] = None] /\ num' = [num EXCEPT ![s] = None]
  BY DEF DestroyRsaObject, ForgetKey
<1>4. DropReference(s, h)
  BY DEF DestroyRsaObject
<1>5. active[h] > 0
  <2>1. \A u \in Threads : Loading(th[u]) => th[u].s # s
    BY <1>1, ConsistentParts DEF Owned, Loading
  <2>2. QED BY <1>1, <1>2, <2>1, ConsistentParts, ReferenceIsCounted
<1>6. active' = [active EXCEPT ![h] = active[h] - 1]
  <2>1. active' = [active EXCEPT ![h] = IF active[h] > 0 THEN active[h] - 1 ELSE 0]
    BY <1>4 DEF DropReference
  <2>2. QED BY <1>5, <2>1
<1>7. object[h] # None /\ (h \in Handles => object[h].token = FALSE)
  BY ZenonT(60), <1>1, ConsistentParts DEF Cached, TokenKeeps
<1>8. ASSUME object' # object
      PROVE  object' = [object EXCEPT ![h] = None] /\ h \in Handles /\ References(h) = {<<s, r>>}
  <2>1. active[h] = 1 /\ ~object[h].token /\ object' = [object EXCEPT ![h] = None]
    BY <1>4, <1>8 DEF DropReference
  <2>2. h \in Handles
    <3>1. ASSUME NEW v \in KeyStore, h = TokenHandle(v) PROVE FALSE
      <4>1. object[h] = [class |-> "priv", val |-> v, token |-> TRUE]
        BY <3>1, ConsistentParts DEF TokenKeeps
      <4>2. object[h].token = TRUE
        BY <4>1
      <4>3. QED BY <2>1, <4>2
    <3>2. QED BY <1>2, <3>1 DEF AllHandles
  <2>3. Cardinality(References(h)) = 1
    BY <2>1, <2>2, SessionObjectsCounted
  <2>4. PICK x : References(h) = {x}
    BY <2>3, FiniteReferences, FS_Singleton
  <2>5. <<s, r>> \in References(h)
    BY <1>1 DEF References
  <2>6. QED BY <2>1, <2>2, <2>4, <2>5
<1>9. ASSUME h \in Handles, active[h] = 1, persistent[s] = FALSE PROVE object'[h] = None
  <2>1. object' = [object EXCEPT ![h] = None]
    BY <1>4, <1>7, <1>9 DEF DropReference, Handled
  <2>2. QED BY <1>1, <1>2, <2>1 DEF TypeOK
<1>10. QED BY <1>1, <1>2, <1>3, <1>5, <1>6, <1>8, <1>9

\* The other references are not affected.
LEMMA DropConsistent ==
    ASSUME NEW t \in Threads, Handled(t), th[t].pc \in {"drop", "drop_other", "load_find"},
           NEW r \in Roles, DestroyRsaObject(th[t].s, r),
           CallState(th[t])', ~Loading(th'[t])
    PROVE  Consistent'
<1>1. CASE key[th[t].s][r] = None
  <2>1. key' = key /\ num' = num /\ object' = object /\ active' = active
        /\ persistent' = persistent
    BY <1>1 DEF DestroyRsaObject
  <2>2. ~Loading(th[t])
    BY DEF Loading
  <2>3. QED BY <2>1, <2>2, NothingMoved
<1>2. CASE key[th[t].s][r] # None
  <2>a. PICK s \in Sessions : s = th[t].s
    BY <1>2, LastReference
  <2>b. PICK h \in AllHandles : h = key[s][r]
    BY <1>2, <2>a, LastReference
  <2>1. /\ s \in Sessions /\ h \in AllHandles
        /\ key' = [key EXCEPT ![s][r] = None] /\ num' = [num EXCEPT ![s] = None]
        /\ active[h] > 0 /\ active' = [active EXCEPT ![h] = active[h] - 1]
        /\ \/ object' = object
           \/ /\ object' = [object EXCEPT ![h] = None]
              /\ h \in Handles /\ References(h) = {<<s, r>>}
        /\ h \in Handles /\ active[h] = 1 /\ persistent[s] = FALSE => object'[h] = None
    BY <1>2, <2>a, <2>b, LastReference
  <2>2. TypeOK /\ TokenKeeps /\ Adopted /\ persistent' = persistent
    BY ConsistentParts DEF DestroyRsaObject
  <2>3. \A s1 \in Sessions, r1 \in Roles :
           /\ key'[s1][r1] = IF s1 = s /\ r1 = r THEN None ELSE key[s1][r1]
           /\ num'[s1] = IF s1 = s THEN None ELSE num[s1]
    BY <2>1, <2>2 DEF TypeOK
  <2>4. \A g \in AllHandles : object'[g] = object[g]
                              \/ (g = h /\ g \in Handles /\ References(h) = {<<s, r>>} /\ object'[g] = None)
    BY <2>1, <2>2 DEF TypeOK
  <2>5. \A g \in AllHandles : active'[g] = IF g = h THEN active[h] - 1 ELSE active[g]
    BY <2>1, <2>2 DEF TypeOK
  <2>6. TokenKeeps'
    BY <2>2, <2>4, HandlesDiffer DEF TokenKeeps, AllHandles
  <2>7. ASSUME NEW s1 \in Sessions, NEW r1 \in Roles PROVE Cached(s1, r1)'
    <3> SUFFICES ASSUME key'[s1][r1] # None
                 PROVE  /\ object'[key'[s1][r1]] # None
                        /\ object'[key'[s1][r1]].class = r1
                        /\ \/ num'[s1] \in {None, object'[key'[s1][r1]].val}
                           \/ \E u \in Threads : th'[u].s = s1 /\ Loading(th'[u])
      BY DEF Cached
    <3>1. key'[s1][r1] = key[s1][r1] /\ ~(s1 = s /\ r1 = r) /\ key[s1][r1] \in AllHandles
      BY <2>2, <2>3 DEF TypeOK
    <3>2. object'[key[s1][r1]] = object[key[s1][r1]]
      <4>1. key[s1][r1] = h => <<s1, r1>> \in References(h)
        BY DEF References
      <4>2. QED BY <2>4, <3>1, <4>1
    <3>3. Cached(s1, r1)
      BY ConsistentParts
    <3>4. ASSUME NEW u \in Threads, th[u].s = s1, Loading(th[u])
          PROVE  th'[u].s = s1 /\ Loading(th'[u])
      BY <3>4, ConsistentParts DEF Loading
    <3>5. QED BY <2>3, <3>1, <3>2, <3>3, <3>4 DEF Cached
  <2>8. ASSUME NEW g \in AllHandles PROVE Balance(g)'
    <3>1. Uncounted(g)' = Uncounted(g)
      BY ConsistentParts DEF Uncounted, Loading
    <3>2. CASE g = h
      <4>1. Cardinality(References(h)') = Cardinality(References(h)) - 1
        BY <2>1, <2>2, <2>b, ReferenceDropped
      <4>2. active'[g] = active[h] - 1 /\ active[h] \in Nat
        BY <2>1, <2>2, <2>5, <3>2 DEF TypeOK
      <4>3. Balance(h)
        BY <2>1, ConsistentParts
      <4>4. QED BY <3>1, <3>2, <4>1, <4>2, <4>3, FiniteReferences DEF Balance
    <3>3. CASE g # h
      <4>1. References(g)' = References(g)
        <5>1. key[s][r] = h /\ key' = [key EXCEPT ![s][r] = None]
          BY <2>1, <2>b
        <5>2. \A g1 \in AllHandles : g1 # h => References(g1)' = References(g1)
          BY <2>2, <5>1, ReferenceDropped
        <5>3. QED BY <3>3, <5>2
      <4>2. QED BY <2>5, <3>1, <3>3, <4>1, ConsistentParts DEF Balance
    <3>4. QED BY <3>2, <3>3
  <2>9. Adopted'
    <3> SUFFICES ASSUME \A s1 \in Sessions : persistent[s1] = FALSE,
                        NEW g \in Handles, object'[g] # None, active'[g] = 0
                 PROVE  \E u \in Threads :
                           th'[u].pc = "add" /\ th'[u].h = g /\ th'[u].found = FALSE
      BY <2>2 DEF Adopted
    <3>1. g \in AllHandles /\ active[h] \in Nat /\ s \in Sessions
      BY <2>1, <2>2 DEF AllHandles, TypeOK
    <3>2. g # h
      BY <2>1, <2>5, <3>1
    <3>3. object[g] # None /\ active[g] = 0
      BY <2>4, <2>5, <3>1, <3>2
    <3>4. PICK u \in Threads : th[u].pc = "add" /\ th[u].h = g /\ th[u].found = FALSE
      BY <2>2, <3>3 DEF Adopted
    <3>5. th'[u] = th[u]
      BY <3>4, ConsistentParts
    <3>6. QED BY <3>4, <3>5
  <2>10. \A u \in Threads : CallState(th[u])'
    BY ConsistentParts
  <2>11. QED BY <2>6, <2>7, <2>8, <2>9, <2>10 DEF Consistent
<1>3. QED BY <1>1, <1>2

\* After the drop the slot is empty.
LEMMA DropsConsistent ==
    ASSUME NEW t \in Threads, Handled(t), DropOwn(t) \/ DropOther(t) \/ LoadDrop(t)
    PROVE  Consistent'
<1> DEFINE c == th[t]
<1>1. c \in Call /\ CallState(c) /\ th \in [Threads -> Call] /\ TypeOK
  BY OwnCall
<1>2. c.s \in Sessions /\ c.role \in Roles /\ Other(c.role) \in Roles /\ "priv" \in Roles
      /\ Other(c.role) # c.role
  BY OwnCall DEF DropOwn, DropOther, LoadDrop, Other, Roles
<1>3. ASSUME NEW r \in Roles, DestroyRsaObject(c.s, r)
      PROVE  /\ key'[c.s][r] = None
             /\ \A r1 \in Roles : key'[c.s][r1] \in {None, key[c.s][r1]}
  <2>1. CASE key[c.s][r] = None
    BY <1>3, <2>1 DEF DestroyRsaObject
  <2>2. CASE key[c.s][r] # None
    <3>1. key' = [key EXCEPT ![c.s][r] = None]
      BY <1>3, <2>2 DEF DestroyRsaObject, ForgetKey
    <3> HIDE DEF c
    <3>2. QED BY <1>1, <1>2, <3>1 DEF TypeOK
  <2>3. QED BY <2>1, <2>2
<1>4. CASE DropOwn(t)
  <2>1. DestroyRsaObject(c.s, c.role) /\ c.pc = "drop"
    BY <1>4 DEF DropOwn
  <2>2. /\ th'[t].pc = "drop_other" /\ th'[t].s = c.s /\ th'[t].role = c.role
        /\ th'[t].found = c.found
    BY <1>1, <1>4 DEF DropOwn, Goto, Call
  <2>3. key'[c.s][c.role] = None
    BY <1>2, <1>3, <2>1
  <2>4. CallState(th[t])' /\ ~Loading(th'[t])
    BY <1>1, <2>1, <2>2, <2>3 DEF CallState, Loading
  <2>5. QED BY <1>2, <2>1, <2>4, DropConsistent
<1>5. CASE DropOther(t)
  <2>1. DestroyRsaObject(c.s, Other(c.role)) /\ c.pc = "drop_other"
    BY <1>5 DEF DropOther
  <2>2. /\ th'[t].pc = "find" /\ th'[t].s = c.s /\ th'[t].role = c.role
        /\ th'[t].found = c.found
    BY <1>1, <1>5 DEF DropOther, Goto, Call
  <2>3. key'[c.s][Other(c.role)] = None /\ key'[c.s][c.role] = None
    BY <1>1, <1>2, <1>3, <2>1 DEF CallState
  <2>4. CallState(th[t])' /\ ~Loading(th'[t])
    BY <1>1, <2>1, <2>2, <2>3 DEF CallState, Loading
  <2>5. QED BY <1>2, <2>1, <2>4, DropConsistent
<1>6. CASE LoadDrop(t)
  <2>1. DestroyRsaObject(c.s, "priv") /\ c.pc = "load_find"
    BY <1>6 DEF LoadDrop
  <2>2. /\ th'[t].pc = "load_set" /\ th'[t].s = c.s /\ th'[t].role = c.role
        /\ th'[t].val = c.val /\ th'[t].h = TokenHandle(c.val)
    BY <1>1, <1>6 DEF LoadDrop, Call
  <2>3. key'[c.s]["priv"] = None
    BY <1>2, <1>3, <2>1
  <2>4. CallState(th[t])' /\ ~Loading(th'[t])
    BY <1>1, <2>1, <2>2, <2>3 DEF CallState, Loading
  <2>5. QED BY <1>2, <2>1, <2>4, DropConsistent
<1>7. QED BY <1>4, <1>5, <1>6

(***************************************************************************)
(* References are taken                                                    *)
(***************************************************************************)
\* A loading thread other than t goes on loading.
LEMMA OthersLoad ==
    ASSUME NEW t \in Threads, Handled(t), NEW s,
           NEW u \in Threads, u # t, th[u].s = s, Loading(th[u])
    PROVE  \E w \in Threads : th'[w].s = s /\ Loading(th'[w])
<1>1. th'[u] = th[u]
  BY ConsistentParts
<1>2. QED BY <1>1

\* C_CreateObject returns a handle that no session has cached.
LEMMA CreateConsistent ==
    ASSUME NEW t \in Threads, Handled(t), Create(t) PROVE Consistent'
<1> DEFINE c == th[t]
           o == [class |-> c.role, val |-> c.val, token |-> FALSE]
<1>1. c \in Call /\ CallState(c) /\ th \in [Threads -> Call] /\ TypeOK /\ c.pc = "create"
      /\ c.byref = FALSE /\ c.found = FALSE
  BY OwnCall DEF Create, Call, CallState
<1>2. PICK h \in Handles : /\ object[h] = None
                           /\ object' = [object EXCEPT ![h] = o]
                           /\ th' = [th EXCEPT ![t].pc = "add", ![t].h = h]
  BY DEF Create
<1>3. /\ th'[t].pc = "add" /\ th'[t].h = h /\ th'[t].found = FALSE /\ th'[t].byref = FALSE
      /\ th'[t].s = c.s /\ th'[t].role = c.role /\ th'[t].val = c.val
  BY <1>1, <1>2 DEF Call
<1>4. key' = key /\ num' = num /\ active' = active /\ persistent' = persistent
  BY DEF Create, cache
<1>5. /\ h \in AllHandles /\ object'[h] = o
      /\ \A g \in AllHandles : g # h => object'[g] = object[g]
  BY <1>1, <1>2 DEF AllHandles, TypeOK
<1>6. o.token = FALSE
  OBVIOUS
<1>7. \A s \in Sessions, r \in Roles : key[s][r] # h
  <2> SUFFICES ASSUME NEW s \in Sessions, NEW r \in Roles, key[s][r] = h PROVE FALSE
    OBVIOUS
  <2>1. h # None
    BY <1>5, NoneAssumption
  <2>2. Cached(s, r)
    BY ConsistentParts
  <2>3. QED BY <1>2, <2>1, <2>2 DEF Cached
<1>8. CallState(th[t])'
  <2>1. object'[h] = [class |-> c.role, val |-> c.val, token |-> FALSE]
    BY <1>5
  <2> HIDE DEF c
  <2>2. QED BY <1>1, <1>3, <1>4, <1>7, <2>1 DEF CallState, Loading
<1>9. \A u \in Threads : CallState(th[u])'
  BY <1>8, ConsistentParts
<1> HIDE DEF o
<1>10. TokenKeeps'
  BY <1>2, <1>5, <1>6, ConsistentParts, HandlesDiffer DEF TokenKeeps, AllHandles
<1>11. ASSUME NEW s \in Sessions, NEW r \in Roles PROVE Cached(s, r)'
  <2>1. key[s][r] # None => object'[key[s][r]] = object[key[s][r]]
    BY <1>1, <1>5, <1>7 DEF TypeOK
  <2>2. \A u \in Threads : th[u].s = s /\ Loading(th[u]) =>
           \E w \in Threads : th'[w].s = s /\ Loading(th'[w])
    BY <1>1, OthersLoad DEF Loading
  <2>3. Cached(s, r)
    BY ConsistentParts
  <2>4. QED BY <1>4, <2>1, <2>2, <2>3 DEF Cached
<1>12. ASSUME NEW g \in AllHandles PROVE Balance(g)'
  <2>1. Uncounted(g)' = Uncounted(g)
    BY <1>1, <1>3, ConsistentParts DEF Uncounted
  <2>2. References(g)' = References(g)
    BY <1>4 DEF References
  <2>3. QED BY <1>4, <2>1, <2>2, ConsistentParts DEF Balance
<1>13. Adopted'
  <2> SUFFICES ASSUME \A s \in Sessions : persistent[s] = FALSE,
                      NEW g \in Handles, object'[g] # None, active[g] = 0
               PROVE  \E u \in Threads :
                         th'[u].pc = "add" /\ th'[u].h = g /\ th'[u].found = FALSE
    BY <1>4 DEF Adopted
  <2>1. CASE g = h
    BY <1>3, <2>1
  <2>2. CASE g # h
    <3>1. object[g] # None
      BY <1>5, <2>2 DEF AllHandles
    <3>2. PICK u \in Threads : th[u].pc = "add" /\ th[u].h = g /\ th[u].found = FALSE
      BY <3>1, ConsistentParts DEF Adopted
    <3>3. th'[u] = th[u]
      BY <1>1, <3>2, ConsistentParts
    <3>4. QED BY <3>2, <3>3
  <2>3. QED BY <2>1, <2>2
<1>14. QED BY <1>9, <1>10, <1>11, <1>12, <1>13 DEF Consistent

\* A reference is counted in the step that takes it.
LEMMA AddConsistent == ASSUME NEW t \in Threads, Handled(t), Add(t) PROVE Consistent'
<1>1. /\ th[t] \in Call /\ CallState(th[t]) /\ th \in [Threads -> Call] /\ TypeOK /\ CallsOK
      /\ th[t].pc = "add"
  BY OwnCall DEF Add
<1>2. PICK s \in Sessions, r \in Roles, h \in AllHandles, v \in Values :
         s = th[t].s /\ r = th[t].role /\ h = th[t].h /\ v = th[t].val
  BY <1>1, OwnCall DEF CallsOK, CallOK
<1>3. /\ key[s][r] = None /\ (key[s][Other(r)] = None \/ num[s] = v)
      /\ object[h] = [class |-> r, val |-> v, token |-> th[t].byref]
  BY <1>1, <1>2 DEF CallState
<1>4. object[h] # None /\ object[h].class = r /\ object[h].val = v /\ v # None /\ h # None
  <2>1. object[h] \in Object
    BY <1>1, <1>2, <1>3 DEF Object, Call
  <2>2. QED BY <1>3, <2>1, NoneIsNoObject, NoneAssumption
<1>5. /\ key' = [key EXCEPT ![s][r] = h] /\ num' = [num EXCEPT ![s] = v]
      /\ active' = [active EXCEPT ![h] = active[h] + 1]
      /\ object' = object /\ persistent' = persistent
  BY <1>2 DEF Add
<1>6. \A s1 \in Sessions, r1 \in Roles :
         /\ key'[s1][r1] = IF s1 = s /\ r1 = r THEN h ELSE key[s1][r1]
         /\ num'[s1] = IF s1 = s THEN v ELSE num[s1]
  BY <1>1, <1>5 DEF TypeOK
<1>7. \A g \in AllHandles : active'[g] = IF g = h THEN active[h] + 1 ELSE active[g]
  BY <1>1, <1>5 DEF TypeOK
<1>8. th'[t].pc = "use" /\ th'[t].s = s /\ th'[t].role = r /\ th'[t].h = h /\ th'[t].val = v
  BY <1>1, <1>2 DEF Add, Call
<1>9. \A u \in Threads : CallState(th[u])'
  <2>1. CallState(th[t])'
    BY <1>4, <1>6, <1>8 DEF CallState, Loading
  <2>2. QED BY <2>1, ConsistentParts
<1>10. TokenKeeps'
  BY <1>5, ConsistentParts DEF TokenKeeps
<1>11. ASSUME NEW s1 \in Sessions, NEW r1 \in Roles PROVE Cached(s1, r1)'
  <2>1. Cached(s1, r1)
    BY ConsistentParts
  <2>2. \A u \in Threads : th[u].s = s1 /\ Loading(th[u]) =>
           s1 # s /\ \E w \in Threads : th'[w].s = s1 /\ Loading(th'[w])
    <3>1. ASSUME NEW u \in Threads, th[u].s = s1, Loading(th[u])
          PROVE  u # t /\ s1 # s
      BY <1>1, <1>2, <3>1, NoneAssumption, ConsistentParts DEF Loading, Owned
    <3>2. QED BY <3>1, OthersLoad
  <2>3. CASE s1 = s /\ r1 = r
    BY <1>4, <1>5, <1>6, <2>3 DEF Cached
  <2>4. CASE s1 = s /\ r1 # r
    <3>1. r1 = Other(r)
      BY <2>4 DEF Roles, Other
    <3>2. QED BY <1>3, <1>4, <1>5, <1>6, <2>1, <2>2, <2>4, <3>1 DEF Cached
  <2>5. CASE s1 # s
    BY <1>5, <1>6, <2>1, <2>2, <2>5 DEF Cached
  <2>6. QED BY <2>3, <2>4, <2>5
<1>12. ASSUME NEW g \in AllHandles PROVE Balance(g)'
  <2>1. Uncounted(g)' = Uncounted(g)
    BY <1>1, <1>8, ConsistentParts DEF Uncounted
  <2>2. Balance(g) /\ active[g] \in Nat
    BY <1>1, ConsistentParts DEF TypeOK
  <2>3. CASE g = h
    <3>1. Cardinality(References(h)') = Cardinality(References(h)) + 1
      BY <1>1, <1>3, <1>5, ReferenceTaken
    <3>2. QED BY <1>7, <2>1, <2>2, <2>3, <3>1, FiniteReferences DEF Balance
  <2>4. CASE g # h
    <3>1. \A g1 \in AllHandles : g1 # h => References(g1)' = References(g1)
      BY <1>1, <1>3, <1>5, ReferenceTaken
    <3>2. QED BY <1>7, <2>1, <2>2, <2>4, <3>1 DEF Balance
  <2>5. QED BY <2>3, <2>4
<1>13. Adopted'
  <2> SUFFICES ASSUME \A s1 \in Sessions : persistent[s1] = FALSE,
                      NEW g \in Handles, object[g] # None, active'[g] = 0
               PROVE  \E u \in Threads :
                         th'[u].pc = "add" /\ th'[u].h = g /\ th'[u].found = FALSE
    BY <1>5 DEF Adopted
  <2>1. g # h /\ active[g] = 0
    BY <1>1, <1>7 DEF AllHandles, TypeOK
  <2>2. PICK u \in Threads : th[u].pc = "add" /\ th[u].h = g /\ th[u].found = FALSE
    BY <2>1, ConsistentParts DEF Adopted
  <2>3. th'[u] = th[u]
    BY <1>2, <2>1, <2>2, ConsistentParts
  <2>4. QED BY <2>2, <2>3
<1>14. QED BY <1>9, <1>10, <1>11, <1>12, <1>13 DEF Consistent

\* The rollback destroys an object that no session refers to.
LEMMA AddRollsBackConsistent ==
    ASSUME NEW t \in Threads, Handled(t), AddRollsBack(t) PROVE Consistent'
<1>1. /\ th[t] \in Call /\ CallState(th[t]) /\ th \in [Threads -> Call] /\ TypeOK /\ CallsOK
      /\ th[t].pc = "add"
  BY OwnCall DEF AddRollsBack
<1>2. PICK s \in Sessions, r \in Roles, h \in AllHandles, v \in Values :
         s = th[t].s /\ r = th[t].role /\ h = th[t].h /\ v = th[t].val
  BY <1>1, OwnCall DEF CallsOK, CallOK
<1>3. /\ key[s][r] = None /\ (key[s][Other(r)] = None \/ num[s] = v) /\ v # None
      /\ \/ th[t].found = TRUE
         \/ h \in Handles /\ \A s1 \in Sessions, r1 \in Roles : key[s1][r1] # h
  BY <1>1, <1>2, NoneAssumption DEF CallState
<1>4. /\ key' = key /\ active' = active /\ persistent' = persistent
      /\ object' = IF th[t].found THEN object ELSE [object EXCEPT ![h] = None]
      /\ \E w \in {None, v} : num' = [num EXCEPT ![s] = w]
  BY <1>2 DEF AddRollsBack
<1>5. /\ num'[s] \in {None, v}
      /\ \A s1 \in Sessions : s1 # s => num'[s1] = num[s1]
  BY <1>1, <1>4 DEF TypeOK
<1>6. \A g \in AllHandles :
         \/ object'[g] = object[g]
         \/ /\ g = h /\ th[t].found = FALSE /\ object'[g] = None /\ g \in Handles
            /\ \A s1 \in Sessions, r1 \in Roles : key[s1][r1] # g
  BY <1>1, <1>3, <1>4 DEF TypeOK, Call
<1>7. th'[t].pc = "done"
  BY <1>1 DEF AddRollsBack, Call
<1>8. \A u \in Threads : CallState(th[u])'
  <2>1. CallState(th[t])'
    BY <1>7 DEF CallState, Loading
  <2>2. QED BY <2>1, ConsistentParts
<1>9. TokenKeeps'
  BY <1>6, ConsistentParts, HandlesDiffer DEF TokenKeeps, AllHandles
<1>10. ASSUME NEW s1 \in Sessions, NEW r1 \in Roles PROVE Cached(s1, r1)'
  <2>1. Cached(s1, r1)
    BY ConsistentParts
  <2>2. \A u \in Threads : th[u].s = s1 /\ Loading(th[u]) =>
           s1 # s /\ \E w \in Threads : th'[w].s = s1 /\ Loading(th'[w])
    <3>1. ASSUME NEW u \in Threads, th[u].s = s1, Loading(th[u])
          PROVE  u # t /\ s1 # s
      BY <1>1, <1>2, <3>1, NoneAssumption, ConsistentParts DEF Loading, Owned
    <3>2. QED BY <3>1, OthersLoad
  <2>3. key[s1][r1] # None => object'[key[s1][r1]] = object[key[s1][r1]]
    BY <1>1, <1>6 DEF TypeOK
  <2>4. CASE s1 = s /\ r1 = r
    BY <1>3, <1>4, <2>4 DEF Cached
  <2>5. CASE s1 = s /\ r1 # r
    <3>1. r1 = Other(r)
      BY <2>5 DEF Roles, Other
    <3>2. QED BY <1>3, <1>4, <1>5, <2>1, <2>2, <2>3, <2>5, <3>1 DEF Cached
  <2>6. CASE s1 # s
    BY <1>4, <1>5, <2>1, <2>2, <2>3, <2>6 DEF Cached
  <2>7. QED BY <2>4, <2>5, <2>6
<1>11. ASSUME NEW g \in AllHandles PROVE Balance(g)'
  <2>1. Uncounted(g)' = Uncounted(g)
    BY <1>1, <1>7, ConsistentParts DEF Uncounted
  <2>2. References(g)' = References(g)
    BY <1>4 DEF References
  <2>3. QED BY <1>4, <2>1, <2>2, ConsistentParts DEF Balance
<1>12. Adopted'
  <2> SUFFICES ASSUME \A s1 \in Sessions : persistent[s1] = FALSE,
                      NEW g \in Handles, object'[g] # None, active[g] = 0
               PROVE  \E u \in Threads :
                         th'[u].pc = "add" /\ th'[u].h = g /\ th'[u].found = FALSE
    BY <1>4 DEF Adopted
  <2>1. object[g] # None
    BY <1>6 DEF AllHandles
  <2>2. PICK u \in Threads : th[u].pc = "add" /\ th[u].h = g /\ th[u].found = FALSE
    BY <2>1, ConsistentParts DEF Adopted
  <2>3. u # t
    <3>1. ASSUME u = t PROVE FALSE
      <4>1. object'[h] = None
        BY <1>1, <1>4, <2>2, <3>1 DEF TypeOK
      <4>2. QED BY <1>2, <2>2, <3>1, <4>1
    <3>2. QED BY <3>1
  <2>4. th'[u] = th[u]
    BY <2>3, ConsistentParts
  <2>5. QED BY <2>2, <2>4
<1>13. QED BY <1>8, <1>9, <1>10, <1>11, <1>12 DEF Consistent

\* pk11_load_privkey puts its handle into the session, to be counted later.
LEMMA LoadSetConsistent ==
    ASSUME NEW t \in Threads, Handled(t), LoadSet(t) PROVE Consistent'
<1>1. /\ th[t] \in Call /\ CallState(th[t]) /\ th \in [Threads -> Call] /\ TypeOK /\ CallsOK
      /\ th[t].pc = "load_set"
  BY OwnCall DEF LoadSet
<1>2. PICK s \in Sessions, h \in AllHandles, v \in KeyStore :
         s = th[t].s /\ h = th[t].h /\ v = th[t].val
  BY <1>1, OwnCall DEF CallsOK, CallOK, CallState
<1>3. /\ key[s]["priv"] = None /\ key[s]["pub"] = None /\ h = TokenHandle(v)
      /\ th[t].role = "priv" /\ h # None
  <2>1. key[s]["pub"] = None
    BY <1>2 DEF LoadSet, Handled
  <2>2. QED BY <1>1, <1>2, <2>1, NoneAssumption DEF CallState
<1>4. object[h] # None /\ object[h].class = "priv"
  <2>1. object[h] = [class |-> "priv", val |-> v, token |-> TRUE]
    BY <1>3, ConsistentParts DEF TokenKeeps
  <2>2. v \in Values
    BY KeyStoreAssumption
  <2>3. object[h] \in Object
    BY <2>1, <2>2 DEF Object, Roles
  <2>4. object[h].class = "priv"
    BY <2>1
  <2>5. object[h] # None
    BY <2>3, NoneIsNoObject
  <2>6. QED BY <2>4, <2>5
<1>5. /\ key' = [key EXCEPT ![s]["priv"] = h] /\ num' = num /\ active' = active
      /\ object' = object /\ persistent' = [persistent EXCEPT ![s] = TRUE]
  BY <1>2 DEF LoadSet
<1>6. \A s1 \in Sessions, r1 \in Roles :
         key'[s1][r1] = IF s1 = s /\ r1 = "priv" THEN h ELSE key[s1][r1]
  BY <1>1, <1>5 DEF TypeOK, Roles
<1>7. /\ th'[t].pc = "load_read" /\ th'[t].s = s /\ th'[t].role = "priv" /\ th'[t].h = h
      /\ th'[t].val = v
  BY <1>1, <1>2, <1>3 DEF LoadSet, Goto, Call
<1>8. \A u \in Threads : CallState(th[u])'
  <2>1. key'[s]["priv"] = h /\ key'[s]["pub"] = None
    BY <1>3, <1>6 DEF Roles
  <2>2. CallState(th[t])'
    BY <1>3, <1>7, <2>1 DEF CallState, Loading
  <2>3. QED BY <2>2, ConsistentParts
<1>9. TokenKeeps'
  BY <1>5, ConsistentParts DEF TokenKeeps
<1>10. ASSUME NEW s1 \in Sessions, NEW r1 \in Roles PROVE Cached(s1, r1)'
  <2>1. Cached(s1, r1)
    BY ConsistentParts
  <2>2. \A u \in Threads : th[u].s = s1 /\ Loading(th[u]) =>
           \E w \in Threads : th'[w].s = s1 /\ Loading(th'[w])
    BY <1>1, OthersLoad DEF Loading
  <2>3. CASE s1 = s /\ r1 = "priv"
    <3>1. th'[t].s = s1 /\ Loading(th'[t])
      BY <1>7, <2>3 DEF Loading
    <3>2. QED BY <1>4, <1>5, <1>6, <2>3, <3>1 DEF Cached
  <2>4. CASE ~(s1 = s /\ r1 = "priv")
    BY <1>5, <1>6, <2>1, <2>2, <2>4 DEF Cached
  <2>5. QED BY <2>3, <2>4
<1>11. ASSUME NEW g \in AllHandles PROVE Balance(g)'
  <2>1. Balance(g) /\ active[g] \in Nat
    BY <1>1, ConsistentParts DEF TypeOK
  <2>2. "priv" \in Roles
    BY DEF Roles
  <2>3. CASE g = h
    <3>1. Cardinality(References(h)') = Cardinality(References(h)) + 1
      BY <1>1, <1>3, <1>5, <2>2, ReferenceTaken
    <3>2. Uncounted(h)' = Uncounted(h) \cup {t} /\ t \notin Uncounted(h)
      BY <1>1, <1>7, ConsistentParts DEF Uncounted
    <3>3. Cardinality(Uncounted(h)') = Cardinality(Uncounted(h)) + 1
      BY <3>2, FiniteReferences, FS_AddElement
    <3>4. QED BY <1>5, <2>1, <2>3, <3>1, <3>3, FiniteReferences DEF Balance
  <2>4. CASE g # h
    <3>1. \A g1 \in AllHandles : g1 # h => References(g1)' = References(g1)
      BY <1>1, <1>3, <1>5, <2>2, ReferenceTaken
    <3>2. Uncounted(g)' = Uncounted(g)
      BY <1>1, <1>7, <2>4, ConsistentParts DEF Uncounted
    <3>3. QED BY <1>5, <2>1, <2>4, <3>1, <3>2 DEF Balance
  <2>5. QED BY <2>3, <2>4
<1>12. Adopted'
  BY <1>1, <1>5 DEF Adopted, TypeOK
<1>13. QED BY <1>8, <1>9, <1>10, <1>11, <1>12 DEF Consistent

\* ... and counts it, if nobody changed the count in between.
LEMMA LoadAddConsistent ==
    ASSUME NEW t \in Threads, Handled(t), LoadAdd(t) \/ LoadFailsLate(t) PROVE Consistent'
<1>0. CountLoaded(t)
  BY DEF LoadAdd, LoadFailsLate, Handled
<1>1. /\ th[t] \in Call /\ CallState(th[t]) /\ th \in [Threads -> Call] /\ TypeOK /\ CallsOK
      /\ th[t].pc = "load_add"
  BY <1>0, OwnCall DEF CountLoaded
<1>2. PICK s \in Sessions, h \in AllHandles, v \in KeyStore :
         s = th[t].s /\ h = th[t].h /\ v = th[t].val
  BY <1>1, OwnCall DEF CallsOK, CallOK, CallState
<1>3. /\ key[s]["priv"] = h /\ key[s]["pub"] = None /\ h = TokenHandle(v)
      /\ th[t].role = "priv" /\ h # None
  BY <1>1, <1>2, NoneAssumption DEF CallState, Loading
<1>4. object[h].val = v
  <2>1. object[h] = [class |-> "priv", val |-> v, token |-> TRUE]
    BY <1>3, ConsistentParts DEF TokenKeeps
  <2>2. QED BY <2>1
<1>5. /\ active[h] = th[t].refcnt /\ active' = [active EXCEPT ![h] = active[h] + 1]
      /\ key' = key /\ object' = object /\ persistent' = persistent
      /\ num' = [num EXCEPT ![s] = v]
  BY <1>0, <1>2 DEF CountLoaded, Handled
<1>6. \A g \in AllHandles : active'[g] = IF g = h THEN active[h] + 1 ELSE active[g]
  BY <1>1, <1>5 DEF TypeOK
<1>7. \A s1 \in Sessions : num'[s1] = IF s1 = s THEN v ELSE num[s1]
  BY <1>1, <1>5 DEF TypeOK
<1>8. ~Loading(th'[t]) /\ CallState(th[t])'
  <2>1. CASE LoadAdd(t)
    <3>1. th' = [th EXCEPT ![t] = [th[t] EXCEPT !.pc = "use", !.refcnt = 0]]
      BY <2>1 DEF LoadAdd
    <3>2. th'[t] = [th[t] EXCEPT !.pc = "use", !.refcnt = 0]
      BY <1>1, <3>1
    <3>3. /\ th'[t].pc = "use" /\ th'[t].s = s /\ th'[t].role = "priv" /\ th'[t].h = h
          /\ th'[t].val = v
      BY <1>1, <1>2, <1>3, <3>2 DEF Call
    <3>4. QED BY <1>3, <1>5, <1>7, <3>3 DEF CallState, Loading
  <2>2. CASE LoadFailsLate(t)
    <3>1. th' = [th EXCEPT ![t] = NoCall]
      BY <2>2 DEF LoadFailsLate
    <3>2. th'[t] = NoCall
      BY <1>1, <3>1
    <3>3. th'[t].pc = "idle"
      BY <3>2 DEF NoCall
    <3>4. QED BY <3>3 DEF CallState, Loading
  <2>3. QED BY <2>1, <2>2
<1>9. \A u \in Threads : CallState(th[u])'
  BY <1>8, ConsistentParts
<1>10. TokenKeeps'
  BY <1>5, ConsistentParts DEF TokenKeeps
<1>11. ASSUME NEW s1 \in Sessions, NEW r1 \in Roles PROVE Cached(s1, r1)'
  <2>1. Cached(s1, r1)
    BY ConsistentParts
  <2>2. CASE s1 = s
    BY <1>3, <1>4, <1>5, <1>7, <2>1, <2>2 DEF Cached, Roles
  <2>3. CASE s1 # s
    <3>1. \A u \in Threads : th[u].s = s1 /\ Loading(th[u]) =>
             \E w \in Threads : th'[w].s = s1 /\ Loading(th'[w])
      BY <1>2, <2>3, OthersLoad
    <3>2. QED BY <1>5, <1>7, <2>1, <2>3, <3>1 DEF Cached
  <2>4. QED BY <2>2, <2>3
<1>12. ASSUME NEW g \in AllHandles PROVE Balance(g)'
  <2>1. Balance(g) /\ active[g] \in Nat /\ References(g)' = References(g)
    BY <1>1, <1>5, ConsistentParts DEF TypeOK, References
  <2>2. CASE g = h
    <3>1. Uncounted(h)' = Uncounted(h) \ {t} /\ t \in Uncounted(h)
      BY <1>1, <1>2, <1>8, ConsistentParts DEF Uncounted, Loading
    <3>2. Cardinality(Uncounted(h)') = Cardinality(Uncounted(h)) - 1
      BY <3>1, FiniteReferences, FS_RemoveElement
    <3>3. QED BY <1>6, <2>1, <2>2, <3>2, FiniteReferences DEF Balance
  <2>3. CASE g # h
    <3>1. Uncounted(g)' = Uncounted(g)
      BY <1>1, <1>2, <1>8, <2>3, ConsistentParts DEF Uncounted, Loading
    <3>2. QED BY <1>6, <2>1, <2>3, <3>1 DEF Balance
  <2>4. QED BY <2>2, <2>3
<1>13. Adopted'
  <2>1. h \notin Handles
    BY <1>3, HandlesDiffer
  <2>2. \A g \in Handles : active'[g] = active[g]
    BY <1>6, <2>1 DEF AllHandles
  <2> SUFFICES ASSUME \A s1 \in Sessions : persistent[s1] = FALSE,
                      NEW g \in Handles, object[g] # None, active'[g] = 0
               PROVE  \E u \in Threads :
                         th'[u].pc = "add" /\ th'[u].h = g /\ th'[u].found = FALSE
    BY <1>5 DEF Adopted
  <2>3. PICK u \in Threads : th[u].pc = "add" /\ th[u].h = g /\ th[u].found = FALSE
    BY <2>2, ConsistentParts DEF Adopted
  <2>4. th'[u] = th[u]
    BY <1>1, <2>3, ConsistentParts
  <2>5. QED BY <2>3, <2>4
<1>14. QED BY <1>9, <1>10, <1>11, <1>12, <1>13 DEF Consistent

(***************************************************************************)
(* The invariant                                                           *)
(***************************************************************************)
\* Nothing is cached, and nobody has begun.
LEMMA InitReferences == Init => RefInv
<1> SUFFICES ASSUME Init PROVE RefInv
  OBVIOUS
<1>1. KeyInv
  BY InitTypes DEF KeyInv, Init, Critical, NoCall, OneObjectPerKey, AllHandles
<1>2. \A t \in Threads : th[t] = NoCall /\ th[t].s = None /\ th[t].pc = "idle"
  BY DEF Init, NoCall
<1>3. Owned
  BY <1>2 DEF Owned
<1>4. TokenKeeps
  <2>1. ASSUME NEW v \in KeyStore
        PROVE  object[TokenHandle(v)] = [class |-> "priv", val |-> v, token |-> TRUE]
    <3>1. (CHOOSE w \in KeyStore : TokenHandle(w) = TokenHandle(v)) = v
      BY TokenHandleAssumption
    <3>2. QED BY <3>1, HandlesDiffer DEF Init
  <2>2. \A h \in Handles : object[h] = None
    BY DEF Init, AllHandles
  <2>3. QED BY <2>1, <2>2 DEF TokenKeeps
<1>5. \A t \in Threads : CallState(th[t])
  BY <1>2 DEF CallState, Loading
<1>6. \A s \in Sessions, r \in Roles : key[s][r] = None /\ Cached(s, r)
  BY DEF Init, Cached
<1>7. ASSUME NEW h \in AllHandles PROVE Balance(h)
  <2>1. h # None
    BY NoneAssumption
  <2>2. References(h) = {} /\ Uncounted(h) = {}
    BY <1>2, <1>6, <2>1 DEF References, Uncounted
  <2>3. QED BY <2>2, FS_EmptySet DEF Init, Balance
<1>8. Adopted
  BY DEF Init, Adopted, AllHandles
<1>9. QED BY <1>1, <1>3, <1>4, <1>5, <1>6, <1>7, <1>8 DEF RefInv, Consistent

\* Every step that the code copes with keeps cache, token and counts consistent.
LEMMA StepConsistent == ASSUME NEW t \in Threads, Handled(t) PROVE Consistent'
<1>1. Step(t)
  BY DEF Handled
<1>2. QED
  BY <1>1, BeginConsistent, CheckConsistent, DropsConsistent, FindConsistent, FailsConsistent,
     CreateConsistent, AddConsistent, AddRollsBackConsistent, ReturnConsistent,
     LoadReadConsistent, LoadSetConsistent, LoadAddConsistent DEF Step

\* RefInv is inductive.
LEMMA RefInvariant == Spec => []RefInv
<1>1. RefInv /\ [Next]_vars => RefInv'
  <2> SUFFICES ASSUME RefInv, [Next]_vars PROVE RefInv'
    OBVIOUS
  <2>1. ASSUME NEW t \in Threads, Step(t) PROVE RefInv'
    <3>1. KeyInv'
      BY <2>1, StepTypes, StepKeepsSection DEF RefInv, KeyInv
    <3>2. Owned'
      BY <2>1, OwnedStep DEF RefInv
    <3>3. ASSUME unhandled' = FALSE PROVE Consistent'
      <4>1. Handled(t)
        BY <2>1, <3>3, UnhandledStays DEF RefInv, Handled
      <4>2. QED BY <4>1, StepConsistent
    <3>4. QED BY <3>1, <3>2, <3>3 DEF RefInv
  <2>2. CASE UNCHANGED vars
    <3>1. KeyInv'
      BY <2>2 DEF vars, RefInv, KeyInv, TypeOK, CallsOK, CallOK, Critical, Matching,
                  OneObjectPerKey
    <3>2. Owned' /\ unhandled' = unhandled
      BY <2>2 DEF vars, RefInv, Owned
    <3>3. ASSUME Consistent PROVE TokenKeeps' /\ Adopted'
      BY <2>2, <3>3 DEF vars, Consistent, TokenKeeps, Adopted
    <3>4. ASSUME Consistent, NEW t \in Threads PROVE CallState(th[t])'
      <4>1. CallState(th[t])
        BY <3>4 DEF Consistent
      <4>2. QED BY <2>2, <4>1 DEF vars, CallState, Loading
    <3>5. ASSUME Consistent, NEW s \in Sessions, NEW r \in Roles PROVE Cached(s, r)'
      <4>1. Cached(s, r)
        BY <3>5 DEF Consistent
      <4>2. QED BY <2>2, <4>1 DEF vars, Cached, Loading
    <3>6. ASSUME Consistent, NEW h \in AllHandles PROVE Balance(h)'
      <4>1. Balance(h)
        BY <3>6 DEF Consistent
      <4>2. References(h)' = References(h) /\ Uncounted(h)' = Uncounted(h)
        BY <2>2 DEF vars, References, Uncounted
      <4>3. QED BY <2>2, <4>1, <4>2 DEF vars, Balance
    <3>7. Consistent => Consistent'
      BY <3>3, <3>4, <3>5, <3>6 DEF Consistent
    <3>8. QED BY <3>1, <3>2, <3>7 DEF RefInv
  <2>3. QED BY <2>1, <2>2 DEF Next
<1>2. QED BY InitReferences, <1>1, PTL DEF Spec

\* The count of a key object in active_list is the number of session structures that
\* hold its handle, whichever threads use, drop, find, create or load keys at the same
\* time (KEY_HANDLE_REFHOLD, pk11_active_add, pk11_active_delete).
THEOREM CountsAreExact == Spec => []ActiveCounts
<1>1. RefInv => ActiveCounts
  BY DEF RefInv, KeyInv, TypeOK, Consistent, Balance, ActiveCounts
<1>2. QED BY RefInvariant, <1>1, PTL

\* A thread between pk11_get_*_rsa_key or a cache hit and pk11_return_session has the
\* handle of an object that exists and has the kind and value of its own key.
THEOREM RightKeyUsed == Spec => []UsesTheRightKey
<1>1. RefInv => UsesTheRightKey
  <2> SUFFICES ASSUME RefInv, ~unhandled, NEW t \in Threads, th[t].pc = "use"
               PROVE  RightObject(t)
    BY DEF UsesTheRightKey
  <2>1. Consistent /\ Owned /\ TypeOK /\ CallsOK
    BY DEF RefInv, KeyInv, TypeOK
  <2>2. /\ th[t].s \in Sessions /\ th[t].role \in Roles /\ th[t].val # None
        /\ th[t].s # None
    BY <2>1, CallHasSession, NoneAssumption
  <2>3. CallState(th[t]) /\ Cached(th[t].s, th[t].role)
    BY <2>1, <2>2 DEF Consistent
  <2>4. key[th[t].s][th[t].role] = th[t].h /\ th[t].h # None /\ num[th[t].s] = th[t].val
    BY <2>3 DEF CallState
  <2>5. \A u \in Threads : th[u].s = th[t].s => ~Loading(th[u])
    BY <2>1, <2>2 DEF Owned, Loading
  <2>6. QED BY <2>2, <2>3, <2>4, <2>5 DEF Cached, RightObject
<1>2. QED BY RefInvariant, <1>1, PTL

\* No session object outlives its last reference (pk11_destroy_rsa_object_*, and the
\* rollback of a creation that runs out of memory).
THEOREM NothingLeftBehind == Spec => []NoOrphans
<1>1. RefInv => NoOrphans
  BY DEF RefInv, KeyInv, TypeOK, Consistent, Adopted, NoOrphans
<1>2. QED BY RefInvariant, <1>1, PTL

(***************************************************************************)
(* The refinement                                                          *)
(***************************************************************************)
\* Two session objects of the same kind and value are one.
LEMMA ObjectOfKey ==
    ASSUME TypeOK, TokenKeeps, OneObjectPerKey, NEW g \in Present, NEW h \in Present,
           object[g].class = object[h].class, object[g].val = object[h].val
    PROVE  g = h
<1>1. g \in Handles /\ h \in Handles /\ Handles \subseteq AllHandles
  BY DEF Present, AllHandles
<1>2. object[g] \in Object /\ object[h] \in Object /\ object[g] # None
  BY <1>1 DEF TypeOK, Present
<1>3. object[g].token = object[h].token
  BY <1>1 DEF TokenKeeps, Present
<1>4. object[g] = object[h]
  BY <1>2, <1>3 DEF Object
<1>5. QED BY <1>1, <1>2, <1>4 DEF OneObjectPerKey

\* An object has a value.
LEMMA PresentValue ==
    ASSUME TypeOK, NEW h \in Present
    PROVE  h \in Handles /\ h \in AllHandles /\ object[h] # None
           /\ object[h].val \in Values /\ object[h].val # None
<1>1. h \in Handles /\ h \in AllHandles /\ object[h] # None
  BY DEF Present, AllHandles
<1>2. object[h] \in Object
  BY <1>1 DEF TypeOK
<1>3. QED BY <1>1, <1>2, NoneAssumption DEF Object

\* The abstract state does not change if the keys, objects and counts of session
\* objects do not.
LEMMA SameSessionObjects ==
    ASSUME \A s \in Sessions, r \in Roles :
              key'[s][r] = key[s][r] \/ {key'[s][r], key[s][r]} \cap Handles = {},
           \A h \in Handles : object'[h] = object[h] /\ active'[h] = active[h]
    PROVE  UNCHANGED <<HeldKeys, StoredKeys>>
<1>1. Present' = Present
  BY DEF Present
<1>2. \A h \in Present : object'[h] = object[h] /\ active'[h] = active[h]
  BY DEF Present
<1>3. ASSUME NEW s \in Sessions, NEW r \in Roles PROVE HeldKey(s, r)' = HeldKey(s, r)
  <2>1. key[s][r] \notin Handles => key[s][r] \notin Present
    BY DEF Present
  <2>2. key'[s][r] \notin Handles => key'[s][r] \notin Present
    BY DEF Present
  <2>3. QED BY <1>1, <1>2, <2>1, <2>2 DEF HeldKey
<1>4. HeldKeys' = HeldKeys
  BY <1>3 DEF HeldKeys
<1>5. StoredKeys' = StoredKeys
  BY <1>1, <1>2 DEF StoredKeys
<1>6. QED BY <1>4, <1>5

\* Nor if an object comes or goes that nobody refers to.
LEMMA UnreferencedObject ==
    ASSUME NEW h \in Handles, key' = key, active' = active, active[h] = 0,
           \A s \in Sessions, r \in Roles : key[s][r] # h,
           \A g \in Handles : g # h => object'[g] = object[g]
    PROVE  UNCHANGED <<HeldKeys, StoredKeys>>
<1>1. \A g \in Handles : g # h => (g \in Present' <=> g \in Present) /\ object'[g] = object[g]
  BY DEF Present
<1>2. Present \subseteq Handles /\ Present' \subseteq Handles
  BY DEF Present
<1>3. ASSUME NEW s \in Sessions, NEW r \in Roles PROVE HeldKey(s, r)' = HeldKey(s, r)
  BY <1>1, <1>2 DEF HeldKey
<1>4. HeldKeys' = HeldKeys
  BY <1>3 DEF HeldKeys
<1>5. {x \in Present : active[x] > 0}' = {x \in Present : active[x] > 0}
  BY <1>1, <1>2
<1>6. \A x \in {x \in Present : active[x] > 0} : object'[x] = object[x]
  BY <1>1, <1>2
<1>7. StoredKeys' = StoredKeys
  BY <1>5, <1>6 DEF StoredKeys
<1>8. QED BY <1>4, <1>7

\* A counted reference to a session object is a key the session holds.
LEMMA AddHolds ==
    ASSUME NEW t \in Threads, Handled(t), Add(t)
    PROVE  [Refs!Next]_<<HeldKeys, StoredKeys>>
<1>1. /\ th[t] \in Call /\ CallState(th[t]) /\ TypeOK /\ CallsOK /\ th[t].pc = "add"
  BY OwnCall DEF Add
<1>2. PICK s \in Sessions, r \in Roles, h \in AllHandles, v \in Values :
         s = th[t].s /\ r = th[t].role /\ h = th[t].h /\ v = th[t].val
  BY <1>1, OwnCall DEF CallsOK, CallOK
<1>3. /\ key[s][r] = None /\ object[h] = [class |-> r, val |-> v, token |-> th[t].byref]
  BY <1>1, <1>2 DEF CallState
<1>4. /\ key' = [key EXCEPT ![s][r] = h] /\ object' = object
      /\ active' = [active EXCEPT ![h] = active[h] + 1]
  BY <1>2 DEF Add
<1>5. \A s1 \in Sessions, r1 \in Roles :
         key'[s1][r1] = IF s1 = s /\ r1 = r THEN h ELSE key[s1][r1]
  BY <1>1, <1>4 DEF TypeOK
<1>6. \A g \in AllHandles : active'[g] = IF g = h THEN active[h] + 1 ELSE active[g]
  BY <1>1, <1>4 DEF TypeOK
<1>7. None \notin Handles /\ Handles \subseteq AllHandles
  BY NoneAssumption DEF AllHandles
<1>8. CASE h \notin Handles
  <2>1. \A s1 \in Sessions, r1 \in Roles :
           key'[s1][r1] = key[s1][r1] \/ {key'[s1][r1], key[s1][r1]} \cap Handles = {}
    BY <1>3, <1>5, <1>7, <1>8
  <2>2. \A g \in Handles : object'[g] = object[g] /\ active'[g] = active[g]
    BY <1>4, <1>6, <1>7, <1>8
  <2>3. QED BY <2>1, <2>2, SameSessionObjects
<1>9. CASE h \in Handles
  <2>1. object[h] # None /\ object[h].class = r /\ object[h].val = v
    <3>1. object[h] \in Object
      BY <1>1, <1>2, <1>3 DEF Object, Call
    <3>2. object[h] # None
      BY <3>1, NoneIsNoObject
    <3>3. QED BY <1>3, <3>2
  <2>2. h \in Present /\ Present' = Present /\ None \notin Present
    BY <1>4, <1>7, <1>9, <2>1 DEF Present
  <2>3. HeldKeys[s][r] = None
    BY <1>3, <2>2 DEF HeldKeys, HeldKey
  <2>4. \A s1 \in Sessions, r1 \in Roles :
           HeldKey(s1, r1)' = IF s1 = s /\ r1 = r THEN v ELSE HeldKey(s1, r1)
    BY <1>4, <1>5, <2>1, <2>2 DEF HeldKey
  <2>5. HeldKeys' = [HeldKeys EXCEPT ![s][r] = v]
    BY <2>4 DEF HeldKeys
  <2>6. StoredKeys' = StoredKeys \cup {<<r, v>>}
    <3>1. \A g \in Present : g \in AllHandles /\ active[g] \in Nat
      BY <1>1, <1>7 DEF Present, TypeOK
    <3>2. active[h] \in Nat /\ active'[h] > 0
      BY <1>1, <1>6 DEF TypeOK
    <3>3. {x \in Present : active[x] > 0}' = {x \in Present : active[x] > 0} \cup {h}
      BY <1>6, <2>2, <3>1, <3>2
    <3>4. QED BY <1>4, <2>1, <3>3 DEF StoredKeys
  <2>7. Refs!Hold(s, r, v)
    BY <2>3, <2>5, <2>6 DEF Refs!Hold
  <2>8. QED BY <2>7 DEF Refs!Next
<1>10. QED BY <1>8, <1>9

\* A reference to a session object that is dropped is a key the session no longer
\* holds, and the object is stored as long as another session holds the key.
LEMMA DropDrops ==
    ASSUME NEW t \in Threads, Handled(t), th[t].pc \in {"drop", "drop_other", "load_find"},
           NEW r \in Roles, DestroyRsaObject(th[t].s, r)
    PROVE  [Refs!Next]_<<HeldKeys, StoredKeys>>
<1>1. CASE key[th[t].s][r] = None
  <2>1. key' = key /\ object' = object /\ active' = active
    BY <1>1 DEF DestroyRsaObject
  <2>2. QED BY <2>1, SameSessionObjects
<1>2. CASE key[th[t].s][r] # None
  <2>a. PICK s \in Sessions : s = th[t].s
    BY <1>2, LastReference
  <2>b. PICK h \in AllHandles : h = key[s][r]
    BY <1>2, <2>a, LastReference
  <2>1. /\ key' = [key EXCEPT ![s][r] = None]
        /\ active[h] > 0 /\ active' = [active EXCEPT ![h] = active[h] - 1]
        /\ \/ object' = object
           \/ /\ object' = [object EXCEPT ![h] = None]
              /\ h \in Handles /\ References(h) = {<<s, r>>}
    BY <1>2, <2>a, <2>b, LastReference
  <2>2. TypeOK /\ TokenKeeps /\ OneObjectPerKey
    BY ConsistentParts DEF KeyInv
  <2>3. \A s1 \in Sessions, r1 \in Roles :
           key'[s1][r1] = IF s1 = s /\ r1 = r THEN None ELSE key[s1][r1]
    BY <2>1, <2>2 DEF TypeOK
  <2>4. \A g \in AllHandles : active'[g] = IF g = h THEN active[h] - 1 ELSE active[g]
    BY <2>1, <2>2 DEF TypeOK
  <2>5. None \notin Handles /\ Handles \subseteq AllHandles
    BY NoneAssumption DEF AllHandles
  <2>6. CASE h \notin Handles
    <3>1. \A s1 \in Sessions, r1 \in Roles :
             key'[s1][r1] = key[s1][r1] \/ {key'[s1][r1], key[s1][r1]} \cap Handles = {}
      BY <2>b, <2>3, <2>5, <2>6
    <3>2. \A g \in Handles : object'[g] = object[g] /\ active'[g] = active[g]
      BY <2>1, <2>4, <2>5, <2>6
    <3>3. QED BY <3>1, <3>2, SameSessionObjects
  <2>7. CASE h \in Handles
    <3> DEFINE v == object[h].val
    <3>1. Cached(s, r) /\ h # None
      BY <2>5, <2>7, ConsistentParts
    <3>2. object[h] # None /\ object[h].class = r /\ h \in Present
      BY <2>b, <2>7, <3>1 DEF Cached, Present
    <3>3. \A g \in AllHandles :
             g # h \/ object' = object => object'[g] = object[g]
      BY <2>1, <2>2 DEF TypeOK
    <3>4. \A s1 \in Sessions, r1 \in Roles :
             ~(s1 = s /\ r1 = r) /\ key[s1][r1] = h => object' = object
      <4>1. ASSUME NEW s1 \in Sessions, NEW r1 \in Roles, ~(s1 = s /\ r1 = r), key[s1][r1] = h
            PROVE  <<s1, r1>> \in References(h) /\ <<s1, r1>> # <<s, r>>
        BY <4>1 DEF References
      <4>2. QED BY <2>1, <4>1
    <3>5. HeldKeys[s][r] = v /\ v # None
      BY <2>2, <2>b, <3>2, PresentValue DEF HeldKeys, HeldKey
    <3>6. \A s1 \in Sessions, r1 \in Roles :
             HeldKey(s1, r1)' = IF s1 = s /\ r1 = r THEN None ELSE HeldKey(s1, r1)
      <4> SUFFICES ASSUME NEW s1 \in Sessions, NEW r1 \in Roles
                   PROVE  HeldKey(s1, r1)' = IF s1 = s /\ r1 = r THEN None ELSE HeldKey(s1, r1)
        OBVIOUS
      <4>1. CASE s1 = s /\ r1 = r
        BY <2>3, <2>5, <4>1 DEF HeldKey, Present
      <4>2. CASE ~(s1 = s /\ r1 = r)
        <5>1. key'[s1][r1] = key[s1][r1]
          BY <2>3, <4>2
        <5>2. key[s1][r1] \in Handles => object'[key[s1][r1]] = object[key[s1][r1]]
          BY <2>5, <3>3, <3>4, <4>2
        <5>3. QED BY <4>2, <5>1, <5>2 DEF HeldKey, Present
      <4>3. QED BY <4>1, <4>2
    <3>7. HeldKeys' = [HeldKeys EXCEPT ![s][r] = None]
      BY <3>6 DEF HeldKeys
    <3>8. active[h] \in Nat /\ active[h] = Cardinality(References(h))
      BY <2>2, <2>7, SessionObjectsCounted DEF TypeOK
    <3>9. <<s, r>> \in References(h)
      BY <2>b DEF References
    <3>10. \A s1 \in Sessions : HeldKeys'[s1][r] = HeldKey(s1, r)'
      BY DEF HeldKeys
    <3>11. CASE active[h] = 1
      <4>1. References(h) = {<<s, r>>}
        <5>1. PICK x : References(h) = {x}
          BY <3>8, <3>11, FiniteReferences, FS_Singleton
        <5>2. QED BY <3>9, <5>1
      <4>2. ~Refs!HeldBy(HeldKeys', r, v)
        <5> SUFFICES ASSUME NEW s1 \in Sessions, HeldKeys'[s1][r] = v PROVE FALSE
          BY DEF Refs!HeldBy
        <5>1. s1 # s /\ HeldKey(s1, r) = v
          BY <3>5, <3>6, <3>10
        <5>2. key[s1][r] \in Present /\ object[key[s1][r]].val = v
          BY <3>5, <5>1 DEF HeldKey
        <5>3. object[key[s1][r]].class = r
          <6>1. Cached(s1, r) /\ key[s1][r] # None
            BY <2>5, <5>2, ConsistentParts DEF Present
          <6>2. QED BY <6>1 DEF Cached
        <5>4. key[s1][r] = h
          BY <2>2, <3>2, <5>2, <5>3, ObjectOfKey
        <5>5. <<s1, r>> \in References(h)
          BY <5>4 DEF References
        <5>6. QED BY <4>1, <5>1, <5>5
      <4>3. {x \in Present : active[x] > 0}' = {x \in Present : active[x] > 0} \ {h}
        <5>1. \A x \in Handles : x # h => (x \in Present' <=> x \in Present)
          BY <2>5, <3>3 DEF Present
        <5>2. Present \subseteq Handles /\ Present' \subseteq Handles
          BY DEF Present
        <5>3. QED BY <2>4, <2>5, <3>11, <5>1, <5>2
      <4>4. StoredKeys' = StoredKeys \ {<<r, v>>}
        <5> DEFINE S == {x \in Present : active[x] > 0}
        <5>1. S' = S \ {h} /\ h \in S
          BY <2>1, <3>2, <4>3
        <5>2. \A x \in S \ {h} : /\ object'[x] = object[x]
                                 /\ <<object[x].class, object[x].val>> # <<r, v>>
          <6> SUFFICES ASSUME NEW x \in S \ {h}
                       PROVE  /\ object'[x] = object[x]
                              /\ <<object[x].class, object[x].val>> # <<r, v>>
            OBVIOUS
          <6>1. object'[x] = object[x]
            BY <2>5, <3>3 DEF Present
          <6>2. ~(object[x].class = r /\ object[x].val = v)
            BY <2>2, <3>2, ObjectOfKey
          <6>3. QED BY <6>1, <6>2
        <5>3. StoredKeys = {<<object[x].class, object[x].val>> : x \in S}
          BY DEF StoredKeys
        <5>4. StoredKeys' = {<<object'[x].class, object'[x].val>> : x \in S'}
          BY DEF StoredKeys
        <5>5. <<object[h].class, object[h].val>> = <<r, v>>
          BY <3>2
        <5> HIDE DEF S, v
        <5>6. QED BY <5>1, <5>2, <5>3, <5>4, <5>5
      <4>5. Refs!Drop(s, r)
        BY <3>5, <3>7, <4>2, <4>4 DEF Refs!Drop
      <4>6. QED BY <4>5 DEF Refs!Next
    <3>12. CASE active[h] # 1
      <4>1. References(h) # {<<s, r>>}
        BY <3>8, <3>12, FS_Singleton
      <4>2. object' = object
        BY <2>1, <4>1
      <4>3. PICK x \in References(h) : x # <<s, r>>
        BY <3>9, <4>1
      <4>4. PICK s1 \in Sessions, r1 \in Roles : x = <<s1, r1>> /\ key[s1][r1] = h
        BY <4>3 DEF References
      <4>5. r1 = r
        <5>1. Cached(s1, r1)
          BY ConsistentParts
        <5>2. QED BY <3>1, <3>2, <4>4, <5>1 DEF Cached
      <4>6. HeldKey(s1, r) = v /\ s1 # s
        BY <3>2, <4>3, <4>4, <4>5 DEF HeldKey
      <4>7. Refs!HeldBy(HeldKeys', r, v)
        BY <3>6, <3>10, <4>6 DEF Refs!HeldBy
      <4>8. StoredKeys' = StoredKeys
        <5>1. Present' = Present /\ \A x1 \in Present : x1 \in AllHandles
          BY <2>5, <4>2 DEF Present
        <5>2. {x1 \in Present : active[x1] > 0}' = {x1 \in Present : active[x1] > 0}
          BY <2>1, <2>4, <3>8, <3>12, <5>1
        <5>3. QED BY <4>2, <5>2 DEF StoredKeys
      <4>9. Refs!Drop(s, r)
        BY <3>5, <3>7, <4>7, <4>8 DEF Refs!Drop
      <4>10. QED BY <4>9 DEF Refs!Next
    <3>13. QED BY <3>11, <3>12
  <2>8. QED BY <2>6, <2>7
<1>3. QED BY <1>1, <1>2

\* Every step is a step of KeyReferences or changes nothing there.
LEMMA StepRefines ==
    ASSUME NEW t \in Threads, Handled(t) PROVE [Refs!Next]_<<HeldKeys, StoredKeys>>
<1>1. CASE Add(t)
  BY <1>1, AddHolds
<1>2. CASE DropOwn(t) \/ DropOther(t) \/ LoadDrop(t)
  <2>1. Other(th[t].role) \in Roles /\ "priv" \in Roles
    BY DEF Other, Roles
  <2>2. th[t].pc # "idle"
    BY <1>2 DEF DropOwn, DropOther, LoadDrop
  <2>3. th[t].role \in Roles
    BY <2>2, OwnCall
  <2>4. QED BY <1>2, <2>1, <2>3, DropDrops DEF DropOwn, DropOther, LoadDrop
<1>3. CASE Create(t)
  <2>1. PICK h \in Handles :
           /\ object[h] = None
           /\ object' = [object EXCEPT ![h] = [class |-> th[t].role, val |-> th[t].val,
                                               token |-> FALSE]]
    BY <1>3 DEF Create
  <2>2. \A s \in Sessions, r \in Roles : key[s][r] # h
    <3> SUFFICES ASSUME NEW s \in Sessions, NEW r \in Roles, key[s][r] = h PROVE FALSE
      OBVIOUS
    <3>1. h # None /\ Cached(s, r)
      BY NoneAssumption, ConsistentParts DEF AllHandles
    <3>2. QED BY <2>1, <3>1 DEF Cached
  <2>3. active[h] = 0
    <3>1. References(h) = {}
      BY <2>2 DEF References
    <3>2. QED BY <3>1, SessionObjectsCounted, FS_EmptySet
  <2>4. \A g \in Handles : g # h => object'[g] = object[g]
    BY <2>1, ConsistentParts DEF TypeOK, AllHandles
  <2>5. key' = key /\ active' = active
    BY <1>3 DEF Create, cache
  <2>6. QED BY <2>2, <2>3, <2>4, <2>5, UnreferencedObject
<1>4. CASE AddRollsBack(t)
  <2>1. /\ key' = key /\ active' = active /\ th[t].pc = "add"
        /\ object' = IF th[t].found THEN object ELSE [object EXCEPT ![th[t].h] = None]
    BY <1>4 DEF AddRollsBack
  <2>2. CASE object' = object
    BY <2>1, <2>2, SameSessionObjects
  <2>3. CASE object' # object
    <3>1. CallState(th[t]) /\ TypeOK
      BY OwnCall
    <3>2. PICK h \in Handles :
             /\ h = th[t].h /\ \A s \in Sessions, r \in Roles : key[s][r] # h
      BY <2>1, <2>3, <3>1 DEF CallState
    <3>3. active[h] = 0
      <4>1. References(h) = {}
        BY <3>2 DEF References
      <4>2. QED BY <4>1, SessionObjectsCounted, FS_EmptySet
    <3>4. \A g \in Handles : g # h => object'[g] = object[g]
      BY <2>1, <3>1, <3>2 DEF TypeOK, AllHandles
    <3>5. QED BY <2>1, <3>2, <3>3, <3>4, UnreferencedObject
  <2>4. QED BY <2>2, <2>3
<1>5. CASE LoadSet(t)
  <2>1. CallState(th[t]) /\ TypeOK /\ th[t].s \in Sessions
    BY <1>5, OwnCall DEF LoadSet
  <2>2. key[th[t].s]["priv"] = None /\ th[t].h \notin Handles /\ None \notin Handles
    BY <1>5, <2>1, HandlesDiffer, NoneAssumption DEF LoadSet, CallState, AllHandles
  <2>3. key' = [key EXCEPT ![th[t].s]["priv"] = th[t].h] /\ object' = object /\ active' = active
    BY <1>5 DEF LoadSet
  <2>4. \A s \in Sessions, r \in Roles :
           key'[s][r] = IF s = th[t].s /\ r = "priv" THEN th[t].h ELSE key[s][r]
    BY <2>1, <2>3 DEF TypeOK, Roles
  <2>5. \A s \in Sessions, r \in Roles :
           key'[s][r] = key[s][r] \/ {key'[s][r], key[s][r]} \cap Handles = {}
    BY <2>2, <2>4
  <2>6. QED BY <2>3, <2>5, SameSessionObjects
<1>6. CASE LoadAdd(t) \/ LoadFailsLate(t)
  <2>0. CountLoaded(t)
    BY <1>6 DEF LoadAdd, LoadFailsLate, Handled
  <2>1. CallState(th[t]) /\ TypeOK
    BY OwnCall
  <2>2. th[t].h \notin Handles /\ Handles \subseteq AllHandles
    BY <2>0, <2>1, HandlesDiffer DEF CountLoaded, CallState, AllHandles
  <2>3. key' = key /\ object' = object /\ \A g \in Handles : active'[g] = active[g]
    BY <2>0, <2>1, <2>2 DEF CountLoaded, TypeOK
  <2>4. QED BY <2>3, SameSessionObjects
<1>7. CASE key' = key /\ object' = object /\ active' = active
  BY <1>7, SameSessionObjects
<1>8. QED
  <2>1. Step(t) /\ unhandled' = FALSE
    BY DEF Handled
  <2>2. QED
    BY <1>1, <1>2, <1>3, <1>4, <1>5, <1>6, <1>7, <2>1 DEF Step, Begin, Check, Find, FindFails,
       CreateFails, Return, LoadBegin, LoadFails, LoadRead, cache

\* The handles, counts and find_lock of the key cache implement KeyReferences for every
\* number of threads, sessions and keys: sessions that hold a key share one object,
\* which is there from the first to the last reference.
THEOREM CacheImplementsReferences == Spec => ImplementsReferences
<1>1. Init => Refs!Init
  <2> SUFFICES ASSUME Init PROVE Refs!Init
    OBVIOUS
  <2>1. Present = {}
    BY DEF Init, Present, AllHandles
  <2>2. HeldKeys = [s \in Sessions |-> [r \in Roles |-> None]] /\ StoredKeys = {}
    BY <2>1 DEF HeldKeys, HeldKey, StoredKeys
  <2>3. QED BY <2>2 DEF Refs!Init
<1>2. RefInv /\ RefInv' /\ [Next]_vars => [Refs!Next \/ unhandled']_<<HeldKeys, StoredKeys>>
  <2> SUFFICES ASSUME RefInv, RefInv', [Next]_vars
               PROVE  [Refs!Next \/ unhandled']_<<HeldKeys, StoredKeys>>
    OBVIOUS
  <2>1. ASSUME NEW t \in Threads, Step(t), unhandled' = FALSE
        PROVE  [Refs!Next]_<<HeldKeys, StoredKeys>>
    <3>1. Handled(t)
      BY <2>1, UnhandledStays DEF RefInv, Handled
    <3>2. QED BY <3>1, StepRefines
  <2>2. CASE UNCHANGED vars
    BY <2>2, SameSessionObjects DEF vars
  <2>3. unhandled' \in BOOLEAN
    BY DEF RefInv, KeyInv, TypeOK
  <2>4. QED BY <2>1, <2>2, <2>3 DEF Next
<1>3. QED BY <1>1, <1>2, RefInvariant, PTL DEF Spec, ImplementsReferences

=============================================================================
