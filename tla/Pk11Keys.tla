------------------------------ MODULE Pk11Keys ------------------------------
(***************************************************************************)
(* RSA key objects of the PKCS#11 engine (openssl-1.0.2/engines/pkcs11/    *)
(* e_pk11_pub.c, and the destroy functions of e_pk11.c): each PK11_SESSION *)
(* caches the object of the key it was last used with, objects are found   *)
(* in the token and shared between sessions, and active_list counts the    *)
(* references so that the last one destroys the object.  DSA and DH have   *)
(* the same structure with lists and locks of their own.                   *)
(*                                                                         *)
(* An operation takes a session from the pool (Pk11Sessions), checks what  *)
(* is cached, drops it on a miss, looks for the object or creates it under *)
(* find_lock, uses it and returns the session.  A step is what one thread  *)
(* does between two points where another can interfere: the session is the *)
(* thread's own, the token, the list and the lock are shared.              *)
(*                                                                         *)
(* An RSA structure is its address and its value, and an address may come  *)
(* back with another value.  The token is external: C_FindObjects returns  *)
(* some object that matches, C_CreateObject a handle that is not in use.   *)
(* Private keys of KeyStore are token objects, used by reference.          *)
(***************************************************************************)
EXTENDS Naturals, FiniteSets

CONSTANTS
    Threads,
    Sessions,       \* PK11_SESSION structures of the OP_RSA pool
    Structs,        \* addresses of RSA structures
    Values,         \* values of RSA keys
    KeyStore,       \* values of which the token has a persistent private key
    Handles,        \* handles of session objects
    TokenHandle(_), \* handle of the persistent object of a value
    None,
    Failing,        \* call sites that may fail
    MaxLost         \* bound on sessions that are never returned

Roles == {"pub", "priv"}
Other(r) == IF r = "pub" THEN "priv" ELSE "pub"
AllHandles == Handles \cup {TokenHandle(v) : v \in KeyStore}

ASSUME KeyStoreAssumption == KeyStore \subseteq Values
ASSUME NoneAssumption == None \notin Threads \cup Sessions \cup Structs \cup Values \cup AllHandles
ASSUME TokenHandleAssumption ==
    /\ \A v \in KeyStore : TokenHandle(v) \notin Handles
    /\ \A v, w \in KeyStore : TokenHandle(v) = TokenHandle(w) => v = w
ASSUME FiniteAssumption == IsFiniteSet(Threads) /\ IsFiniteSet(Sessions)

VARIABLES
    free,           \* sessions in the pool
    key,            \* opdata_rsa_pub_key, opdata_rsa_priv_key
    rsa,            \* opdata_rsa_pub, opdata_rsa_priv: the structure cached for
    num,            \* opdata_rsa_n_num, opdata_rsa_e_num
    persistent,     \* sp->persistent
    object,         \* the token: objects by handle
    active,         \* active_list: reference count by handle, 0 if not listed
    find_lock,      \* owner of find_lock[OP_RSA]
    th,             \* the call each thread is in
    unhandled       \* history: something happened that the code does not cope with

vars == <<free, key, rsa, num, persistent, object, active, find_lock, th, unhandled>>
cache == <<key, rsa, num, persistent>>

Call == [pc : {"idle", "check", "drop", "drop_other", "find", "create", "add", "use",
               "done", "load_find", "load_set", "load_read", "load_add"},
         s : Sessions \cup {None}, role : Roles, struct : Structs \cup {None},
         val : Values \cup {None}, byref : BOOLEAN, h : AllHandles \cup {None},
         found : BOOLEAN, refcnt : Nat]

NoCall == [pc |-> "idle", s |-> None, role |-> "pub", struct |-> None, val |-> None,
           byref |-> FALSE, h |-> None, found |-> FALSE, refcnt |-> 0]

Object == [class : Roles, val : Values, token : BOOLEAN]

ASSUME NoneIsNoObject == None \notin Object

TypeOK ==
    /\ free \subseteq Sessions
    /\ key \in [Sessions -> [Roles -> AllHandles \cup {None}]]
    /\ rsa \in [Sessions -> [Roles -> Structs \cup {None}]]
    /\ num \in [Sessions -> Values \cup {None}]
    /\ persistent \in [Sessions -> BOOLEAN]
    /\ object \in [AllHandles -> Object \cup {None}]
    /\ active \in [AllHandles -> Nat]
    /\ find_lock \in Threads \cup {None}
    /\ th \in [Threads -> Call]
    /\ \A t \in Threads : (th[t].pc = "idle") = (th[t].s = None)
    /\ unhandled \in BOOLEAN

Init ==
    /\ free = Sessions
    /\ key = [s \in Sessions |-> [r \in Roles |-> None]]
    /\ rsa = [s \in Sessions |-> [r \in Roles |-> None]]
    /\ num = [s \in Sessions |-> None]
    /\ persistent = [s \in Sessions |-> FALSE]
    /\ object = [h \in AllHandles |->
                   IF h \in Handles THEN None
                   ELSE [class |-> "priv", val |-> CHOOSE v \in KeyStore : TokenHandle(v) = h,
                         token |-> TRUE]]
    /\ active = [h \in AllHandles |-> 0]
    /\ find_lock = None
    /\ th = [t \in Threads |-> NoCall]
    /\ unhandled = FALSE

Goto(t, pc) == th' = [th EXCEPT ![t].pc = pc]

(***************************************************************************)
(* The operations: pk11_RSA_*_low, RSA_sign, RSA_verify                    *)
(***************************************************************************)
\* The operation begins: pk11_get_session(OP_RSA).  A key by reference has no
\* private components.
Begin(t) ==
    /\ th[t].pc = "idle"
    /\ \E s \in free, r \in Roles, p \in Structs, v \in Values, byref \in BOOLEAN :
          /\ byref => r = "priv"
          /\ free' = free \ {s}
          /\ th' = [th EXCEPT ![t] = [NoCall EXCEPT !.pc = "check", !.s = s, !.role = r,
                                        !.struct = p, !.val = v, !.byref = byref]]
    /\ UNCHANGED <<cache, object, active, find_lock, unhandled>>

\* Mutant: only the address is compared.
CheckNewRsaKey_PointerOnly(t) == rsa[th[t].s][th[t].role] = th[t].struct

\* pk11_check_new_rsa_key_pub and _priv: the same structure with the same value.
CheckNewRsaKey(t) == /\ rsa[th[t].s][th[t].role] = th[t].struct
                     /\ num[th[t].s] = th[t].val

Check(t) ==
    LET h == key[th[t].s][th[t].role] IN
    /\ th[t].pc = "check"
    /\ \/ /\ CheckNewRsaKey(t) /\ h # None
          /\ th' = [th EXCEPT ![t].pc = "use", ![t].h = h]
       \/ CheckNewRsaKey(t) /\ h = None /\ Goto(t, "find")
       \/ ~CheckNewRsaKey(t) /\ Goto(t, "drop")
    /\ UNCHANGED <<free, cache, object, active, find_lock, unhandled>>

\* pk11_destroy_rsa_object_pub and _priv under find_lock: one reference less, and
\* with the last one the object is destroyed, unless the session is marked
\* persistent or it is a token object, which a read-only session cannot destroy.
ForgetKey(s, r) ==
    /\ key' = [key EXCEPT ![s][r] = None]
    /\ rsa' = [rsa EXCEPT ![s][r] = None]
    /\ num' = [num EXCEPT ![s] = None]

\* Mutant: the object is destroyed while other sessions refer to it.
DropReference_Shared(s, h) ==
    /\ active' = [active EXCEPT ![h] = IF @ > 0 THEN @ - 1 ELSE 0]
    /\ object' = IF persistent[s] \/ object[h].token THEN object ELSE [object EXCEPT ![h] = None]
    /\ UNCHANGED unhandled

DropReference(s, h) ==
    /\ active' = [active EXCEPT ![h] = IF @ > 0 THEN @ - 1 ELSE 0]
    /\ IF active[h] = 1 /\ ~persistent[s] /\ ~object[h].token
       THEN \/ object' = [object EXCEPT ![h] = None] /\ UNCHANGED unhandled
            \/ "destroy" \in Failing /\ unhandled' = TRUE /\ UNCHANGED object
       ELSE UNCHANGED <<object, unhandled>>

DestroyRsaObject(s, r) ==
    /\ find_lock = None
    /\ IF key[s][r] = None THEN UNCHANGED <<key, rsa, num, object, active, unhandled>>
       ELSE ForgetKey(s, r) /\ DropReference(s, key[s][r])
    /\ UNCHANGED persistent

DropOwn(t) ==
    /\ th[t].pc = "drop"
    /\ DestroyRsaObject(th[t].s, th[t].role)
    /\ Goto(t, "drop_other")
    /\ UNCHANGED <<free, find_lock>>

DropOther(t) ==
    /\ th[t].pc = "drop_other"
    /\ DestroyRsaObject(th[t].s, Other(th[t].role))
    /\ Goto(t, "find")
    /\ UNCHANGED <<free, find_lock>>

(***************************************************************************)
(* pk11_get_public_rsa_key and pk11_get_private_rsa_key                    *)
(***************************************************************************)
Matching(t) == {h \in AllHandles : object[h] = [class |-> th[t].role, val |-> th[t].val,
                                                token |-> th[t].byref]}

\* Mutant: find_lock is not taken.
Find_Unlocked(t) ==
    /\ th[t].pc = "find"
    /\ find_lock = None
    /\ \/ \E h \in Matching(t) :
             th' = [th EXCEPT ![t].pc = "add", ![t].h = h, ![t].found = TRUE]
       \/ Matching(t) = {} /\ Goto(t, "create")
    /\ UNCHANGED <<free, cache, object, active, find_lock, unhandled>>

\* Lock, then C_FindObjects.
Find(t) ==
    /\ th[t].pc = "find"
    /\ find_lock = None
    /\ find_lock' = t
    /\ \/ \E h \in Matching(t) :
             th' = [th EXCEPT ![t].pc = "add", ![t].h = h, ![t].found = TRUE]
       \/ Matching(t) = {} /\ Goto(t, "create")
    /\ UNCHANGED <<free, cache, object, active, unhandled>>

\* A failed search leaves no key.  If only C_FindObjectsFinal fails the handle is
\* returned, and kept, without a reference.
FindFails(t) ==
    /\ th[t].pc = "find"
    /\ find_lock = None
    /\ \/ /\ "find" \in Failing
          /\ Goto(t, "done")
          /\ UNCHANGED <<key, unhandled>>
       \/ /\ "find_final" \in Failing
          /\ \E h \in Matching(t) :
                /\ key' = [key EXCEPT ![th[t].s][th[t].role] = h]
                /\ th' = [th EXCEPT ![t].pc = "use", ![t].h = h]
          /\ unhandled' = TRUE
    /\ UNCHANGED <<free, rsa, num, persistent, object, active, find_lock>>

Create(t) ==
    /\ th[t].pc = "create"
    /\ ~th[t].byref
    /\ \E h \in {x \in Handles : object[x] = None} :
          /\ object' = [object EXCEPT ![h] = [class |-> th[t].role, val |-> th[t].val,
                                              token |-> FALSE]]
          /\ th' = [th EXCEPT ![t].pc = "add", ![t].h = h]
    /\ UNCHANGED <<free, cache, active, find_lock, unhandled>>

\* The key is not in the keystore, or it cannot be created.
CreateFails(t) ==
    /\ th[t].pc = "create"
    /\ th[t].byref \/ "create" \in Failing \/ \A h \in Handles : object[h] # None
    /\ find_lock' = None
    /\ Goto(t, "done")
    /\ UNCHANGED <<free, cache, object, active, unhandled>>

\* Mutant: an object that was found gets no reference.
Add_FoundNotCounted(t) ==
    LET s == th[t].s
        r == th[t].role IN
    /\ th[t].pc = "add"
    /\ active' = [active EXCEPT ![th[t].h] = IF th[t].found THEN @ ELSE @ + 1]
    /\ key' = [key EXCEPT ![s][r] = th[t].h]
    /\ rsa' = [rsa EXCEPT ![s][r] = th[t].struct]
    /\ num' = [num EXCEPT ![s] = th[t].val]
    /\ find_lock' = None
    /\ Goto(t, "use")
    /\ UNCHANGED <<free, persistent, object, unhandled>>

\* KEY_HANDLE_REFHOLD: the reference is counted before the lock is released.
Add(t) ==
    LET s == th[t].s
        r == th[t].role IN
    /\ th[t].pc = "add"
    /\ active' = [active EXCEPT ![th[t].h] = @ + 1]
    /\ key' = [key EXCEPT ![s][r] = th[t].h]
    /\ rsa' = [rsa EXCEPT ![s][r] = th[t].struct]
    /\ num' = [num EXCEPT ![s] = th[t].val]
    /\ find_lock' = None
    /\ th' = [th EXCEPT ![t].pc = "use", ![t].found = FALSE]
    /\ UNCHANGED <<free, persistent, object, unhandled>>

\* Mutant: the object that was created stays.
AddRollsBack_Leaks(t) ==
    /\ th[t].pc = "add"
    /\ "memory" \in Failing
    /\ find_lock' = None
    /\ th' = [th EXCEPT ![t].pc = "done", ![t].h = None]
    /\ UNCHANGED <<free, cache, object, active, unhandled>>

\* No memory: roll back what this call has created, and only that.
AddRollsBack(t) ==
    /\ th[t].pc = "add"
    /\ "memory" \in Failing
    /\ object' = IF th[t].found THEN object ELSE [object EXCEPT ![th[t].h] = None]
    /\ \E v \in {None, th[t].val} : num' = [num EXCEPT ![th[t].s] = v]
    /\ find_lock' = None
    /\ th' = [th EXCEPT ![t].pc = "done", ![t].h = None]
    /\ UNCHANGED <<free, key, rsa, persistent, active, unhandled>>

\* The cryptographic operation, or not if there is no key, and pk11_return_session.
Return(t) ==
    /\ th[t].pc \in {"use", "done"}
    /\ free' = free \cup {th[t].s}
    /\ th' = [th EXCEPT ![t] = NoCall]
    /\ UNCHANGED <<cache, object, active, find_lock, unhandled>>

(***************************************************************************)
(* pk11_load_privkey with a pkcs11: URI                                    *)
(***************************************************************************)
LoadBegin(t) ==
    /\ th[t].pc = "idle"
    /\ \E s \in free, v \in KeyStore, p \in Structs :
          /\ free' = free \ {s}
          /\ th' = [th EXCEPT ![t] = [NoCall EXCEPT !.pc = "load_find", !.s = s, !.role = "priv",
                                        !.struct = p, !.val = v, !.byref = TRUE]]
    /\ UNCHANGED <<cache, object, active, find_lock, unhandled>>

\* URI, login or search fail: the session is not returned to the pool.
Lost == Sessions \ (free \cup {th[t].s : t \in Threads})

LoadFails(t) ==
    /\ th[t].pc = "load_find"
    /\ "load" \in Failing
    /\ Cardinality(Lost) < MaxLost
    /\ th' = [th EXCEPT ![t] = NoCall]
    /\ UNCHANGED <<free, cache, object, active, find_lock, unhandled>>

\* find_one_object, then the private key that was cached is dropped.
LoadDrop(t) ==
    /\ th[t].pc = "load_find"
    /\ DestroyRsaObject(th[t].s, "priv")
    /\ th' = [th EXCEPT ![t].pc = "load_set", ![t].h = TokenHandle(th[t].val)]
    /\ UNCHANGED <<free, find_lock>>

\* The handle and the structure are set, and the session is marked persistent for
\* good; a public key of another pair may still be cached with it.
LoadSet(t) ==
    LET s == th[t].s IN
    /\ th[t].pc = "load_set"
    /\ key' = [key EXCEPT ![s].priv = th[t].h]
    /\ rsa' = [rsa EXCEPT ![s].priv = th[t].struct]
    /\ persistent' = [persistent EXCEPT ![s] = TRUE]
    /\ unhandled' = (unhandled \/ key[s].pub # None)
    /\ Goto(t, "load_read")
    /\ UNCHANGED <<free, num, object, active, find_lock>>

\* pk11_active_add is called without find_lock: it looks the entry up, and then
\* increments the count or links a new entry.
LoadRead(t) ==
    /\ th[t].pc = "load_read"
    /\ th' = [th EXCEPT ![t].pc = "load_add", ![t].refcnt = active[th[t].h]]
    /\ UNCHANGED <<free, cache, object, active, find_lock, unhandled>>

CountLoaded(t) ==
    /\ th[t].pc = "load_add"
    /\ active' = [active EXCEPT ![th[t].h] = th[t].refcnt + 1]
    /\ unhandled' = (unhandled \/ active[th[t].h] # th[t].refcnt)
    /\ num' = [num EXCEPT ![th[t].s] = th[t].val]
    /\ UNCHANGED <<free, key, rsa, persistent, object, find_lock>>

LoadAdd(t) ==
    /\ CountLoaded(t)
    /\ th' = [th EXCEPT ![t].pc = "use", ![t].refcnt = 0]

\* The handle is in the session, and then RSA_new_method, C_GetAttributeValue or the
\* allocation of an entry fails: the session is lost with a reference that was never
\* counted.  If EVP_PKEY_new or EVP_PKEY_set1_RSA fails it has been counted.
LoadFailsLate(t) ==
    /\ "load_late" \in Failing
    /\ Cardinality(Lost) < MaxLost
    /\ \/ /\ th[t].pc \in {"load_read", "load_add"}
          /\ unhandled' = TRUE
          /\ \E p \in {None, rsa[th[t].s].priv} : rsa' = [rsa EXCEPT ![th[t].s].priv = p]
          /\ UNCHANGED <<free, key, num, persistent, object, active, find_lock>>
       \/ CountLoaded(t)
    /\ th' = [th EXCEPT ![t] = NoCall]

Step(t) ==
    \/ Begin(t) \/ Check(t) \/ DropOwn(t) \/ DropOther(t) \/ Find(t) \/ FindFails(t)
    \/ Create(t) \/ CreateFails(t) \/ Add(t) \/ AddRollsBack(t) \/ Return(t)
    \/ LoadBegin(t) \/ LoadFails(t) \/ LoadDrop(t) \/ LoadSet(t) \/ LoadRead(t) \/ LoadAdd(t)
    \/ LoadFailsLate(t)

Next == \E t \in Threads : Step(t)

Spec == Init /\ [][Next]_vars

(***************************************************************************)
(* Properties                                                              *)
(***************************************************************************)
References(h) == {sr \in Sessions \X Roles : key[sr[1]][sr[2]] = h}

\* References that are set in a session but not yet counted.
Uncounted(h) == {t \in Threads : th[t].pc \in {"load_read", "load_add"} /\ th[t].h = h}

\* active_list counts exactly the references that the session structures hold,
\* whether a thread holds the session or it is in the pool.
ActiveCounts ==
    ~unhandled =>
       \A h \in AllHandles : active[h] + Cardinality(Uncounted(h)) = Cardinality(References(h))

\* The object thread t uses exists, is of the right kind and has its key's value.
RightObject(t) == LET o == object[th[t].h] IN
                  o # None /\ o.class = th[t].role /\ o.val = th[t].val

\* A thread that uses a key uses an object that exists, of the right kind and with
\* the value of its RSA structure, although other threads drop their references and
\* destroy objects, and addresses of RSA structures are used again.
UsesTheRightKey == ~unhandled => \A t \in Threads : th[t].pc = "use" => RightObject(t)

\* Search and creation are one critical section: no key has two session objects.
OneObjectPerKey ==
    \A g, h \in Handles : g # h /\ object[g] # None => object[g] # object[h]

\* No session object is left behind without a reference, except by a session that
\* a key of the keystore was once loaded into (persistent is never reset).
NoOrphans ==
    ~unhandled /\ (\A s \in Sessions : ~persistent[s]) =>
       \A h \in Handles : object[h] # None /\ active[h] = 0 =>
          \E t \in Threads : th[t].pc = "add" /\ th[t].h = h

\* "Provide protection against RSA structure reuse by making the check for cache hit
\* stronger" (e_pk11_pub.c:1945-1946): also in a session that a key of the keystore
\* was loaded into, a cache hit is for the key that was asked for.
CacheHitIsRight == \A t \in Threads : th[t].pc = "use" => RightObject(t)

(***************************************************************************)
(* The cache implements KeyReferences, as long as nothing happens that the *)
(* code does not cope with: keys of session objects, which are stored once *)
(* they are referenced.                                                    *)
(***************************************************************************)
Present == {h \in Handles : object[h] # None}
HeldKey(s, r) == IF key[s][r] \in Present THEN object[key[s][r]].val ELSE None
HeldKeys == [s \in Sessions |-> [r \in Roles |-> HeldKey(s, r)]]
StoredKeys == {<<object[h].class, object[h].val>> : h \in {x \in Present : active[x] > 0}}

Refs == INSTANCE KeyReferences WITH held <- HeldKeys, stored <- StoredKeys

\* Every step of a thread takes or drops at most one reference, and an object is
\* there from the first to the last reference to its key.
ImplementsReferences == Refs!Init /\ [][Refs!Next \/ unhandled']_<<HeldKeys, StoredKeys>>

=============================================================================
