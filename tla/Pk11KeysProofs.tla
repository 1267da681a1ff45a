--------------------------- MODULE Pk11KeysProofs ---------------------------
(***************************************************************************)
(* Proofs about Pk11Keys, for every number of threads, sessions, addresses *)
(* and keys: types, and that search and creation under find_lock never     *)
(* make two session objects of one key.                                    *)
(*                                                                         *)
(* OneObjectPerKey is not inductive: Create relies on the search of an     *)
(* earlier step having found nothing, and on no other thread having        *)
(* created an object since.  Critical says both.                           *)
(***************************************************************************)
EXTENDS Pk11Keys, TLAPS

\* What every call carries: a key and an address once it has begun, and a key of the
\* keystore, then its handle, if it is pk11_load_privkey.
CallOK(c) ==
    /\ c \in Call
    /\ (c.pc = "idle") = (c.s = None)
    /\ c.pc # "idle" => c.val \in Values /\ c.struct \in Structs
    /\ c.pc = "load_find" => c.val \in KeyStore
    /\ c.pc \in {"add", "load_set", "load_read", "load_add"} => c.h \in AllHandles

CallsOK == th \in [Threads -> Call] /\ \A t \in Threads : CallOK(th[t])

\* The section that find_lock protects: only its owner is between search and
\* reference, and what its search did not find is still not there.
Critical ==
    \A t \in Threads :
       /\ th[t].pc \in {"create", "add"} => find_lock = t
       /\ th[t].pc = "create" => Matching(t) = {}

KeyInv == TypeOK /\ CallsOK /\ Critical /\ OneObjectPerKey

(***************************************************************************)
(* Types                                                                   *)
(***************************************************************************)
\* Nothing is cached at first, and the token has its persistent keys.
LEMMA InitTypes == Init => TypeOK /\ CallsOK
<1> SUFFICES ASSUME Init PROVE TypeOK /\ CallsOK
  OBVIOUS
<1>1. object \in [AllHandles -> Object \cup {None}]
  <2> SUFFICES ASSUME NEW h \in AllHandles, h \notin Handles
               PROVE  (CHOOSE v \in KeyStore : TokenHandle(v) = h) \in Values
    BY DEF Init, Object, Roles
  <2>1. \E v \in KeyStore : TokenHandle(v) = h
    BY DEF AllHandles
  <2>2. QED BY <2>1, KeyStoreAssumption
<1>2. CallsOK
  BY DEF Init, NoCall, CallsOK, CallOK, Call, Roles
<1>3. QED BY <1>1, <1>2 DEF Init, TypeOK, CallsOK, CallOK, Roles

\* A call that has begun has a session.
LEMMA CallHasSession ==
    ASSUME TypeOK, CallsOK, NEW t \in Threads, th[t].pc # "idle"
    PROVE  /\ th[t].s \in Sessions /\ th[t].role \in Roles /\ th[t].val \in Values
           /\ th[t].struct \in Structs /\ th[t].h \in AllHandles \cup {None}
BY DEF CallsOK, CallOK, Call

\* A step of thread t changes its own call only.
LEMMA CallUpdate ==
    ASSUME CallsOK, NEW t \in Threads, NEW c, CallOK(c), th' = [th EXCEPT ![t] = c]
    PROVE  CallsOK'
<1>1. c \in Call
  BY DEF CallOK
<1>2. QED BY <1>1 DEF CallsOK

\* pk11_get_session gives the operation a session of the pool.
LEMMA BeginTypes == ASSUME TypeOK, CallsOK, NEW t \in Threads, Begin(t) PROVE TypeOK' /\ CallsOK'
<1>1. PICK s \in free, r \in Roles, p \in Structs, v \in Values, byref \in BOOLEAN :
         /\ byref => r = "priv"
         /\ free' = free \ {s}
         /\ th' = [th EXCEPT ![t] = [NoCall EXCEPT !.pc = "check", !.s = s, !.role = r,
                                       !.struct = p, !.val = v, !.byref = byref]]
  BY Zenon DEF Begin
<1>2. s \in Sessions /\ s # None
  BY NoneAssumption DEF TypeOK
<1>3. CallsOK'
  BY ZenonT(60), <1>1, <1>2 DEF CallsOK, CallOK, Call, NoCall
<1>4. QED BY <1>1, <1>3 DEF Begin, TypeOK, cache, CallsOK, CallOK

\* A cache hit uses the cached handle.
LEMMA CheckTypes == ASSUME TypeOK, CallsOK, NEW t \in Threads, Check(t) PROVE TypeOK' /\ CallsOK'
<1>1. th[t].s \in Sessions /\ key[th[t].s][th[t].role] \in AllHandles \cup {None}
  BY DEF Check, TypeOK, CallsOK, CallOK, Call
<1>2. CallsOK'
  BY <1>1 DEF Check, Goto, CallsOK, CallOK, Call
<1>3. QED BY <1>2 DEF Check, TypeOK, cache, CallsOK, CallOK

\* Dropping a cached key changes no call and only ever removes objects.
LEMMA DestroyTypes ==
    ASSUME TypeOK, NEW s \in Sessions, NEW r \in Roles, DestroyRsaObject(s, r)
    PROVE  /\ key' \in [Sessions -> [Roles -> AllHandles \cup {None}]]
           /\ rsa' \in [Sessions -> [Roles -> Structs \cup {None}]]
           /\ num' \in [Sessions -> Values \cup {None}]
           /\ persistent' = persistent
           /\ object' \in [AllHandles -> Object \cup {None}]
           /\ \A h \in AllHandles : object'[h] \in {object[h], None}
           /\ active' \in [AllHandles -> Nat]
           /\ unhandled' \in BOOLEAN
<1>1. CASE key[s][r] = None
  BY <1>1 DEF DestroyRsaObject, TypeOK
<1>2. CASE key[s][r] # None
  <2>1. ForgetKey(s, r) /\ DropReference(s, key[s][r])
    BY <1>2 DEF DestroyRsaObject
  <2>2. /\ key' \in [Sessions -> [Roles -> AllHandles \cup {None}]]
        /\ rsa' \in [Sessions -> [Roles -> Structs \cup {None}]]
        /\ num' \in [Sessions -> Values \cup {None}]
    BY <2>1 DEF ForgetKey, TypeOK
  <2>3. active' \in [AllHandles -> Nat]
    <3>1. key[s][r] \in AllHandles
      BY <1>2 DEF TypeOK
    <3>2. active' = [active EXCEPT ![key[s][r]] = IF @ > 0 THEN @ - 1 ELSE 0]
      BY <2>1 DEF DropReference
    <3>3. (IF active[key[s][r]] > 0 THEN active[key[s][r]] - 1 ELSE 0) \in Nat
      BY <3>1 DEF TypeOK
    <3>4. QED BY <3>2, <3>3 DEF TypeOK
  <2>4. object' = object \/ object' = [object EXCEPT ![key[s][r]] = None]
    BY <2>1 DEF DropReference
  <2>5. unhandled' \in BOOLEAN
    BY <2>1, Zenon DEF DropReference, TypeOK
  <2>6. QED BY <2>2, <2>3, <2>4, <2>5 DEF TypeOK, DestroyRsaObject
<1>3. QED BY <1>1, <1>2

\* pk11_check_new_rsa_key_*, the key of the same role.
LEMMA DropOwnTypes ==
    ASSUME TypeOK, CallsOK, NEW t \in Threads, DropOwn(t) PROVE TypeOK' /\ CallsOK'
<1>1. th[t].s \in Sessions /\ th[t].role \in Roles
  BY CallHasSession DEF DropOwn
<1>2. CallsOK'
  BY DEF DropOwn, Goto, CallsOK, CallOK, Call
<1>3. QED BY <1>1, <1>2, DestroyTypes DEF DropOwn, TypeOK, CallsOK, CallOK

\* pk11_check_new_rsa_key_*, the key of the other role.
LEMMA DropOtherTypes ==
    ASSUME TypeOK, CallsOK, NEW t \in Threads, DropOther(t) PROVE TypeOK' /\ CallsOK'
<1>1. th[t].s \in Sessions /\ Other(th[t].role) \in Roles
  BY CallHasSession DEF DropOther, Other, Roles
<1>2. CallsOK'
  BY DEF DropOther, Goto, CallsOK, CallOK, Call
<1>3. QED BY <1>1, <1>2, DestroyTypes DEF DropOther, TypeOK, CallsOK, CallOK

\* C_FindObjects returns a handle of the token, or none.
LEMMA FindTypes ==
    ASSUME TypeOK, CallsOK, NEW t \in Threads, Find(t) PROVE TypeOK' /\ CallsOK'
<1>1. CallsOK'
  <2>1. CASE \E h \in Matching(t) :
               th' = [th EXCEPT ![t].pc = "add", ![t].h = h, ![t].found = TRUE]
    <3>1. PICK h \in AllHandles :
             th' = [th EXCEPT ![t].pc = "add", ![t].h = h, ![t].found = TRUE]
      BY <2>1 DEF Matching
    <3> DEFINE c == [th[t] EXCEPT !.pc = "add", !.h = h, !.found = TRUE]
    <3>2. th' = [th EXCEPT ![t] = c]
      BY <3>1 DEF CallsOK, Call
    <3>3. CallOK(c)
      BY ZenonT(60) DEF Find, CallsOK, CallOK, Call
    <3>4. QED BY <3>2, <3>3, CallUpdate
  <2>2. CASE Goto(t, "create")
    <3> DEFINE c == [th[t] EXCEPT !.pc = "create"]
    <3>1. th' = [th EXCEPT ![t] = c]
      BY <2>2 DEF Goto
    <3>2. CallOK(c)
      <4>1. th[t] \in Call /\ CallOK(th[t]) /\ th[t].pc = "find"
        BY DEF Find, CallsOK, CallOK
      <4>2. c \in Call
        BY <4>1 DEF Call
      <4>3. QED BY <4>1, <4>2 DEF CallOK, Call
    <3>3. QED BY <3>1, <3>2, CallUpdate
  <2>3. QED BY <2>1, <2>2, Zenon DEF Find
<1>2. QED BY <1>1 DEF Find, TypeOK, cache, CallsOK, CallOK

\* A search that fails, at once or at C_FindObjectsFinal.
LEMMA FindFailsTypes ==
    ASSUME TypeOK, CallsOK, NEW t \in Threads, FindFails(t) PROVE TypeOK' /\ CallsOK'
<1>1. th[t].s \in Sessions /\ th[t].role \in Roles
  BY CallHasSession DEF FindFails
<1>2. CallsOK' /\ key' \in [Sessions -> [Roles -> AllHandles \cup {None}]]
  <2>1. CASE Goto(t, "done") /\ key' = key
    <3> DEFINE c == [th[t] EXCEPT !.pc = "done"]
    <3>1. th' = [th EXCEPT ![t] = c]
      BY <2>1 DEF Goto
    <3>2. CallOK(c)
      BY DEF FindFails, CallsOK, CallOK, Call
    <3>3. CallsOK'
      BY <3>1, <3>2, CallUpdate
    <3>4. QED BY <2>1, <3>3 DEF TypeOK
  <2>2. CASE \E h \in Matching(t) :
               /\ key' = [key EXCEPT ![th[t].s][th[t].role] = h]
               /\ th' = [th EXCEPT ![t].pc = "use", ![t].h = h]
    <3>1. PICK h \in AllHandles :
             /\ key' = [key EXCEPT ![th[t].s][th[t].role] = h]
             /\ th' = [th EXCEPT ![t].pc = "use", ![t].h = h]
      BY <2>2 DEF Matching
    <3> DEFINE c == [th[t] EXCEPT !.pc = "use", !.h = h]
    <3>2. th' = [th EXCEPT ![t] = c]
      BY <3>1 DEF CallsOK, Call
    <3>3. CallOK(c)
      BY ZenonT(60) DEF FindFails, CallsOK, CallOK, Call
    <3>4. key' \in [Sessions -> [Roles -> AllHandles \cup {None}]]
      BY <1>1, <3>1 DEF TypeOK
    <3>5. QED BY <3>2, <3>3, <3>4, CallUpdate
  <2>3. QED BY <2>1, <2>2, Zenon DEF FindFails
<1>4. unhandled' \in BOOLEAN
  BY Zenon DEF FindFails, TypeOK
<1>5. QED BY <1>2, <1>4 DEF FindFails, TypeOK, CallsOK, CallOK

\* C_CreateObject makes an object of the key that was asked for.
LEMMA CreateTypes ==
    ASSUME TypeOK, CallsOK, NEW t \in Threads, Create(t) PROVE TypeOK' /\ CallsOK'
<1>1. th[t].role \in Roles /\ th[t].val \in Values
  BY CallHasSession DEF Create
<1>2. PICK h \in Handles :
         /\ object' = [object EXCEPT ![h] = [class |-> th[t].role, val |-> th[t].val,
                                             token |-> FALSE]]
         /\ th' = [th EXCEPT ![t].pc = "add", ![t].h = h]
  BY DEF Create
<1> DEFINE c == [th[t] EXCEPT !.pc = "add", !.h = h]
<1>3. th' = [th EXCEPT ![t] = c]
  BY <1>2 DEF CallsOK, Call
<1>4. CallOK(c)
  BY ZenonT(60) DEF Create, CallsOK, CallOK, Call, AllHandles
<1>5. CallsOK'
  BY <1>3, <1>4, CallUpdate
<1>6. [class |-> th[t].role, val |-> th[t].val, token |-> FALSE] \in Object
  BY <1>1 DEF Object
<1>7. object' \in [AllHandles -> Object \cup {None}]
  BY <1>2, <1>6 DEF TypeOK
<1>8. QED BY <1>5, <1>7 DEF Create, TypeOK, cache, CallsOK, CallOK

\* A creation that fails leaves the call without a handle.
LEMMA CreateFailsTypes ==
    ASSUME TypeOK, CallsOK, NEW t \in Threads, CreateFails(t) PROVE TypeOK' /\ CallsOK'
<1>1. CallsOK'
  BY DEF CreateFails, Goto, CallsOK, CallOK, Call
<1>2. QED BY <1>1 DEF CreateFails, TypeOK, cache, CallsOK, CallOK

\* KEY_HANDLE_REFHOLD counts a reference to an existing handle.
LEMMA AddTypes == ASSUME TypeOK, CallsOK, NEW t \in Threads, Add(t) PROVE TypeOK' /\ CallsOK'
<1>1. /\ th[t].s \in Sessions /\ th[t].role \in Roles /\ th[t].val \in Values
      /\ th[t].struct \in Structs /\ th[t].h \in AllHandles \cup {None}
  BY CallHasSession DEF Add
<1> DEFINE c == [th[t] EXCEPT !.pc = "use", !.found = FALSE]
<1>2. th' = [th EXCEPT ![t] = c]
  BY DEF Add, CallsOK, Call
<1>3. CallOK(c)
  <2>1. th[t] \in Call /\ CallOK(th[t]) /\ th[t].pc = "add"
    BY DEF Add, CallsOK, CallOK
  <2>2. c \in Call
    BY <2>1 DEF Call
  <2>3. QED BY <2>1, <2>2 DEF CallOK, Call
<1>4. CallsOK'
  BY <1>2, <1>3, CallUpdate
<1>5. key' \in [Sessions -> [Roles -> AllHandles \cup {None}]]
  BY <1>1 DEF Add, TypeOK
<1>6. rsa' \in [Sessions -> [Roles -> Structs \cup {None}]]
  BY <1>1 DEF Add, TypeOK
<1>7. num' \in [Sessions -> Values \cup {None}]
  BY <1>1 DEF Add, TypeOK
<1>8. active' \in [AllHandles -> Nat]
  <2>1. th[t].h \in AllHandles
    BY DEF Add, CallsOK, CallOK
  <2>2. active[th[t].h] + 1 \in Nat
    BY <2>1 DEF TypeOK
  <2>3. QED BY <2>2 DEF Add, TypeOK
<1>9. QED BY <1>4, <1>5, <1>6, <1>7, <1>8 DEF Add, TypeOK, CallsOK, CallOK

\* The rollback forgets the handle.
LEMMA AddRollsBackTypes ==
    ASSUME TypeOK, CallsOK, NEW t \in Threads, AddRollsBack(t) PROVE TypeOK' /\ CallsOK'
<1>1. th[t].s \in Sessions /\ th[t].val \in Values
  BY CallHasSession DEF AddRollsBack
<1> DEFINE c == [th[t] EXCEPT !.pc = "done", !.h = None]
<1>2. th' = [th EXCEPT ![t] = c]
  BY DEF AddRollsBack, CallsOK, Call
<1>3. CallOK(c)
  BY ZenonT(60) DEF AddRollsBack, CallsOK, CallOK, Call
<1>4. CallsOK'
  BY <1>2, <1>3, CallUpdate
<1>5. num' \in [Sessions -> Values \cup {None}]
  BY <1>1 DEF AddRollsBack, TypeOK
<1>6. object' \in [AllHandles -> Object \cup {None}]
  BY DEF AddRollsBack, TypeOK
<1>7. QED BY <1>4, <1>5, <1>6 DEF AddRollsBack, TypeOK, CallsOK, CallOK

\* The session goes back to the pool.
LEMMA ReturnTypes ==
    ASSUME TypeOK, CallsOK, NEW t \in Threads, Return(t) PROVE TypeOK' /\ CallsOK'
<1>1. th[t].s \in Sessions
  BY CallHasSession DEF Return
<1>2. CallsOK'
  BY DEF Return, NoCall, CallsOK, CallOK, Call, Roles
<1>3. QED BY <1>1, <1>2 DEF Return, TypeOK, cache, CallsOK, CallOK

\* pk11_load_privkey takes a session.
LEMMA LoadBeginTypes ==
    ASSUME TypeOK, CallsOK, NEW t \in Threads, LoadBegin(t) PROVE TypeOK' /\ CallsOK'
<1>1. PICK s \in free, v \in KeyStore, p \in Structs :
         /\ free' = free \ {s}
         /\ th' = [th EXCEPT ![t] = [NoCall EXCEPT !.pc = "load_find", !.s = s, !.role = "priv",
                                       !.struct = p, !.val = v, !.byref = TRUE]]
  BY Zenon DEF LoadBegin
<1>2. s \in Sessions /\ s # None /\ v \in Values
  BY NoneAssumption, KeyStoreAssumption DEF TypeOK
<1>3. CallsOK'
  BY ZenonT(60), <1>1, <1>2 DEF CallsOK, CallOK, Call, NoCall, Roles
<1>4. QED BY <1>1, <1>3 DEF LoadBegin, TypeOK, cache, CallsOK, CallOK

\* pk11_load_privkey ends without giving its session back.
LEMMA LoadFailsTypes ==
    ASSUME TypeOK, CallsOK, NEW t \in Threads, LoadFails(t) PROVE TypeOK' /\ CallsOK'
<1>1. CallsOK'
  BY DEF LoadFails, NoCall, CallsOK, CallOK, Call, Roles
<1>2. QED BY <1>1 DEF LoadFails, TypeOK, cache, CallsOK, CallOK

\* The handle of a key of the keystore is a handle of the token.
LEMMA LoadDropTypes ==
    ASSUME TypeOK, CallsOK, NEW t \in Threads, LoadDrop(t) PROVE TypeOK' /\ CallsOK'
<1>1. th[t].s \in Sessions /\ "priv" \in Roles
  BY CallHasSession DEF LoadDrop, Roles
<1>2. TokenHandle(th[t].val) \in AllHandles
  BY DEF LoadDrop, CallsOK, CallOK, AllHandles
<1> DEFINE c == [th[t] EXCEPT !.pc = "load_set", !.h = TokenHandle(th[t].val)]
<1>3. th' = [th EXCEPT ![t] = c]
  BY DEF LoadDrop, CallsOK, Call
<1>4. CallOK(c)
  BY ZenonT(60), <1>2 DEF LoadDrop, CallsOK, CallOK, Call
<1>5. CallsOK'
  BY <1>3, <1>4, CallUpdate
<1>6. QED BY <1>1, <1>5, DestroyTypes DEF LoadDrop, TypeOK, CallsOK, CallOK

\* The session caches the handle and is marked persistent.
LEMMA LoadSetTypes ==
    ASSUME TypeOK, CallsOK, NEW t \in Threads, LoadSet(t) PROVE TypeOK' /\ CallsOK'
<1>1. th[t].s \in Sessions /\ th[t].struct \in Structs /\ th[t].h \in AllHandles \cup {None}
  BY CallHasSession DEF LoadSet
<1>2. CallsOK'
  BY DEF LoadSet, Goto, CallsOK, CallOK, Call
<1>3. /\ key' \in [Sessions -> [Roles -> AllHandles \cup {None}]]
      /\ rsa' \in [Sessions -> [Roles -> Structs \cup {None}]]
      /\ persistent' \in [Sessions -> BOOLEAN]
  BY <1>1 DEF LoadSet, TypeOK, Roles
<1>4. unhandled' \in BOOLEAN
  BY Zenon DEF LoadSet, TypeOK
<1>5. QED BY <1>2, <1>3, <1>4 DEF LoadSet, TypeOK, CallsOK, CallOK

\* pk11_active_add reads the count.
LEMMA LoadReadTypes ==
    ASSUME TypeOK, CallsOK, NEW t \in Threads, LoadRead(t) PROVE TypeOK' /\ CallsOK'
<1> DEFINE c == [th[t] EXCEPT !.pc = "load_add", !.refcnt = active[th[t].h]]
<1>1. active[th[t].h] \in Nat
  BY DEF LoadRead, CallsOK, CallOK, TypeOK
<1>2. th' = [th EXCEPT ![t] = c]
  BY DEF LoadRead, CallsOK, Call
<1>3. CallOK(c)
  BY <1>1 DEF LoadRead, CallsOK, CallOK, Call
<1>4. CallsOK'
  BY <1>2, <1>3, CallUpdate
<1>5. QED BY <1>4 DEF LoadRead, TypeOK, cache, CallsOK, CallOK

\* pk11_active_add writes the count.
LEMMA CountLoadedTypes ==
    ASSUME TypeOK, CallsOK, NEW t \in Threads, CountLoaded(t)
    PROVE  /\ num' \in [Sessions -> Values \cup {None}]
           /\ active' \in [AllHandles -> Nat]
           /\ unhandled' \in BOOLEAN
<1>1. th[t].s \in Sessions /\ th[t].val \in Values
  BY CallHasSession DEF CountLoaded
<1>2. num' \in [Sessions -> Values \cup {None}]
  BY <1>1 DEF CountLoaded, TypeOK
<1>3. th[t].refcnt + 1 \in Nat
  BY DEF CallsOK, Call
<1>4. active' \in [AllHandles -> Nat]
  BY <1>3 DEF CountLoaded, TypeOK
<1>5. unhandled' \in BOOLEAN
  BY Zenon DEF CountLoaded, TypeOK
<1>6. QED BY <1>2, <1>4, <1>5

\* The loaded key is used.
LEMMA LoadAddTypes ==
    ASSUME TypeOK, CallsOK, NEW t \in Threads, LoadAdd(t) PROVE TypeOK' /\ CallsOK'
<1>1. th[t].s \in Sessions /\ th[t].val \in Values
  BY CallHasSession DEF LoadAdd, CountLoaded
<1> DEFINE c == [th[t] EXCEPT !.pc = "use", !.refcnt = 0]
<1>2. th' = [th EXCEPT ![t] = c]
  BY DEF LoadAdd, CallsOK, Call
<1>3. CallOK(c)
  <2>1. th[t] \in Call /\ CallOK(th[t]) /\ th[t].pc = "load_add"
    BY DEF LoadAdd, CountLoaded, CallsOK, CallOK
  <2>2. c \in Call
    BY <2>1 DEF Call
  <2>3. QED BY <2>1, <2>2 DEF CallOK, Call
<1>4. CallsOK'
  BY <1>2, <1>3, CallUpdate
<1>5. QED BY <1>4, CountLoadedTypes DEF LoadAdd, CountLoaded, TypeOK, CallsOK, CallOK

\* pk11_load_privkey fails with the handle in its session.
LEMMA LoadFailsLateTypes ==
    ASSUME TypeOK, CallsOK, NEW t \in Threads, LoadFailsLate(t) PROVE TypeOK' /\ CallsOK'
<1>1. CallsOK'
  BY DEF LoadFailsLate, NoCall, CallsOK, CallOK, Call, Roles
<1>2. CASE CountLoaded(t)
  BY <1>1, <1>2, CountLoadedTypes DEF CountLoaded, TypeOK, CallsOK, CallOK
<1>3. CASE ~CountLoaded(t)
  <2>1. PICK p \in {None, rsa[th[t].s].priv} : rsa' = [rsa EXCEPT ![th[t].s].priv = p]
    BY <1>3 DEF LoadFailsLate
  <2>2. /\ th[t].pc \in {"load_read", "load_add"} /\ unhandled' = TRUE
        /\ UNCHANGED <<free, key, num, persistent, object, active, find_lock>>
    BY <1>3 DEF LoadFailsLate
  <2>3. th[t].s \in Sessions
    BY <2>2, CallHasSession
  <2>4. p \in Structs \cup {None}
    BY <2>1, <2>3 DEF TypeOK, Roles
  <2>5. rsa' \in [Sessions -> [Roles -> Structs \cup {None}]]
    BY <2>1, <2>3, <2>4 DEF TypeOK, Roles
  <2>6. QED BY <1>1, <2>2, <2>5 DEF TypeOK, CallsOK, CallOK
<1>4. QED BY <1>2, <1>3

(***************************************************************************)
(* The critical section                                                    *)
(***************************************************************************)
\* A step that ends outside the section, creates nothing and does not take the lock
\* of another thread preserves it.
LEMMA Quiet ==
    ASSUME KeyInv, NEW t \in Threads,
           \A u \in Threads : u # t => th'[u] = th[u],
           th'[t].pc \notin {"create", "add"},
           find_lock' = find_lock \/ find_lock = t,
           \A h \in AllHandles : object'[h] \in {object[h], None}
    PROVE  Critical' /\ OneObjectPerKey'
<1>1. Critical'
  <2> SUFFICES ASSUME NEW u \in Threads
               PROVE  /\ th'[u].pc \in {"create", "add"} => find_lock' = u
                      /\ th'[u].pc = "create" => Matching(u)' = {}
    BY DEF Critical
  <2>1. CASE u = t
    BY <2>1
  <2>2. CASE u # t
    <3>1. th'[u] = th[u]
      BY <2>2
    <3>2. th'[u].pc \in {"create", "add"} => find_lock' = u
      BY <2>2, <3>1 DEF KeyInv, Critical
    <3>3. ASSUME th'[u].pc = "create" PROVE Matching(u)' = {}
      <4> DEFINE o == [class |-> th[u].role, val |-> th[u].val, token |-> th[u].byref]
      <4>1. o # None
        <5>1. o \in Object
          BY <3>1, <3>3 DEF KeyInv, CallsOK, CallOK, Call, Object
        <5>2. QED BY <5>1, NoneIsNoObject
      <4>2. \A h \in AllHandles : object[h] # o
        BY <3>1, <3>3 DEF KeyInv, Critical, Matching
      <4>3. \A h \in AllHandles : object'[h] # o
        BY <4>1, <4>2
      <4>4. QED BY <3>1, <4>3 DEF Matching
    <3>4. QED BY <3>2, <3>3
  <2>3. QED BY <2>1, <2>2
<1>2. OneObjectPerKey'
  <2>1. Handles \subseteq AllHandles
    BY DEF AllHandles
  <2>2. QED BY <2>1 DEF KeyInv, OneObjectPerKey
<1>3. QED BY <1>1, <1>2

\* Find enters the section; nobody else is in it.
LEMMA FindEnters == ASSUME KeyInv, NEW t \in Threads, Find(t) PROVE Critical' /\ OneObjectPerKey'
<1>1. object' = object /\ find_lock = None /\ find_lock' = t
  BY DEF Find
<1>2. \A u \in Threads : u # None /\ th[u].pc \notin {"create", "add"}
  BY <1>1, NoneAssumption DEF KeyInv, Critical
<1>3. \A u \in Threads : u # t => th'[u] = th[u]
  BY DEF Find, Goto, KeyInv, CallsOK
<1>4. th'[t].pc = "create" => Matching(t)' = {}
  <2>1. CASE \E h \in Matching(t) :
               th' = [th EXCEPT ![t].pc = "add", ![t].h = h, ![t].found = TRUE]
    BY <2>1 DEF KeyInv, CallsOK, Call
  <2>2. CASE Matching(t) = {} /\ Goto(t, "create")
    <3>1. th'[t] = [th[t] EXCEPT !.pc = "create"]
      BY <2>2 DEF Goto, KeyInv, CallsOK
    <3>2. /\ th'[t].role = th[t].role /\ th'[t].val = th[t].val
          /\ th'[t].byref = th[t].byref
      BY <3>1 DEF KeyInv, CallsOK, Call
    <3>3. QED BY <1>1, <2>2, <3>2 DEF Matching
  <2>3. QED BY <2>1, <2>2, Zenon DEF Find
<1>5. Critical'
  BY <1>1, <1>2, <1>3, <1>4 DEF Critical
<1>6. OneObjectPerKey'
  BY <1>1 DEF KeyInv, OneObjectPerKey
<1>7. QED BY <1>5, <1>6

\* Create makes an object that was not there, and its thread is alone in the section.
LEMMA CreateIsNew == ASSUME KeyInv, NEW t \in Threads, Create(t) PROVE Critical' /\ OneObjectPerKey'
<1> DEFINE o == [class |-> th[t].role, val |-> th[t].val, token |-> FALSE]
<1>1. PICK h \in Handles :
         /\ object' = [object EXCEPT ![h] = o]
         /\ th' = [th EXCEPT ![t].pc = "add", ![t].h = h]
  BY DEF Create
<1>2. find_lock = t /\ find_lock' = t /\ Matching(t) = {}
  BY DEF Create, KeyInv, Critical
<1>3. \A u \in Threads : u # t => th'[u] = th[u] /\ th[u].pc \notin {"create", "add"}
  BY <1>1, <1>2 DEF KeyInv, Critical, CallsOK
<1>4. th'[t].pc = "add"
  BY <1>1 DEF KeyInv, CallsOK, Call
<1>5. Critical'
  BY <1>2, <1>3, <1>4 DEF Critical
<1>6. th[t].byref = FALSE
  BY DEF Create, KeyInv, CallsOK, Call
<1>7. \A g \in AllHandles : object[g] # o
  BY <1>2, <1>6 DEF Matching
<1>8. Handles \subseteq AllHandles
  BY DEF AllHandles
<1> HIDE DEF o
<1>9. OneObjectPerKey'
  BY <1>1, <1>7, <1>8 DEF KeyInv, TypeOK, OneObjectPerKey
<1>10. QED BY <1>5, <1>9

\* The steps that take, keep or leave nothing of the section.
LEMMA StepKeepsSection ==
    ASSUME KeyInv, NEW t \in Threads, Step(t) PROVE Critical' /\ OneObjectPerKey'
<1> DEFINE Others == \A u \in Threads : u # t => th'[u] = th[u]
<1>a. th \in [Threads -> Call] /\ TypeOK
  BY DEF KeyInv, CallsOK
<1>b. ASSUME object' = object PROVE \A h \in AllHandles : object'[h] \in {object[h], None}
  BY <1>b
<1>1. CASE Begin(t)
  <2>1. Others /\ th'[t].pc = "check"
    BY <1>1, <1>a DEF Begin, NoCall
  <2>2. QED BY <1>1, <1>b, <2>1, Quiet DEF Begin
<1>2. CASE Check(t)
  <2>1. Others /\ th'[t].pc \in {"use", "find", "drop"}
    BY <1>2, <1>a DEF Check, Goto, Call
  <2>2. QED BY <1>2, <1>b, <2>1, Quiet DEF Check
<1>3. CASE DropOwn(t)
  <2>1. Others /\ th'[t].pc = "drop_other"
    BY <1>3, <1>a DEF DropOwn, Goto, Call
  <2>2. th[t].s \in Sessions /\ th[t].role \in Roles
    BY <1>3, CallHasSession DEF DropOwn, KeyInv
  <2>3. \A h \in AllHandles : object'[h] \in {object[h], None}
    BY <1>3, <1>a, <2>2, DestroyTypes DEF DropOwn
  <2>4. QED BY <1>3, <2>1, <2>3, Quiet DEF DropOwn
<1>4. CASE DropOther(t)
  <2>1. Others /\ th'[t].pc = "find"
    BY <1>4, <1>a DEF DropOther, Goto, Call
  <2>2. th[t].s \in Sessions /\ Other(th[t].role) \in Roles
    BY <1>4, CallHasSession DEF DropOther, KeyInv, Other, Roles
  <2>3. \A h \in AllHandles : object'[h] \in {object[h], None}
    BY <1>4, <1>a, <2>2, DestroyTypes DEF DropOther
  <2>4. QED BY <1>4, <2>1, <2>3, Quiet DEF DropOther
<1>5. CASE Find(t)
  BY <1>5, FindEnters
<1>6. CASE FindFails(t)
  <2>1. Others /\ th'[t].pc \in {"done", "use"}
    BY ZenonT(60), <1>6, <1>a DEF FindFails, Goto, Call
  <2>2. QED BY <1>6, <1>b, <2>1, Quiet DEF FindFails
<1>7. CASE Create(t)
  BY <1>7, CreateIsNew
<1>8. CASE CreateFails(t)
  <2>1. Others /\ th'[t].pc = "done"
    BY <1>8, <1>a DEF CreateFails, Goto, Call
  <2>2. find_lock = t
    BY <1>8 DEF CreateFails, KeyInv, Critical
  <2>3. QED BY <1>8, <1>b, <2>1, <2>2, Quiet DEF CreateFails
<1>9. CASE Add(t)
  <2>1. Others /\ th'[t].pc = "use"
    BY <1>9, <1>a DEF Add, Call
  <2>2. find_lock = t
    BY <1>9 DEF Add, KeyInv, Critical
  <2>3. QED BY <1>9, <1>b, <2>1, <2>2, Quiet DEF Add
<1>10. CASE AddRollsBack(t)
  <2>1. Others /\ th'[t].pc = "done"
    BY <1>10, <1>a DEF AddRollsBack, Call
  <2>2. find_lock = t
    BY <1>10 DEF AddRollsBack, KeyInv, Critical
  <2>3. \A h \in AllHandles : object'[h] \in {object[h], None}
    BY <1>10, <1>a DEF AddRollsBack, TypeOK
  <2>4. QED BY <1>10, <2>1, <2>2, <2>3, Quiet DEF AddRollsBack
<1>11. CASE Return(t)
  <2>1. Others /\ th'[t].pc = "idle"
    BY <1>11, <1>a DEF Return, NoCall
  <2>2. QED BY <1>11, <1>b, <2>1, Quiet DEF Return
<1>12. CASE LoadBegin(t)
  <2>1. Others /\ th'[t].pc = "load_find"
    BY <1>12, <1>a DEF LoadBegin, NoCall
  <2>2. QED BY <1>12, <1>b, <2>1, Quiet DEF LoadBegin
<1>13. CASE LoadFails(t)
  <2>1. Others /\ th'[t].pc = "idle"
    BY <1>13, <1>a DEF LoadFails, NoCall
  <2>2. QED BY <1>13, <1>b, <2>1, Quiet DEF LoadFails
<1>14. CASE LoadDrop(t)
  <2>1. Others /\ th'[t].pc = "load_set"
    BY <1>14, <1>a DEF LoadDrop, Call
  <2>2. th[t].s \in Sessions /\ "priv" \in Roles
    BY <1>14, CallHasSession DEF LoadDrop, KeyInv, Roles
  <2>3. \A h \in AllHandles : object'[h] \in {object[h], None}
    BY <1>14, <1>a, <2>2, DestroyTypes DEF LoadDrop
  <2>4. QED BY <1>14, <2>1, <2>3, Quiet DEF LoadDrop
<1>15. CASE LoadSet(t)
  <2>1. Others /\ th'[t].pc = "load_read"
    BY <1>15, <1>a DEF LoadSet, Goto, Call
  <2>2. QED BY <1>15, <1>b, <2>1, Quiet DEF LoadSet
<1>16. CASE LoadRead(t)
  <2>1. Others /\ th'[t].pc = "load_add"
    BY <1>16, <1>a DEF LoadRead, Call
  <2>2. QED BY <1>16, <1>b, <2>1, Quiet DEF LoadRead
<1>17. CASE LoadAdd(t)
  <2>1. Others /\ th'[t].pc = "use"
    BY <1>17, <1>a DEF LoadAdd, CountLoaded, Call
  <2>2. QED BY <1>17, <1>b, <2>1, Quiet DEF LoadAdd, CountLoaded
<1>18. CASE LoadFailsLate(t)
  <2>1. Others /\ th'[t].pc = "idle"
    BY <1>18, <1>a DEF LoadFailsLate, NoCall
  <2>2. object' = object /\ find_lock' = find_lock
    BY <1>18 DEF LoadFailsLate, CountLoaded
  <2>3. th[t].pc \in {"load_read", "load_add"}
    BY <1>18 DEF LoadFailsLate, CountLoaded
  <2>4. QED BY <1>b, <2>1, <2>2, <2>3, Quiet
<1>19. QED
  BY <1>1, <1>2, <1>3, <1>4, <1>5, <1>6, <1>7, <1>8, <1>9, <1>10, <1>11, <1>12, <1>13,
     <1>14, <1>15, <1>16, <1>17, <1>18 DEF Step

(***************************************************************************)
(* The theorems                                                            *)
(***************************************************************************)
\* Every step of a thread keeps the types.
LEMMA StepTypes == ASSUME TypeOK, CallsOK, NEW t \in Threads, Step(t) PROVE TypeOK' /\ CallsOK'
BY BeginTypes, CheckTypes, DropOwnTypes, DropOtherTypes, FindTypes, FindFailsTypes,
   CreateTypes, CreateFailsTypes, AddTypes, AddRollsBackTypes, ReturnTypes,
   LoadBeginTypes, LoadFailsTypes, LoadDropTypes, LoadSetTypes, LoadReadTypes,
   LoadAddTypes, LoadFailsLateTypes DEF Step

\* KeyInv is inductive.
LEMMA KeyInvariant == Spec => []KeyInv
<1>1. Init => KeyInv
  <2> SUFFICES ASSUME Init PROVE KeyInv
    OBVIOUS
  <2>1. Critical
    BY DEF Init, Critical, NoCall
  <2>2. OneObjectPerKey
    BY DEF Init, OneObjectPerKey, AllHandles
  <2>3. QED BY <2>1, <2>2, InitTypes DEF KeyInv
<1>2. KeyInv /\ [Next]_vars => KeyInv'
  <2> SUFFICES ASSUME KeyInv, [Next]_vars PROVE KeyInv'
    OBVIOUS
  <2>1. ASSUME NEW t \in Threads, Step(t) PROVE KeyInv'
    BY <2>1, StepTypes, StepKeepsSection DEF KeyInv
  <2>2. CASE UNCHANGED vars
    BY <2>2 DEF vars, KeyInv, TypeOK, CallsOK, Critical, Matching, OneObjectPerKey
  <2>3. QED BY <2>1, <2>2 DEF Next
<1>3. QED BY <1>1, <1>2, PTL DEF Spec

\* For every number of threads, sessions and keys the variables of the key cache keep
\* their types: a call that has begun has a session, and every cached handle is one
\* that was created or belongs to the keystore.
THEOREM KeyTypesCorrect == Spec => []TypeOK
<1>1. KeyInv => TypeOK
  BY DEF KeyInv
<1>2. QED BY KeyInvariant, <1>1, PTL

\* However many threads look for a key that is not there, and whichever calls fail, it
\* is created once: no two session objects have the same kind and value
\* (pk11_get_public_rsa_key and pk11_get_private_rsa_key under find_lock).
THEOREM KeyCreatedOnce == Spec => []OneObjectPerKey
<1>1. KeyInv => OneObjectPerKey
  BY DEF KeyInv
<1>2. QED BY KeyInvariant, <1>1, PTL

=============================================================================
