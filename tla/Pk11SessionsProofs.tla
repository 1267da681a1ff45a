------------------------- MODULE Pk11SessionsProofs -------------------------
(***************************************************************************)
(* Proofs about Pk11Sessions, for every set of contexts, keys and          *)
(* structures, every set of failing call sites and every number of forks   *)
(* and restarts.                                                           *)
(***************************************************************************)
EXTENDS Pk11Sessions, TLAPS

(***************************************************************************)
(* The contexts and the calls in progress                                  *)
(***************************************************************************)
\* What a context holds at each point of its control, whatever has failed.
Shape(c) ==
    LET x == ctx[c] IN
    /\ x.pc = "free" => x.sp = None /\ x.local = None /\ x.from = None
    /\ x.pc = "idle" => x.local = None /\ x.from = None /\ c \notin RandUsers
    /\ x.pc = "got" => /\ x.local \in SP /\ x.sp = None
                       /\ c \notin DigestCtx => x.from = None
    /\ x.pc = "set" => /\ c \notin RandUsers
                       /\ c \in CipherCtx => /\ x.local \in SP /\ x.sp \in {None, x.local}
                                             /\ x.from = None
                       /\ c \in DigestCtx => x.local = None /\ x.sp \in SP /\ x.from # None
    /\ x.pc = "ready" => x.local = None /\ x.sp \in SP /\ x.from = None /\ c \notin RandUsers

\* A context that is being copied stays as it is until the copy is made.
Copying(c) ==
    ctx[c].from # None => /\ ctx[ctx[c].from].pc = "ready"
                          /\ ctx[c].n = ctx[ctx[c].from].n

TypeInv == VariableTypes /\ (\A c \in Ctx : Shape(c)) /\ (\A c \in Ctx : Copying(c))

(***************************************************************************)
(* Who holds a session                                                     *)
(***************************************************************************)
\* A structure is in one pair of hands, and allocated as long as it is.
HeldOnce ==
    /\ \A c, d \in Ctx : c # d => Holds(c) \cap Holds(d) = {}
    /\ \A c \in Ctx : Holds(c) \subseteq alive

\* The free lists of an initialised library.
ListsApart ==
    /\ \A t \in OpTypes : freelist[t] \subseteq alive
    /\ \A c \in Ctx, t \in OpTypes : Holds(c) \cap freelist[t] = {}
    /\ \A t, u \in OpTypes : t # u => freelist[t] \cap freelist[u] = {}

Reusable(sp) == sess[sp].pid = pid => sess[sp].open /\ sess[sp].op = None

ListsReusable == \A t \in OpTypes : \A sp \in freelist[t] : Reusable(sp)

\* The sessions of a list are of one process, and if that is not this one then no
\* context will put a session of this one on the list.
ListsOfOne ==
    /\ \A t \in OpTypes : \A sp, sq \in freelist[t] : sess[sp].pid = sess[sq].pid
    /\ \A c \in Ctx : \A sp \in freelist[OpType(c)], sq \in Holds(c) :
          sess[sq].pid = pid => sess[sp].pid = pid

(***************************************************************************)
(* What is in a session                                                    *)
(***************************************************************************)
\* No structure is of a process yet to come, and a key object is of the cached value.
Sound(sp) == sess[sp].pid <= pid /\ sess[sp].cipher_key \in {None, sess[sp].key}

\* The session of context c, at each point of its control.
CtxState(c) ==
    LET x == ctx[c] IN
    /\ \A sp \in Holds(c) : sess[sp].pid = pid => sess[sp].open
    /\ x.pc = "got" => Reusable(x.local)
    /\ c \in DigestCtx => x.key = None /\ x.encrypt = FALSE
    /\ c \in CipherCtx /\ x.pc \in {"got", "set"} => x.n = 0
    /\ c \in DigestCtx /\ x.pc = "got" /\ x.from = None => x.n = 0
    /\ c \in CipherCtx /\ x.pc = "set" =>
          Reusable(x.local) /\ (sess[x.local].pid = pid => sess[x.local].cipher_key = x.key)
    /\ c \in DigestCtx /\ x.pc = "set" /\ sess[x.sp].pid = pid =>
          sess[x.sp].op = [by |-> c, key |-> None, encrypt |-> FALSE, n |-> 0]
    /\ c \in CipherCtx /\ x.pc = "idle" /\ x.sp # None => sess[x.sp].pid # pid
    /\ OwnOperation(c)

\* Under these the properties hold.
Held == HeldOnce /\ (\A sp \in SP : Sound(sp)) /\ (\A c \in Ctx : CtxState(c))
Pooled == ListsApart /\ ListsReusable /\ ListsOfOne

SessionInv ==
    /\ TypeInv
    /\ ~unhandled /\ ~pk11_library_initialized => NoReference
    /\ ~unhandled => Held
    /\ Sane => Pooled

(***************************************************************************)
(* Contexts and sessions as records                                        *)
(***************************************************************************)
\* The constants that stand for no context, key or structure.
LEMMA NoneDiffers == None \notin SP /\ None \notin Keys /\ None \notin Ctx
BY NoneIsNew

\* A context is of one kind, and the kind says which pool it uses.
LEMMA Kinds ==
    /\ \A c \in CipherCtx : c \in Ctx /\ c \notin DigestCtx /\ c \notin RandUsers
                            /\ OpType(c) = "OP_CIPHER"
    /\ \A c \in DigestCtx : c \in Ctx /\ c \notin CipherCtx /\ c \notin RandUsers
                            /\ OpType(c) = "OP_DIGEST"
    /\ \A c \in RandUsers : c \in Ctx /\ c \notin CipherCtx /\ c \notin DigestCtx
                            /\ OpType(c) = "OP_RAND"
    /\ \A c \in Ctx : OpType(c) \in OpTypes
BY ContextsDiffer DEF Ctx, OpType, OpTypes

\* A new context is well-formed.
LEMMA BlankIsContext ==
    /\ BlankContext \in Context
    /\ BlankContext.pc = "free" /\ BlankContext.sp = None /\ BlankContext.local = None
    /\ BlankContext.from = None /\ BlankContext.key = None
    /\ BlankContext.encrypt = FALSE /\ BlankContext.n = 0
BY DEF BlankContext, Context, Blocks

\* A context without an operation is well-formed.
LEMMA IdleIsContext ==
    ASSUME NEW sp \in SP \cup {None}
    PROVE  /\ Idle(sp) \in Context
           /\ Idle(sp).pc = "idle" /\ Idle(sp).sp = sp /\ Idle(sp).local = None
           /\ Idle(sp).from = None /\ Idle(sp).key = None
           /\ Idle(sp).encrypt = FALSE /\ Idle(sp).n = 0
BY BlankIsContext DEF BlankContext, Idle, Context

\* A digest context whose init has got a session.
LEMMA DigestGot ==
    ASSUME NEW sp \in SP, NEW x, x = [BlankContext EXCEPT !.pc = "got", !.local = sp]
    PROVE  /\ x \in Context
           /\ x.pc = "got" /\ x.sp = None /\ x.local = sp /\ x.from = None
           /\ x.key = None /\ x.encrypt = FALSE /\ x.n = 0
BY BlankIsContext DEF BlankContext, Context

\* A session with another operation is well-formed.
LEMMA WithOperation ==
    ASSUME NEW s \in Session, NEW o \in Operation \cup {None}, NEW z,
           z = [s EXCEPT !.op = o]
    PROVE  /\ z \in Session
           /\ z.op = o
           /\ z.pid = s.pid /\ z.open = s.open /\ z.cipher_key = s.cipher_key
           /\ z.key = s.key /\ z.encrypt = s.encrypt
BY DEF Session

\* A session that is set up by this process.
LEMMA SetUpIsSession ==
    ASSUME NEW s \in Session, pid \in 1 .. MaxForks + 1
    PROVE  /\ SetUpSession(s) \in Session
           /\ SetUpSession(s).pid = pid /\ SetUpSession(s).open = TRUE
           /\ SetUpSession(s).cipher_key = None /\ SetUpSession(s).key = s.key
           /\ SetUpSession(s).op = None
<1>1. pid \in 0 .. MaxForks + 1
  BY BoundsAreNaturals
<1> QED
  BY <1>1 DEF SetUpSession, Session

\* Freed memory.
LEMMA BlankIsSession ==
    /\ BlankSession \in Session
    /\ BlankSession.pid = 0 /\ BlankSession.cipher_key = None /\ BlankSession.op = None
<1>1. 0 \in 0 .. MaxForks + 1
  BY BoundsAreNaturals
<1> QED
  BY <1>1 DEF BlankSession, Session

(***************************************************************************)
(* Types                                                                   *)
(***************************************************************************)
\* A step of context c changes no other context, and c is not being copied.
Mine(c) == /\ ctx' \in [Ctx -> Context]
           /\ \A d \in Ctx \ {c} : ctx'[d] = ctx[d]
           /\ \A d \in Ctx : ctx[d].from # c

\* The record of context c after a call that asked for a session and was given sp.
GotContext(c, sp) ==
    LET x == ctx'[c] IN
    /\ x.sp = None /\ x.local = sp
    /\ IF sp = None THEN x.pc \in {"free", "idle"} ELSE x.pc = "got"
    /\ c \in CipherCtx => x.n = 0
    /\ c \in DigestCtx => x.key = None /\ x.encrypt = FALSE /\ (x.from = None => x.n = 0)

GotSession(c) == \E sp \in SP \cup {None} : pk11_get_session(OpType(c), sp) /\ GotContext(c, sp)

\* A context that is being copied is not called, whatever kind it has.
LEMMA NotCopied ==
    ASSUME TypeInv, NEW c \in Ctx, NEW P, Calls(c, P)
    PROVE  \A d \in Ctx : ctx[d].from # c
<1> SUFFICES ASSUME NEW d \in Ctx, ctx[d].from = c PROVE FALSE
  OBVIOUS
<1>1. ctx[d] \in Context
  BY DEF TypeInv, VariableTypes
<1>2. d \in DigestCtx
  BY <1>1, Kinds, NoneDiffers DEF TypeInv, Shape, Context, Ctx
<1> QED
  BY <1>2 DEF Calls

\* Neither is one that is inside a call.
LEMMA BusyNotCopied ==
    ASSUME TypeInv, NEW c \in Ctx, ctx[c].pc # "ready"
    PROVE  \A d \in Ctx : ctx[d].from # c
BY NoneDiffers DEF TypeInv, Copying

\* A step of one context keeps the shape of all.
LEMMA OthersKeepShape ==
    ASSUME TypeInv, NEW c \in Ctx, Mine(c), Shape(c)', Copying(c)'
    PROVE  (\A d \in Ctx : Shape(d))' /\ (\A d \in Ctx : Copying(d))'
<1> SUFFICES ASSUME NEW d \in Ctx PROVE Shape(d)' /\ Copying(d)'
  OBVIOUS
<1>1. CASE d = c
  BY <1>1
<1>2. CASE d # c
  <2>1. ctx'[d] = ctx[d]
    BY <1>2 DEF Mine
  <2>2. Shape(d)'
    BY <2>1 DEF TypeInv, Shape
  <2>3. ASSUME ctx[d].from # None PROVE ctx[d].from \in Ctx \ {c}
    <3>1. ctx[d] \in Context
      BY DEF TypeInv, VariableTypes
    <3> QED
      BY <2>3, <3>1, Kinds DEF Mine, Context
  <2>4. ASSUME ctx[d].from # None PROVE ctx'[ctx[d].from] = ctx[ctx[d].from]
    BY <2>3, <2>4 DEF Mine
  <2> QED
    BY <2>1, <2>2, <2>4 DEF TypeInv, Copying
<1> QED
  BY <1>1, <1>2

\* The session or failure that pk11_get_session gives leaves the pool well-formed.
LEMMA GetTypes ==
    ASSUME VariableTypes, NEW t \in OpTypes, NEW sp \in SP \cup {None}, pk11_get_session(t, sp)
    PROVE  /\ last_pid' \in 0 .. MaxForks + 1
           /\ freelist' \in [OpTypes -> SUBSET SP]
           /\ alive' \subseteq SP
           /\ sess' \in [SP -> Session]
           /\ unhandled' \in BOOLEAN
           /\ pk11_pid' \in 0 .. MaxForks + 1
           /\ pk11_library_initialized' \in BOOLEAN
<1>1. pid \in 0 .. MaxForks + 1 /\ pid \in 1 .. MaxForks + 1
  BY BoundsAreNaturals DEF VariableTypes
<1>2. \A s \in SP : Content(t, s) \in Session
  BY BlankIsSession DEF Content, VariableTypes
<1>3. \A s \in SP : SetUpSession(Content(t, s)) \in Session
  BY <1>1, <1>2, SetUpIsSession
<1>4. SetUpSession(BlankSession) \in Session
  BY <1>1, BlankIsSession, SetUpIsSession
<1>5. Freed(freelist[t]) \in [SP -> Session]
  BY BlankIsSession DEF Freed, VariableTypes
<1>6. ASSUME GetFromList(t, sp), sp \in SP
      PROVE  /\ last_pid' = pid /\ alive' = alive /\ sess' = sess /\ unhandled' = unhandled
             /\ freelist' \in [OpTypes -> SUBSET SP] /\ UNCHANGED library
  BY <1>6 DEF GetFromList, VariableTypes
<1>7. ASSUME GetNew(t, sp) \/ GetReinitialized(t, sp), sp \in SP
      PROVE  /\ last_pid' = pid /\ alive' \subseteq SP /\ sess' \in [SP -> Session]
             /\ unhandled' = unhandled /\ freelist' \in [OpTypes -> SUBSET SP]
             /\ pk11_pid' \in {pid, pk11_pid}
             /\ pk11_library_initialized' \in {TRUE, pk11_library_initialized}
  <2>1. /\ last_pid' = pid /\ alive' = alive \cup {sp}
        /\ sess' = [sess EXCEPT ![sp] = SetUpSession(BlankSession)]
        /\ unhandled' = unhandled
        /\ freelist' = freelist \/ freelist' = [u \in OpTypes |-> {}]
    BY <1>7 DEF GetNew, GetReinitialized, InitLibrary
  <2>2. /\ pk11_pid' \in {pid, pk11_pid}
        /\ pk11_library_initialized' \in {TRUE, pk11_library_initialized}
    BY <1>7 DEF GetNew, GetReinitialized, InitLibrary, library
  <2> QED
    BY <2>1, <2>2, <1>4, <1>7 DEF VariableTypes
<1>8. ASSUME GetForked(t, sp), sp \in SP
      PROVE  /\ last_pid' = pid /\ alive' \subseteq SP /\ sess' \in [SP -> Session]
             /\ unhandled' = unhandled /\ freelist' \in [OpTypes -> SUBSET SP]
             /\ UNCHANGED library
  <2>1. last_pid' = pid /\ alive' \subseteq SP /\ unhandled' = unhandled
        /\ freelist' \in [OpTypes -> SUBSET SP] /\ UNCHANGED library
    BY <1>8 DEF GetForked, VariableTypes
  <2>2. sess' = [Freed(freelist[t]) EXCEPT ![sp] = SetUpSession(Content(t, sp))]
    BY <1>8 DEF GetForked
  <2>3. sess' \in [SP -> Session]
    BY <1>8, <2>2, <1>3, <1>5
  <2> QED
    BY <2>1, <2>3
<1>9. ASSUME GetForkedNoSlot(t, sp), sp \in SP
      PROVE  /\ last_pid' = pid /\ alive' \subseteq SP /\ sess' \in [SP -> Session]
             /\ unhandled' = TRUE /\ freelist' = freelist /\ UNCHANGED library
  BY <1>9, <1>2 DEF GetForkedNoSlot, VariableTypes, Unhandled
<1>10. ASSUME GetFails(t)
       PROVE  /\ last_pid' \in {pid, last_pid} /\ alive' \subseteq SP
              /\ sess' \in [SP -> Session]
              /\ unhandled' \in {unhandled, TRUE} /\ freelist' \in [OpTypes -> SUBSET SP]
              /\ pk11_pid' \in {pid, pk11_pid}
              /\ pk11_library_initialized' \in {TRUE, FALSE, pk11_library_initialized}
  <2>1. CASE GetNewFails(t)
    BY <2>1 DEF GetNewFails, InitLibrary, InitLibraryFailsLate, library, VariableTypes, Unhandled
  <2>2. CASE GetForkedFails(t) /\ UNCHANGED library
    BY <2>2, <1>3 DEF GetForkedFails, library, VariableTypes, Unhandled
  <2> QED
    BY <1>10, <2>1, <2>2 DEF GetFails
<1> USE DEF VariableTypes, library
<1>11. CASE sp = None /\ GetFails(t)
  BY <1>1, <1>10, <1>11
<1>12. CASE sp \in SP /\ GetFromList(t, sp)
  BY <1>1, <1>6, <1>12
<1>13. CASE sp \in SP /\ (GetNew(t, sp) \/ GetReinitialized(t, sp))
  BY <1>1, <1>7, <1>13
<1>14. CASE sp \in SP /\ GetForked(t, sp)
  BY <1>1, <1>8, <1>14
<1>15. CASE sp \in SP /\ GetForkedNoSlot(t, sp)
  BY <1>1, <1>9, <1>15
<1> QED
  BY <1>11, <1>12, <1>13, <1>14, <1>15 DEF pk11_get_session

\* A step that replaces the record of one context.
LEMMA ReplaceContext ==
    ASSUME TypeInv, NEW c \in Ctx, NEW x \in Context, ctx' = [ctx EXCEPT ![c] = x],
           \A d \in Ctx : ctx[d].from # c
    PROVE  Mine(c) /\ ctx'[c] = x
BY DEF Mine, TypeInv, VariableTypes

\* Giving a session back leaves well-formed lists.
LEMMA ReturnTypes ==
    ASSUME VariableTypes, NEW sp \in SP, NEW t \in OpTypes
    PROVE  Returned(sp, t) \in [OpTypes -> SUBSET SP]
BY DEF VariableTypes, Returned

\* What the preparation of a session for a cipher may do to it.
LEMMA PreparedIsSession ==
    ASSUME NEW s \in Session, NEW c, ctx[c] \in Context, NEW sp, NEW r,
           r \in PreparedSession(c, sp, s)
    PROVE  /\ r.s \in Session
           /\ r.s.pid = s.pid /\ r.s.op \in {s.op, None}
           /\ r.result => r.s.cipher_key # None
           /\ \/ r.s.cipher_key = s.cipher_key /\ r.s.key = s.key
              \/ s.cipher_key = None /\ r.s.cipher_key = ctx[c].key /\ r.s.key = ctx[c].key
<1> DEFINE withKey == IF s.cipher_key = None THEN GetCipherKey(s, ctx[c].key) ELSE {s}
           other == s.encrypt # ctx[c].encrypt /\ s.encrypt # None
           final(s1) == IF other THEN CipherFinalOf(sp, s1) ELSE {[result |-> TRUE, s |-> s1]}
           KeyOf(z) == \/ z.cipher_key = s.cipher_key /\ z.key = s.key
                       \/ /\ s.cipher_key = None /\ z.cipher_key = ctx[c].key
                          /\ z.key = ctx[c].key
<1>1. PICK s1 \in withKey : \E q \in final(s1) :
                r = [result |-> q.result /\ q.s.cipher_key # None, s |-> q.s]
  BY DEF PreparedSession
<1>2. PICK q \in final(s1) : r = [result |-> q.result /\ q.s.cipher_key # None, s |-> q.s]
  BY <1>1
<1>3. ctx[c].key \in Keys \cup {None}
  BY DEF Context
<1>4. s1 \in Session /\ s1.pid = s.pid /\ s1.op = s.op /\ KeyOf(s1)
  <2>1. CASE s1 = s
    BY <2>1
  <2>2. CASE s.cipher_key = None /\ s1 = [s EXCEPT !.cipher_key = ctx[c].key, !.key = ctx[c].key]
    BY <2>2, <1>3 DEF Session
  <2> QED
    BY <2>1, <2>2, <1>1 DEF GetCipherKey
<1>5. q.s \in {s1, [s1 EXCEPT !.op = None], [s1 EXCEPT !.open = FALSE, !.op = None]}
  BY <1>2 DEF CipherFinalOf, CipherFinal
<1>6. /\ q.s \in Session /\ q.s.pid = s1.pid /\ q.s.op \in {s1.op, None}
      /\ q.s.cipher_key = s1.cipher_key /\ q.s.key = s1.key
  BY <1>4, <1>5 DEF Session
<1>7. r.s = q.s /\ r.result = (q.result /\ q.s.cipher_key # None)
  BY <1>2
<1> QED
  BY <1>4, <1>6, <1>7

\* The beginning of a cipher, up to pk11_get_session.
LEMMA CipherInitGetTypes ==
    ASSUME TypeInv, NEW c \in CipherCtx, CipherInitGet(c)
    PROVE  VariableTypes' /\ Mine(c) /\ Shape(c)' /\ Copying(c)' /\ GotSession(c)
<1>1. PICK key \in Keys, encrypt \in BOOLEAN, sp \in SP \cup {None} :
         /\ pk11_get_session("OP_CIPHER", sp)
         /\ ctx' = [ctx EXCEPT ![c] =
                       IF sp = None THEN Idle(None)
                       ELSE [BlankContext EXCEPT !.pc = "got", !.local = sp, !.key = key,
                                                 !.encrypt = encrypt]]
  BY DEF CipherInitGet
<1>2. \A d \in Ctx : ctx[d].from # c
  BY NotCopied, Kinds DEF CipherInitGet
<1>3. PICK x : x = IF sp = None THEN Idle(None)
                   ELSE [BlankContext EXCEPT !.pc = "got", !.local = sp, !.key = key,
                                             !.encrypt = encrypt]
  OBVIOUS
<1>4. /\ x \in Context /\ x.pc \in {"idle", "got"} /\ x.sp = None /\ x.from = None
      /\ x.n = 0 /\ x.local = sp
      /\ x.pc = IF sp = None THEN "idle" ELSE "got"
  <2>1. CASE sp = None
    BY <2>1, <1>3, IdleIsContext
  <2>2. CASE sp # None
    <3>1. x = [BlankContext EXCEPT !.pc = "got", !.local = sp, !.key = key,
                                   !.encrypt = encrypt]
      BY <2>2, <1>3
    <3>2. sp \in SP
      BY <2>2
    <3>3. /\ x \in Context
          /\ x.pc = "got" /\ x.sp = None /\ x.local = sp /\ x.from = None /\ x.n = 0
      BY <3>1, <3>2, BlankIsContext DEF BlankContext, Context
    <3> QED
      BY <2>2, <3>2, <3>3
  <2> QED
    BY <2>1, <2>2
<1>5. Mine(c) /\ ctx'[c] = x
  BY ZenonT(60), <1>1, <1>2, <1>3, <1>4, ReplaceContext, Kinds
<1>6. Shape(c)' /\ Copying(c)'
  BY <1>4, <1>5, Kinds, NoneDiffers DEF Shape, Copying
<1>7. /\ last_pid' \in 0 .. MaxForks + 1 /\ freelist' \in [OpTypes -> SUBSET SP]
      /\ alive' \subseteq SP /\ sess' \in [SP -> Session] /\ unhandled' \in BOOLEAN
      /\ pk11_pid' \in 0 .. MaxForks + 1 /\ pk11_library_initialized' \in BOOLEAN
  BY <1>1, GetTypes DEF TypeInv, OpTypes
<1>8. UNCHANGED <<users, pid, restarts>>
  BY DEF CipherInitGet
<1>9. GotSession(c)
  <2>1. OpType(c) = "OP_CIPHER" /\ c \in CipherCtx
    BY Kinds
  <2>2. GotContext(c, sp)
    BY <1>4, <1>5, <2>1, Kinds DEF GotContext
  <2> QED
    BY <1>1, <2>1, <2>2 DEF GotSession
<1> QED
  BY <1>5, <1>6, <1>7, <1>8, <1>9 DEF TypeInv, VariableTypes, Mine, process

\* A digest is begun.
LEMMA DigestInitGetTypes ==
    ASSUME TypeInv, NEW c \in DigestCtx, DigestInitGet(c)
    PROVE  VariableTypes' /\ Mine(c) /\ Shape(c)' /\ Copying(c)' /\ GotSession(c)
<1>1. PICK sp \in SP \cup {None} :
         /\ pk11_get_session("OP_DIGEST", sp)
         /\ ctx' = [ctx EXCEPT ![c] =
                       IF sp = None THEN Idle(None)
                       ELSE [BlankContext EXCEPT !.pc = "got", !.local = sp]]
  BY DEF DigestInitGet
<1>2. \A d \in Ctx : ctx[d].from # c
  BY NotCopied, Kinds DEF DigestInitGet
<1>3. PICK x : x = IF sp = None THEN Idle(None)
                   ELSE [BlankContext EXCEPT !.pc = "got", !.local = sp]
  OBVIOUS
<1>4. /\ x \in Context /\ x.pc \in {"idle", "got"} /\ x.sp = None /\ x.from = None
      /\ x.n = 0 /\ x.key = None /\ x.encrypt = FALSE /\ x.local = sp
      /\ x.pc = IF sp = None THEN "idle" ELSE "got"
  <2>1. CASE sp = None
    BY <2>1, <1>3, IdleIsContext
  <2>2. CASE sp # None
    BY ZenonT(60), <2>2, <1>3, DigestGot
  <2> QED
    BY <2>1, <2>2
<1>5. Mine(c) /\ ctx'[c] = x
  <2>1. ctx' = [ctx EXCEPT ![c] = x]
    BY <1>1, <1>3
  <2> QED
    BY <1>2, <1>4, <2>1, ReplaceContext, Kinds
<1>6. Shape(c)' /\ Copying(c)'
  BY <1>4, <1>5, Kinds, NoneDiffers DEF Shape, Copying
<1>7. /\ last_pid' \in 0 .. MaxForks + 1 /\ freelist' \in [OpTypes -> SUBSET SP]
      /\ alive' \subseteq SP /\ sess' \in [SP -> Session] /\ unhandled' \in BOOLEAN
      /\ pk11_pid' \in 0 .. MaxForks + 1 /\ pk11_library_initialized' \in BOOLEAN
  BY <1>1, GetTypes DEF TypeInv, OpTypes
<1>8. UNCHANGED <<users, pid, restarts>>
  BY DEF DigestInitGet
<1>9. GotSession(c)
  <2>1. OpType(c) = "OP_DIGEST" /\ c \in DigestCtx
    BY Kinds
  <2>2. GotContext(c, sp)
    BY <1>4, <1>5, <2>1, Kinds DEF GotContext
  <2> QED
    BY <1>1, <2>1, <2>2 DEF GotSession
<1> QED
  BY <1>5, <1>6, <1>7, <1>8, <1>9 DEF TypeInv, VariableTypes, Mine, process

\* A digest is copied: the original is ready, and stays so.
LEMMA DigestCopyGetTypes ==
    ASSUME TypeInv, NEW c \in DigestCtx, NEW d \in DigestCtx \ {c}, DigestCopyGet(c, d)
    PROVE  /\ VariableTypes' /\ Mine(c) /\ Shape(c)' /\ Copying(c)'
           /\ \/ GotSession(c)
              \/ ctx'[c] = Idle(None) /\ UNCHANGED <<process, pool, sess, unhandled>>
<1>1. \A e \in Ctx : ctx[e].from # c
  BY NotCopied, Kinds DEF DigestCopyGet
<1>2. UNCHANGED <<users, pid, restarts>>
  BY DEF DigestCopyGet
<1>3. ctx[d] \in Context
  BY Kinds DEF TypeInv, VariableTypes
<1>4. CASE ctx[d].sp = None
  <2>1. ctx' = [ctx EXCEPT ![c] = Idle(None)] /\ UNCHANGED <<process, pool, sess, unhandled>>
    BY <1>4 DEF DigestCopyGet, process, library
  <2>2. Mine(c) /\ ctx'[c] = Idle(None)
    BY <1>1, <2>1, IdleIsContext, ReplaceContext, Kinds
  <2>3. Shape(c)' /\ Copying(c)'
    BY <2>2, IdleIsContext, Kinds DEF Shape, Copying
  <2> QED
    BY <1>2, <2>1, <2>2, <2>3 DEF TypeInv, VariableTypes, Mine, process, pool
<1>5. CASE ctx[d].sp # None
  <2>1. PICK sp \in SP \cup {None} :
          /\ pk11_get_session("OP_DIGEST", sp)
          /\ ctx' = [ctx EXCEPT ![c] = IF sp = None THEN Idle(None)
                                       ELSE [CopiedContext(d) EXCEPT !.local = sp]]
    BY <1>5 DEF DigestCopyGet
  <2>2. PICK x : x = IF sp = None THEN Idle(None)
                     ELSE [CopiedContext(d) EXCEPT !.local = sp]
    OBVIOUS
  <2>3. /\ x \in Context /\ x.sp = None
        /\ \/ sp = None /\ x.pc = "idle" /\ x.local = None /\ x.from = None /\ x.n = 0
           \/ /\ sp # None /\ x.pc = "got" /\ x.local = sp /\ x.from = d
              /\ x.n = ctx[d].n
        /\ x.key = None /\ x.encrypt = FALSE
    <3>1. CASE sp = None
      BY <3>1, <2>2, IdleIsContext
    <3>2. CASE sp # None
      <4>1. x = [CopiedContext(d) EXCEPT !.local = sp]
        BY <3>2, <2>2
      <4>2. sp \in SP /\ d \in DigestCtx
        BY <3>2
      <4>3. /\ x \in Context
            /\ x.pc = "got" /\ x.sp = None /\ x.local = sp /\ x.from = d /\ x.n = ctx[d].n
            /\ x.key = None /\ x.encrypt = FALSE
        <5>1. ctx[d].n \in 0 .. Blocks - 1
          BY <1>3 DEF Context
        <5> QED
          BY <4>1, <4>2, <5>1, BlankIsContext DEF BlankContext, Context, CopiedContext
      <4> QED
        BY <3>2, <4>2, <4>3
    <3> QED
      BY <3>1, <3>2
  <2>4. Mine(c) /\ ctx'[c] = x
    <3>1. ctx' = [ctx EXCEPT ![c] = x]
      BY <2>1, <2>2
    <3> QED
      BY <1>1, <2>3, <3>1, ReplaceContext, Kinds
  <2>5. ctx[d].pc = "ready" /\ ctx'[d] = ctx[d]
    BY <1>5, <2>4, Kinds DEF DigestCopyGet, Calls, Mine
  <2>6. Shape(c)' /\ Copying(c)'
    BY <2>3, <2>4, <2>5, Kinds, NoneDiffers DEF Shape, Copying
  <2>7. /\ last_pid' \in 0 .. MaxForks + 1 /\ freelist' \in [OpTypes -> SUBSET SP]
        /\ alive' \subseteq SP /\ sess' \in [SP -> Session] /\ unhandled' \in BOOLEAN
        /\ pk11_pid' \in 0 .. MaxForks + 1 /\ pk11_library_initialized' \in BOOLEAN
    BY <2>1, GetTypes DEF TypeInv, OpTypes
  <2>8. GotSession(c)
    <3>1. OpType(c) = "OP_DIGEST" /\ c \notin CipherCtx /\ d # None
      BY Kinds, NoneDiffers
    <3>2. GotContext(c, sp)
      BY <2>3, <2>4, <3>1 DEF GotContext
    <3> QED
      BY <2>1, <3>1, <3>2 DEF GotSession
  <2> QED
    BY <1>2, <2>4, <2>6, <2>7, <2>8 DEF TypeInv, VariableTypes, Mine, process
<1> QED
  BY <1>4, <1>5

\* Random bytes are asked for.
LEMMA RandGetTypes ==
    ASSUME TypeInv, NEW c \in RandUsers, RandGet(c)
    PROVE  VariableTypes' /\ Mine(c) /\ Shape(c)' /\ Copying(c)' /\ GotSession(c)
<1>1. PICK sp \in SP \cup {None} :
         /\ pk11_get_session("OP_RAND", sp)
         /\ ctx' = [ctx EXCEPT ![c].pc = IF sp = None THEN "free" ELSE "got",
                               ![c].local = sp]
  BY DEF RandGet
<1>2. \A d \in Ctx : ctx[d].from # c
  BY NotCopied, Kinds DEF RandGet
<1>3. PICK x : x = [ctx[c] EXCEPT !.pc = IF sp = None THEN "free" ELSE "got", !.local = sp]
  OBVIOUS
<1>4. c \in Ctx /\ ctx[c] \in Context /\ ctx[c].pc = "free" /\ Shape(c)
  BY Kinds DEF TypeInv, VariableTypes, RandGet, Calls
<1>5. /\ x \in Context /\ x.sp = None /\ x.from = None /\ x.local = sp
      /\ x.pc = IF sp = None THEN "free" ELSE "got"
  BY <1>3, <1>4 DEF Context, Shape
<1>6. ctx' = [ctx EXCEPT ![c] = x]
  BY <1>1, <1>3, <1>4
<1>7. Mine(c) /\ ctx'[c] = x
  BY <1>2, <1>4, <1>5, <1>6, ReplaceContext
<1>8. Shape(c)' /\ Copying(c)'
  BY <1>5, <1>7, Kinds, NoneDiffers DEF Shape, Copying
<1>9. /\ last_pid' \in 0 .. MaxForks + 1 /\ freelist' \in [OpTypes -> SUBSET SP]
      /\ alive' \subseteq SP /\ sess' \in [SP -> Session] /\ unhandled' \in BOOLEAN
      /\ pk11_pid' \in 0 .. MaxForks + 1 /\ pk11_library_initialized' \in BOOLEAN
  BY <1>1, GetTypes DEF TypeInv, OpTypes
<1>10. UNCHANGED <<users, pid, restarts>>
  BY DEF RandGet
<1>11. GotSession(c)
  <2>1. OpType(c) = "OP_RAND" /\ c \notin CipherCtx /\ c \notin DigestCtx
    BY Kinds
  <2>2. GotContext(c, sp)
    BY <1>5, <1>7, <2>1 DEF GotContext
  <2> QED
    BY <1>1, <2>1, <2>2 DEF GotSession
<1> QED
  BY <1>11, <1>7, <1>8, <1>9, <1>10 DEF TypeInv, VariableTypes, Mine, process

\* A step that changes the operation of one session.
LEMMA SetOperation ==
    ASSUME VariableTypes, NEW sp \in SP, NEW o \in Operation \cup {None},
           sess' = [sess EXCEPT ![sp].op = o]
    PROVE  /\ sess' \in [SP -> Session]
           /\ \A q \in SP \ {sp} : sess'[q] = sess[q]
           /\ sess'[sp].op = o
           /\ sess'[sp].pid = sess[sp].pid /\ sess'[sp].open = sess[sp].open
           /\ sess'[sp].cipher_key = sess[sp].cipher_key /\ sess'[sp].key = sess[sp].key
BY DEF VariableTypes, Session

\* The same when the operation ends if the handle can be used.
LEMMA EndOperation ==
    ASSUME VariableTypes, NEW sp \in SP,
           sess' = [sess EXCEPT ![sp].op = IF Usable(sp) THEN None ELSE @]
    PROVE  /\ sess' \in [SP -> Session]
           /\ \A q \in SP \ {sp} : sess'[q] = sess[q]
           /\ sess'[sp].op = IF Usable(sp) THEN None ELSE sess[sp].op
           /\ sess'[sp].pid = sess[sp].pid /\ sess'[sp].open = sess[sp].open
           /\ sess'[sp].cipher_key = sess[sp].cipher_key /\ sess'[sp].key = sess[sp].key
<1>1. PICK o : o = IF Usable(sp) THEN None ELSE sess[sp].op
  OBVIOUS
<1>2. o \in Operation \cup {None}
  BY <1>1 DEF VariableTypes, Session
<1>3. sess' = [sess EXCEPT ![sp].op = o]
  BY <1>1
<1> QED
  BY ZenonT(60), <1>1, <1>2, <1>3, SetOperation

\* A context that is idle or free after a step keeps its shape.
LEMMA RestingShape ==
    ASSUME TypeInv, NEW c \in Ctx \ RandUsers, NEW sp \in SP \cup {None},
           \/ ctx' = [ctx EXCEPT ![c] = Idle(sp)]
           \/ ctx' = [ctx EXCEPT ![c] = BlankContext],
           \A d \in Ctx : ctx[d].from # c
    PROVE  Mine(c) /\ Shape(c)' /\ Copying(c)'
<1>1. CASE ctx' = [ctx EXCEPT ![c] = Idle(sp)]
  <2>1. Mine(c) /\ ctx'[c] = Idle(sp)
    BY <1>1, IdleIsContext, ReplaceContext
  <2> QED
    BY <2>1, IdleIsContext DEF Shape, Copying
<1>2. CASE ctx' = [ctx EXCEPT ![c] = BlankContext]
  <2>1. Mine(c) /\ ctx'[c] = BlankContext
    BY <1>2, BlankIsContext, ReplaceContext
  <2> QED
    BY <2>1, BlankIsContext DEF Shape, Copying
<1> QED
  BY <1>1, <1>2

\* The session of a cipher is prepared.
LEMMA CipherInitPrepareTypes ==
    ASSUME TypeInv, NEW c \in CipherCtx, CipherInitPrepare(c)
    PROVE  VariableTypes' /\ Mine(c) /\ Shape(c)' /\ Copying(c)'
<1> DEFINE sp == ctx[c].local
           cipher_key == CheckNewCipherKey(sess[sp], ctx[c].key)
<1>1. /\ c \in Ctx \ RandUsers /\ ctx[c] \in Context /\ ctx[c].pc = "got" /\ sp \in SP
      /\ ctx[c].sp = None /\ ctx[c].from = None /\ VariableTypes
  BY Kinds DEF TypeInv, VariableTypes, CipherInitPrepare, Calls, Shape
<1>2. \A d \in Ctx : ctx[d].from # c
  BY <1>1, BusyNotCopied
<1>3. PICK s \in {[sess[sp] EXCEPT !.cipher_key = cipher_key], sess[sp]} :
          /\ \/ /\ CipherCached(c, s)
                /\ sess' = [sess EXCEPT ![sp] = s]
                /\ ctx' = [ctx EXCEPT ![c].sp = sp, ![c].pc = "set"]
                /\ UNCHANGED freelist
             \/ /\ ~CipherCached(c, s)
                /\ \E r \in PreparedSession(c, sp, s) :
                      /\ sess' = [sess EXCEPT ![sp] = r.s]
                      /\ IF r.result
                         THEN /\ ctx' = [ctx EXCEPT ![c].pc = "set"]
                              /\ UNCHANGED freelist
                         ELSE /\ ctx' = [ctx EXCEPT ![c] = Idle(None)]
                              /\ freelist' = Returned(sp, "OP_CIPHER")
          /\ unhandled' = (unhandled \/ s.cipher_key # cipher_key
                                     \/ (sess[sp].open /\ ~sess'[sp].open))
  BY DEF CipherInitPrepare
<1>4. s \in Session
  <2>1. sess[sp] \in Session
    BY <1>1 DEF VariableTypes
  <2>2. cipher_key \in Keys \cup {None}
    BY <2>1 DEF CheckNewCipherKey, Session
  <2> QED
    BY <2>1, <2>2 DEF Session
<1>5. UNCHANGED <<process, last_pid, alive>>
  BY DEF CipherInitPrepare
<1>6. unhandled' \in BOOLEAN
  BY <1>3
<1>7. ASSUME NEW x \in Context, ctx' = [ctx EXCEPT ![c] = x],
             x.pc = "set", x.sp \in {None, sp}, x.local = sp, x.from = None
      PROVE  Mine(c) /\ Shape(c)' /\ Copying(c)'
  <2>1. Mine(c) /\ ctx'[c] = x
    BY <1>1, <1>2, <1>7, ReplaceContext
  <2> QED
    BY <1>1, <1>7, <2>1, Kinds DEF Shape, Copying
<1>8. CASE /\ sess' = [sess EXCEPT ![sp] = s]
           /\ ctx' = [ctx EXCEPT ![c].sp = sp, ![c].pc = "set"]
           /\ UNCHANGED freelist
  <2>1. PICK x : x = [ctx[c] EXCEPT !.sp = sp, !.pc = "set"]
    OBVIOUS
  <2>2. x \in Context /\ x.pc = "set" /\ x.sp = sp /\ x.local = sp /\ x.from = None
    BY <1>1, <2>1 DEF Context
  <2>3. ctx' = [ctx EXCEPT ![c] = x]
    BY <1>1, <1>8, <2>1
  <2>4. Mine(c) /\ Shape(c)' /\ Copying(c)'
    BY <1>7, <2>2, <2>3
  <2>5. sess' \in [SP -> Session]
    BY <1>1, <1>4, <1>8 DEF VariableTypes
  <2> QED
    BY <1>1, <1>5, <1>6, <1>8, <2>4, <2>5 DEF VariableTypes, process, Mine
<1>9. ASSUME NEW r \in PreparedSession(c, sp, s),
             /\ sess' = [sess EXCEPT ![sp] = r.s]
             /\ IF r.result
                THEN /\ ctx' = [ctx EXCEPT ![c].pc = "set"]
                     /\ UNCHANGED freelist
                ELSE /\ ctx' = [ctx EXCEPT ![c] = Idle(None)]
                     /\ freelist' = Returned(sp, "OP_CIPHER")
      PROVE  VariableTypes' /\ Mine(c) /\ Shape(c)' /\ Copying(c)'
  <2>1. r.s \in Session
    BY <1>1, <1>4, PreparedIsSession
  <2>2. sess' \in [SP -> Session]
    BY <1>1, <1>9, <2>1 DEF VariableTypes
  <2>3. freelist' \in [OpTypes -> SUBSET SP]
    <3>1. "OP_CIPHER" \in OpTypes
      BY DEF OpTypes
    <3>2. Returned(sp, "OP_CIPHER") \in [OpTypes -> SUBSET SP]
      BY <1>1, <3>1, ReturnTypes
    <3> QED
      BY <1>1, <1>9, <3>2 DEF VariableTypes
  <2>4. Mine(c) /\ Shape(c)' /\ Copying(c)'
    <3>1. CASE ctx' = [ctx EXCEPT ![c].pc = "set"]
      <4>1. PICK x : x = [ctx[c] EXCEPT !.pc = "set"]
        OBVIOUS
      <4>2. x \in Context /\ x.pc = "set" /\ x.sp = None /\ x.local = sp /\ x.from = None
        BY <1>1, <4>1 DEF Context
      <4>3. ctx' = [ctx EXCEPT ![c] = x]
        BY <1>1, <3>1, <4>1
      <4> QED
        BY <1>7, <4>2, <4>3
    <3>2. CASE ctx' = [ctx EXCEPT ![c] = Idle(None)]
      BY <1>1, <1>2, <3>2, RestingShape
    <3> QED
      BY <1>9, <3>1, <3>2
  <2> QED
    BY <1>1, <1>5, <1>6, <2>2, <2>3, <2>4 DEF VariableTypes, process, Mine
<1> QED
  BY <1>3, <1>8, <1>9

\* An encryption or decryption begins.
LEMMA InitSymmetricTypes ==
    ASSUME TypeInv, NEW c \in CipherCtx, InitSymmetric(c)
    PROVE  /\ VariableTypes' /\ Mine(c) /\ Shape(c)' /\ Copying(c)'
           /\ ctx'[c] = [ctx[c] EXCEPT !.pc = "ready", !.sp = ctx[c].local, !.local = None]
<1> DEFINE sp == ctx[c].local
<1>1. /\ c \in Ctx \ RandUsers /\ ctx[c] \in Context /\ ctx[c].pc = "set" /\ sp \in SP
      /\ ctx[c].from = None /\ VariableTypes
  BY Kinds DEF TypeInv, VariableTypes, InitSymmetric, Calls, Shape
<1>2. \A d \in Ctx : ctx[d].from # c
  BY <1>1, BusyNotCopied
<1>3. PICK x : x = [ctx[c] EXCEPT !.pc = "ready", !.sp = sp, !.local = None]
  OBVIOUS
<1>4. x \in Context /\ x.pc = "ready" /\ x.sp = sp /\ x.local = None /\ x.from = None
  BY <1>1, <1>3 DEF Context
<1>5. ctx' = [ctx EXCEPT ![c] = x]
  BY <1>1, <1>3 DEF InitSymmetric
<1>6. Mine(c) /\ ctx'[c] = x
  BY <1>1, <1>2, <1>4, <1>5, ReplaceContext
<1>7. Shape(c)' /\ Copying(c)'
  BY <1>1, <1>4, <1>6 DEF Shape, Copying
<1>8. sess' \in [SP -> Session]
  <2>1. sess[sp] \in Session
    BY <1>1 DEF VariableTypes
  <2>2. ctx[c].encrypt \in BOOLEAN /\ sess[sp].cipher_key \in Keys \cup {None}
    BY <1>1, <2>1 DEF Context, Session
  <2>3. PICK o : o = [by |-> c, key |-> sess[sp].cipher_key, encrypt |-> ctx[c].encrypt, n |-> 0]
    OBVIOUS
  <2>4. o \in Operation
    BY <1>1, <2>2, <2>3 DEF Operation, Blocks
  <2>5. PICK s : s = [sess[sp] EXCEPT !.encrypt = ctx[c].encrypt, !.op = o]
    OBVIOUS
  <2>6. s \in Session
    BY <2>1, <2>2, <2>4, <2>5 DEF Session
  <2>7. sess' = [sess EXCEPT ![sp] = s]
    BY <1>1, <2>3, <2>5 DEF InitSymmetric, BeginOperation, VariableTypes
  <2> QED
    BY <1>1, <2>6, <2>7 DEF VariableTypes
<1>9. UNCHANGED <<process, pool, unhandled>>
  BY DEF InitSymmetric
<1> QED
  BY <1>1, <1>3, <1>6, <1>7, <1>8, <1>9 DEF VariableTypes, process, pool, Mine

\* It fails.
LEMMA InitSymmetricFailsTypes ==
    ASSUME TypeInv, NEW c \in CipherCtx, InitSymmetricFails(c)
    PROVE  VariableTypes' /\ Mine(c) /\ Shape(c)' /\ Copying(c)'
<1> DEFINE sp == ctx[c].local
<1>1. /\ c \in Ctx \ RandUsers /\ ctx[c] \in Context /\ ctx[c].pc = "set" /\ sp \in SP
      /\ ctx[c].sp \in SP \cup {None} /\ VariableTypes
  BY Kinds DEF TypeInv, VariableTypes, InitSymmetricFails, Calls, Shape
<1>2. \A d \in Ctx : ctx[d].from # c
  BY <1>1, BusyNotCopied
<1>3. /\ freelist' = Returned(sp, "OP_CIPHER")
      /\ ctx' = [ctx EXCEPT ![c] = Idle(ctx[c].sp)]
      /\ UNCHANGED <<process, last_pid, alive, sess>>
      /\ unhandled' \in {unhandled, TRUE}
  BY DEF InitSymmetricFails, Unhandled
<1>4. Mine(c) /\ Shape(c)' /\ Copying(c)'
  BY <1>1, <1>2, <1>3, RestingShape
<1>5. freelist' \in [OpTypes -> SUBSET SP]
  <2>1. "OP_CIPHER" \in OpTypes
    BY DEF OpTypes
  <2> QED
    BY <1>1, <1>3, <2>1, ReturnTypes
<1> QED
  BY <1>1, <1>3, <1>4, <1>5 DEF VariableTypes, process, Mine

\* One more block: the session and the context count it alike.
LEMMA AdvanceTypes ==
    ASSUME TypeInv, NEW c \in Ctx, ctx[c].pc = "ready", sess[ctx[c].sp].op # None,
           \A d \in Ctx : ctx[d].from # c, Advance(c), NEW sp, sp = ctx[c].sp
    PROVE  /\ sess' \in [SP -> Session]
           /\ \A q \in SP \ {sp} : sess'[q] = sess[q]
           /\ sess'[sp] = [sess[sp] EXCEPT !.op = [sess[sp].op EXCEPT !.n = (@ + 1) % Blocks]]
           /\ ctx'[c] = [ctx[c] EXCEPT !.n = (@ + 1) % Blocks]
           /\ Mine(c) /\ Shape(c)' /\ Copying(c)'
<1>1. /\ ctx[c] \in Context /\ VariableTypes /\ sp \in SP /\ ctx[c].local = None
      /\ ctx[c].from = None /\ c \notin RandUsers
  BY DEF TypeInv, VariableTypes, Shape
<1>2. PICK o : o = [sess[sp].op EXCEPT !.n = (@ + 1) % Blocks]
  OBVIOUS
<1>3. o \in Operation
  <2>1. sess[sp].op \in Operation
    BY <1>1 DEF VariableTypes, Session
  <2>2. sess[sp].op.n \in 0 .. 1
    BY <2>1 DEF Operation, Blocks
  <2>3. (sess[sp].op.n + 1) % 2 \in 0 .. 1
    BY <2>2
  <2>4. PICK n \in 0 .. 1 : n = (sess[sp].op.n + 1) % 2
    BY <2>3
  <2>5. o = [sess[sp].op EXCEPT !.n = n]
    BY <1>2, <2>4 DEF Blocks
  <2> QED
    BY <2>1, <2>5 DEF Operation, Blocks
<1>4. sess' = [sess EXCEPT ![sp].op = o]
  BY <1>1, <1>2 DEF Advance
<1>5. /\ sess' \in [SP -> Session]
      /\ \A q \in SP \ {sp} : sess'[q] = sess[q]
  BY <1>1, <1>3, <1>4, SetOperation
<1>6. sess'[sp] = [sess[sp] EXCEPT !.op = o]
  BY <1>1, <1>4 DEF VariableTypes
<1>7. PICK x : x = [ctx[c] EXCEPT !.n = (@ + 1) % Blocks]
  OBVIOUS
<1>8. /\ x \in Context /\ x.pc = "ready" /\ x.sp = sp /\ x.local = None /\ x.from = None
  <2>1. ctx[c].n \in 0 .. 1
    BY <1>1 DEF Context, Blocks
  <2>2. (ctx[c].n + 1) % 2 \in 0 .. 1
    BY <2>1
  <2> QED
    BY <1>1, <1>7, <2>2 DEF Context, Blocks
<1>9. ctx' = [ctx EXCEPT ![c] = x]
  BY <1>1, <1>7 DEF Advance
<1>10. Mine(c) /\ ctx'[c] = x
  BY <1>8, <1>9, ReplaceContext
<1>11. Shape(c)' /\ Copying(c)'
  BY <1>1, <1>8, <1>10 DEF Shape, Copying
<1> QED
  BY <1>2, <1>5, <1>6, <1>7, <1>10, <1>11

\* A block of data goes through a cipher.
LEMMA DoCipherTypes ==
    ASSUME TypeInv, NEW c \in CipherCtx, DoCipher(c)
    PROVE  VariableTypes' /\ Mine(c) /\ Shape(c)' /\ Copying(c)'
<1>1. /\ c \in Ctx /\ ctx[c] \in Context /\ ctx[c].pc = "ready" /\ ctx[c].sp \in SP /\ VariableTypes
      /\ Shape(c) /\ Copying(c)
  BY Kinds DEF TypeInv, VariableTypes, DoCipher, Calls, Shape
<1>2. \A d \in Ctx : ctx[d].from # c
  BY <1>1, NotCopied DEF DoCipher
<1>3. UNCHANGED <<process, pool>>
  BY DEF DoCipher
<1>4. CASE CanUpdate(c) /\ Advance(c) /\ UNCHANGED unhandled
  <2>1. sess' \in [SP -> Session] /\ Mine(c) /\ Shape(c)' /\ Copying(c)'
    BY <1>1, <1>2, <1>4, AdvanceTypes DEF CanUpdate
  <2> QED
    BY <1>1, <1>3, <1>4, <2>1 DEF VariableTypes, process, pool, Mine
<1>5. CASE /\ Unhandled("update")
           /\ sess' = [sess EXCEPT ![ctx[c].sp].op = None]
           /\ UNCHANGED ctx
  <2>1. sess' \in [SP -> Session]
    BY <1>1, <1>5, SetOperation
  <2>2. Mine(c) /\ Shape(c)' /\ Copying(c)'
    BY <1>1, <1>2, <1>5 DEF Mine, Shape, Copying, VariableTypes
  <2> QED
    BY <1>1, <1>3, <1>5, <2>1, <2>2 DEF VariableTypes, process, pool, Unhandled
<1> QED
  BY <1>4, <1>5 DEF DoCipher

\* A context that never got a session is cleaned up.
LEMMA CleanupNothingTypes ==
    ASSUME TypeInv, NEW c \in CipherCtx \cup DigestCtx, CleanupNothing(c)
    PROVE  VariableTypes' /\ Mine(c) /\ Shape(c)' /\ Copying(c)'
<1>1. c \in Ctx \ RandUsers /\ VariableTypes
  BY Kinds DEF TypeInv
<1>2. \A d \in Ctx : ctx[d].from # c
  BY <1>1, NotCopied DEF CleanupNothing
<1>3. Mine(c) /\ Shape(c)' /\ Copying(c)'
  BY <1>1, <1>2, RestingShape DEF CleanupNothing
<1> QED
  BY <1>1, <1>3 DEF CleanupNothing, VariableTypes, process, pool, Mine

\* A cipher is cleaned up.
LEMMA CipherCleanupTypes ==
    ASSUME TypeInv, NEW c \in CipherCtx, CipherCleanup(c)
    PROVE  VariableTypes' /\ Mine(c) /\ Shape(c)' /\ Copying(c)'
<1> DEFINE sp == ctx[c].sp
<1>1. c \in Ctx \ RandUsers /\ VariableTypes /\ sp \in SP /\ ctx[c] \in Context
  BY Kinds DEF TypeInv, VariableTypes, CipherCleanup, Context
<1>2. \A d \in Ctx : ctx[d].from # c
  BY <1>1, NotCopied DEF CipherCleanup
<1>3. /\ \/ ctx' = [ctx EXCEPT ![c] = BlankContext]
         \/ ctx' = [ctx EXCEPT ![c] = Idle(sp)]
      /\ unhandled' \in {unhandled, TRUE}
      /\ sess' = [sess EXCEPT ![sp].op = IF Usable(sp) THEN None ELSE @]
      /\ freelist' = Returned(sp, "OP_CIPHER")
      /\ UNCHANGED <<process, last_pid, alive>>
  BY DEF CipherCleanup, Unhandled
<1>4. Mine(c) /\ Shape(c)' /\ Copying(c)'
  BY <1>1, <1>2, <1>3, RestingShape
<1>5. freelist' \in [OpTypes -> SUBSET SP]
  <2>1. "OP_CIPHER" \in OpTypes
    BY DEF OpTypes
  <2> QED
    BY <1>1, <1>3, <2>1, ReturnTypes
<1>6. sess' \in [SP -> Session]
  BY <1>1, <1>3, EndOperation
<1> QED
  BY <1>1, <1>3, <1>4, <1>5, <1>6 DEF VariableTypes, process, Mine

\* A digest gets its operation.
LEMMA DigestInitBeginTypes ==
    ASSUME TypeInv, NEW c \in DigestCtx, DigestInitBegin(c)
    PROVE  VariableTypes' /\ Mine(c) /\ Shape(c)' /\ Copying(c)'
<1> DEFINE sp == ctx[c].local
<1>1. /\ c \in Ctx \ RandUsers /\ c \notin CipherCtx /\ VariableTypes /\ sp \in SP
      /\ ctx[c] \in Context /\ ctx[c].pc = "got"
      /\ Copying(c)
  BY Kinds DEF TypeInv, VariableTypes, DigestInitBegin, Shape
<1>2. \A d \in Ctx : ctx[d].from # c
  BY <1>1, BusyNotCopied
<1>3. UNCHANGED <<process, last_pid, alive, unhandled>>
  BY DEF DigestInitBegin
<1>4. CASE /\ sess' = [sess EXCEPT ![sp].op = [by |-> c, key |-> None, encrypt |-> FALSE,
                                              n |-> 0]]
           /\ ctx' = [ctx EXCEPT ![c].sp = sp, ![c].local = None,
                                ![c].pc = IF ctx[c].from = None THEN "ready" ELSE "set"]
           /\ UNCHANGED freelist
  <2>1. PICK o : o = [by |-> c, key |-> None, encrypt |-> FALSE, n |-> 0]
    OBVIOUS
  <2>2. o \in Operation
    BY <1>1, <2>1 DEF Operation, Blocks
  <2>3. sess' \in [SP -> Session]
    BY <1>1, <1>4, <2>1, <2>2, SetOperation
  <2>4. PICK x : x = [ctx[c] EXCEPT !.sp = sp, !.local = None,
                                    !.pc = IF ctx[c].from = None THEN "ready" ELSE "set"]
    OBVIOUS
  <2>5. /\ x \in Context /\ x.sp = sp /\ x.local = None
        /\ x.pc = IF ctx[c].from = None THEN "ready" ELSE "set"
        /\ x.from = ctx[c].from /\ x.n = ctx[c].n
    BY <1>1, <2>4 DEF Context
  <2>6. ctx' = [ctx EXCEPT ![c] = x]
    BY <1>1, <1>4, <2>4
  <2>7. Mine(c) /\ ctx'[c] = x
    BY <1>1, <1>2, <2>5, <2>6, ReplaceContext
  <2>8. Shape(c)'
    BY <1>1, <2>5, <2>7, Kinds DEF Shape
  <2>9. Copying(c)'
    <3>1. ASSUME ctx[c].from # None
          PROVE  ctx'[ctx[c].from] = ctx[ctx[c].from]
      <4>1. ctx[c].from \in Ctx
        BY <1>1, <3>1, Kinds DEF Context
      <4> QED
        BY <1>1, <1>2, <2>7, <4>1 DEF Mine
    <3> QED
      BY <1>1, <2>5, <2>7, <3>1 DEF Copying
  <2> QED
    BY <1>1, <1>3, <1>4, <2>3, <2>7, <2>8, <2>9 DEF VariableTypes, process, Mine
<1>5. CASE /\ ctx' = [ctx EXCEPT ![c] = Idle(None)]
           /\ freelist' = Returned(sp, "OP_DIGEST")
           /\ UNCHANGED sess
  <2>1. freelist' \in [OpTypes -> SUBSET SP]
    <3>1. "OP_DIGEST" \in OpTypes
      BY DEF OpTypes
    <3> QED
      BY <1>1, <1>5, <3>1, ReturnTypes
  <2>2. Mine(c) /\ Shape(c)' /\ Copying(c)'
    BY <1>1, <1>2, <1>5, RestingShape
  <2> QED
    BY <1>1, <1>3, <1>5, <2>1, <2>2 DEF VariableTypes, process, Mine
<1> QED
  BY <1>4, <1>5 DEF DigestInitBegin

\* The state of the original is loaded into the copy.
LEMMA DigestCopyStateTypes ==
    ASSUME TypeInv, NEW c \in DigestCtx, DigestCopyState(c)
    PROVE  VariableTypes' /\ Mine(c) /\ Shape(c)' /\ Copying(c)'
<1> DEFINE sp == ctx[c].sp
           from == ctx[c].from
<1>1. /\ c \in Ctx \ RandUsers /\ c \notin CipherCtx /\ VariableTypes /\ sp \in SP
      /\ ctx[c] \in Context /\ ctx[c].pc = "set" /\ ctx[c].local = None
      /\ Copying(c) /\ from # None
  BY Kinds DEF TypeInv, VariableTypes, DigestCopyState, Shape
<1>2. \A d \in Ctx : ctx[d].from # c
  BY <1>1, BusyNotCopied
<1>3. UNCHANGED <<process, pool, unhandled>>
  BY DEF DigestCopyState
<1>4. CASE /\ CanUpdate(from)
           /\ sess' = [sess EXCEPT ![sp].op = [sess[ctx[from].sp].op EXCEPT !.by = c]]
           /\ ctx' = [ctx EXCEPT ![c].pc = "ready", ![c].from = None]
  <2>1. from \in Ctx /\ ctx[from].pc = "ready"
    BY <1>1, Kinds DEF Copying, Context
  <2>2. ctx[from].sp \in SP
    BY <2>1 DEF TypeInv, Shape
  <2>3. PICK o : o = [sess[ctx[from].sp].op EXCEPT !.by = c]
    OBVIOUS
  <2>4. o \in Operation
    <3>1. sess[ctx[from].sp].op \in Operation
      BY <1>1, <1>4, <2>2 DEF VariableTypes, Session, CanUpdate
    <3> QED
      BY <1>1, <2>3, <3>1 DEF Operation
  <2>5. sess' \in [SP -> Session]
    BY <1>1, <1>4, <2>3, <2>4, SetOperation
  <2>6. PICK x : x = [ctx[c] EXCEPT !.pc = "ready", !.from = None]
    OBVIOUS
  <2>7. x \in Context /\ x.pc = "ready" /\ x.sp = sp /\ x.local = None /\ x.from = None
    BY <1>1, <2>6 DEF Context
  <2>8. ctx' = [ctx EXCEPT ![c] = x]
    BY <1>1, <1>4, <2>6
  <2>9. Mine(c) /\ ctx'[c] = x
    BY <1>1, <1>2, <2>7, <2>8, ReplaceContext
  <2>10. Shape(c)' /\ Copying(c)'
    BY <1>1, <2>7, <2>9 DEF Shape, Copying
  <2> QED
    BY <1>1, <1>3, <2>5, <2>9, <2>10 DEF VariableTypes, process, pool, Mine
<1>5. CASE ctx' = [ctx EXCEPT ![c] = Idle(sp)] /\ UNCHANGED sess
  <2>1. Mine(c) /\ Shape(c)' /\ Copying(c)'
    BY <1>1, <1>2, <1>5, RestingShape
  <2> QED
    BY <1>1, <1>3, <1>5, <2>1 DEF VariableTypes, process, pool, Mine
<1> QED
  BY <1>4, <1>5 DEF DigestCopyState

\* Data goes into a digest.
LEMMA DigestUpdateTypes ==
    ASSUME TypeInv, NEW c \in DigestCtx, DigestUpdate(c)
    PROVE  VariableTypes' /\ Mine(c) /\ Shape(c)' /\ Copying(c)'
<1> DEFINE sp == ctx[c].sp
<1>1. /\ c \in Ctx \ RandUsers /\ ctx[c] \in Context /\ ctx[c].pc = "ready" /\ sp \in SP
      /\ VariableTypes
  BY Kinds DEF TypeInv, VariableTypes, DigestUpdate, Calls, Shape
<1>2. \A d \in Ctx : ctx[d].from # c
  BY <1>1, NotCopied DEF DigestUpdate
<1>3. UNCHANGED <<process, last_pid, alive, unhandled>>
  BY DEF DigestUpdate
<1>4. CASE CanUpdate(c) /\ Advance(c) /\ UNCHANGED freelist
  <2>1. sess' \in [SP -> Session] /\ Mine(c) /\ Shape(c)' /\ Copying(c)'
    BY <1>1, <1>2, <1>4, AdvanceTypes DEF CanUpdate
  <2> QED
    BY <1>1, <1>3, <1>4, <2>1 DEF VariableTypes, process, Mine
<1>5. CASE /\ sess' = [sess EXCEPT ![sp].op = IF Usable(sp) THEN None ELSE @]
           /\ ctx' = [ctx EXCEPT ![c] = Idle(None)]
           /\ freelist' = Returned(sp, "OP_DIGEST")
  <2>1. sess' \in [SP -> Session]
    BY <1>1, <1>5, EndOperation
  <2>2. freelist' \in [OpTypes -> SUBSET SP]
    <3>1. "OP_DIGEST" \in OpTypes
      BY DEF OpTypes
    <3> QED
      BY <1>1, <1>5, <3>1, ReturnTypes
  <2>3. Mine(c) /\ Shape(c)' /\ Copying(c)'
    BY <1>1, <1>2, <1>5, RestingShape
  <2> QED
    BY <1>1, <1>3, <2>1, <2>2, <2>3 DEF VariableTypes, process, Mine
<1> QED
  BY <1>4, <1>5 DEF DigestUpdate

\* A digest ends.
LEMMA DigestFinalOfTypes ==
    ASSUME TypeInv, NEW c \in DigestCtx, ctx[c].sp # None, NEW after,
           after \in {BlankContext, Idle(None), Idle(ctx[c].sp)},
           DigestFinalOf(c, after), \A d \in Ctx : ctx[d].from # c
    PROVE  VariableTypes' /\ Mine(c) /\ Shape(c)' /\ Copying(c)'
<1> DEFINE sp == ctx[c].sp
<1>1. /\ c \in Ctx \ RandUsers /\ ctx[c] \in Context /\ sp \in SP /\ VariableTypes
  BY Kinds DEF TypeInv, VariableTypes, Context
<1>2. /\ sess' = [sess EXCEPT ![sp].op = IF Usable(sp) THEN None ELSE @]
      /\ ctx' = [ctx EXCEPT ![c] = after]
      /\ freelist' \in {freelist, Returned(sp, "OP_DIGEST")}
      /\ UNCHANGED <<process, last_pid, alive, unhandled>>
  BY DEF DigestFinalOf
<1>3. sess' \in [SP -> Session]
  BY <1>1, <1>2, EndOperation
<1>4. freelist' \in [OpTypes -> SUBSET SP]
  <2>1. "OP_DIGEST" \in OpTypes
    BY DEF OpTypes
  <2>2. Returned(sp, "OP_DIGEST") \in [OpTypes -> SUBSET SP]
    BY <1>1, <2>1, ReturnTypes
  <2> QED
    BY <1>1, <1>2, <2>2 DEF VariableTypes
<1>5. Mine(c) /\ Shape(c)' /\ Copying(c)'
  <2>1. CASE after = BlankContext
    BY <1>1, <1>2, <2>1, RestingShape
  <2>2. CASE after = Idle(None)
    BY <1>1, <1>2, <2>2, RestingShape
  <2>3. CASE after = Idle(sp)
    BY <1>1, <1>2, <2>3, RestingShape
  <2> QED
    BY <2>1, <2>2, <2>3
<1> QED
  BY <1>1, <1>2, <1>3, <1>4, <1>5 DEF VariableTypes, process, Mine

\* Both ways to end it.
LEMMA DigestEnds ==
    ASSUME TypeInv, NEW c \in DigestCtx, DigestFinal(c) \/ DigestCleanup(c)
    PROVE  /\ ctx[c].sp # None /\ \A d \in Ctx : ctx[d].from # c
           /\ \E after \in {BlankContext, Idle(None), Idle(ctx[c].sp)} : DigestFinalOf(c, after)
<1>1. c \in Ctx
  BY Kinds
<1>2. \A d \in Ctx : ctx[d].from # c
  BY <1>1, NotCopied DEF DigestFinal, DigestCleanup
<1>3. ctx[c].sp # None
  BY <1>1, NoneDiffers DEF DigestFinal, DigestCleanup, Calls, TypeInv, Shape
<1> QED
  BY <1>2, <1>3 DEF DigestFinal, DigestCleanup

\* Random bytes are given.
LEMMA RandReturnTypes ==
    ASSUME TypeInv, NEW c \in RandUsers, RandReturn(c)
    PROVE  VariableTypes' /\ Mine(c) /\ Shape(c)' /\ Copying(c)'
<1>1. /\ c \in Ctx /\ ctx[c].pc = "got" /\ ctx[c].local \in SP /\ VariableTypes
  BY Kinds DEF TypeInv, VariableTypes, RandReturn, Calls, Shape
<1>2. \A d \in Ctx : ctx[d].from # c
  BY <1>1, BusyNotCopied
<1>3. /\ freelist' = Returned(ctx[c].local, "OP_RAND")
      /\ ctx' = [ctx EXCEPT ![c] = BlankContext]
      /\ UNCHANGED <<process, last_pid, alive, sess, unhandled>>
  BY DEF RandReturn
<1>4. Mine(c) /\ ctx'[c] = BlankContext
  BY <1>1, <1>2, <1>3, BlankIsContext, ReplaceContext
<1>5. Shape(c)' /\ Copying(c)'
  BY <1>4, BlankIsContext DEF Shape, Copying
<1>6. freelist' \in [OpTypes -> SUBSET SP]
  <2>1. "OP_RAND" \in OpTypes
    BY DEF OpTypes
  <2> QED
    BY <1>1, <1>3, <2>1, ReturnTypes
<1> QED
  BY <1>1, <1>3, <1>4, <1>5, <1>6 DEF VariableTypes, process, Mine

\* The steps of one context.
StepOf(c) ==
    \/ c \in CipherCtx /\ (CipherStep(c) \/ CleanupNothing(c))
    \/ c \in DigestCtx /\ (DigestStep(c) \/ CleanupNothing(c))
    \/ c \in RandUsers /\ (RandGet(c) \/ RandReturn(c))

\* A step is one of a context or of the library.
LEMMA NextCases ==
    ASSUME Next
    PROVE  (\E c \in Ctx : StepOf(c)) \/ Fork \/ pk11_finish \/ pk11_library_init
BY DEF Next, StepOf, Ctx

\* The steps of a context keep its types and its shape, and leave the others alone.
LEMMA StepTypes ==
    ASSUME TypeInv, NEW c \in Ctx, StepOf(c)
    PROVE  VariableTypes' /\ Mine(c) /\ Shape(c)' /\ Copying(c)'
<1>1. CASE c \in CipherCtx /\ CipherStep(c)
  BY <1>1, CipherInitGetTypes, CipherInitPrepareTypes, InitSymmetricTypes,
     InitSymmetricFailsTypes, DoCipherTypes, CipherCleanupTypes DEF CipherStep
<1>2. CASE c \in CipherCtx \cup DigestCtx /\ CleanupNothing(c)
  BY <1>2, CleanupNothingTypes
<1>3. CASE c \in DigestCtx /\ DigestStep(c)
  <2>1. CASE DigestFinal(c) \/ DigestCleanup(c)
    <3>1. /\ ctx[c].sp # None /\ \A d \in Ctx : ctx[d].from # c
          /\ \E after \in {BlankContext, Idle(None), Idle(ctx[c].sp)} : DigestFinalOf(c, after)
      BY <1>3, <2>1, DigestEnds
    <3> QED
      BY <1>3, <3>1, DigestFinalOfTypes
  <2> QED
    BY <1>3, <2>1, DigestInitGetTypes, DigestInitBeginTypes, DigestUpdateTypes,
       DigestCopyGetTypes, DigestCopyStateTypes DEF DigestStep
<1>4. CASE c \in RandUsers /\ (RandGet(c) \/ RandReturn(c))
  BY <1>4, RandGetTypes, RandReturnTypes
<1> QED
  BY <1>1, <1>2, <1>3, <1>4 DEF StepOf

\* What becomes of a context in a child process.
LEMMA ForkedContext ==
    ASSUME TypeInv, Fork, NEW c \in Ctx
    PROVE  /\ ctx'[c] \in Context
           /\ \/ ctx[c].pc \notin {"got", "set"} /\ ctx'[c] = ctx[c]
              \/ ctx[c].pc \in {"got", "set"} /\ c \in RandUsers /\ ctx'[c] = BlankContext
              \/ ctx[c].pc \in {"got", "set"} /\ c \notin RandUsers /\ ctx'[c] = Idle(ctx[c].sp)
           /\ ctx'[c].from = None
           /\ Shape(c)'
<1>1. ctx[c] \in Context /\ Shape(c) /\ ctx[c].sp \in SP \cup {None}
  BY DEF TypeInv, VariableTypes, Context
<1>2. ctx'[c] = IF ctx[c].pc \in {"got", "set"}
                THEN IF c \in RandUsers THEN BlankContext ELSE Idle(ctx[c].sp)
                ELSE ctx[c]
  BY DEF Fork
<1>3. CASE ctx[c].pc \notin {"got", "set"}
  <2>1. ctx'[c] = ctx[c]
    BY <1>2, <1>3
  <2>2. ctx[c].pc \in {"free", "idle", "ready"}
    BY <1>1, <1>3 DEF Context
  <2> QED
    BY <1>1, <1>3, <2>1, <2>2 DEF Shape
<1>4. CASE ctx[c].pc \in {"got", "set"} /\ c \in RandUsers
  BY <1>2, <1>4, BlankIsContext DEF Shape
<1>5. CASE ctx[c].pc \in {"got", "set"} /\ c \notin RandUsers
  <2>1. ctx'[c] = Idle(ctx[c].sp)
    BY <1>2, <1>5
  <2> QED
    BY <1>1, <1>5, <2>1, IdleIsContext DEF Shape
<1> QED
  BY <1>3, <1>4, <1>5

\* Types and shapes are an invariant, whatever fails.
LEMMA TypeStep == TypeInv /\ [Next]_vars => TypeInv'
<1> SUFFICES ASSUME TypeInv, [Next]_vars PROVE TypeInv'
  OBVIOUS
<1>1. ASSUME NEW c \in Ctx, StepOf(c) PROVE TypeInv'
  BY <1>1, StepTypes, OthersKeepShape DEF TypeInv
<1>2. CASE Fork
  <2>1. \A c \in Ctx : Shape(c)' /\ Copying(c)'
    BY <1>2, ForkedContext DEF Copying
  <2>2. ctx' \in [Ctx -> Context]
    <3>1. \A c \in Ctx : ctx'[c] \in Context
      BY <1>2, ForkedContext
    <3> QED
      BY <1>2, <3>1 DEF Fork
  <2>3. pid' \in 1 .. MaxForks + 1
    BY <1>2, BoundsAreNaturals DEF Fork, TypeInv, VariableTypes
  <2>4. UNCHANGED <<users, pk11_pid, pk11_library_initialized, restarts, last_pid, freelist,
                    alive, sess, unhandled>>
    BY <1>2 DEF Fork, pool
  <2> QED
    BY <2>1, <2>2, <2>3, <2>4 DEF TypeInv, VariableTypes
<1>3. CASE pk11_finish
  <2>1. /\ sess' = Freed(UNION {freelist[t] : t \in OpTypes})
        /\ alive' = alive \ UNION {freelist[t] : t \in OpTypes}
    BY <1>3 DEF pk11_finish
  <2>2. sess' \in [SP -> Session] /\ alive' \subseteq SP
    BY <2>1, BlankIsSession DEF Freed, TypeInv, VariableTypes
  <2>3. /\ UNCHANGED <<users, pid, last_pid, freelist, ctx>>
        /\ unhandled' \in {unhandled, TRUE}
        /\ pk11_library_initialized' \in {pk11_library_initialized, FALSE}
        /\ pk11_pid' \in {pk11_pid, 0}
    BY <1>3 DEF pk11_finish, Unhandled
  <2>4. restarts' \in 0 .. MaxRestarts
    BY <1>3, BoundsAreNaturals DEF pk11_finish, TypeInv, VariableTypes
  <2>5. pk11_pid' \in 0 .. MaxForks + 1
    BY <2>3, BoundsAreNaturals DEF TypeInv, VariableTypes
  <2>6. \A c \in Ctx : Shape(c)' /\ Copying(c)'
    BY <2>3 DEF TypeInv, Shape, Copying
  <2> QED
    BY <2>2, <2>3, <2>4, <2>5, <2>6 DEF TypeInv, VariableTypes
<1>4. CASE pk11_library_init
  <2>1. /\ UNCHANGED <<users, pid, restarts, last_pid, alive, sess, ctx>>
        /\ pk11_pid' = pid /\ pk11_library_initialized' = TRUE
        /\ unhandled' \in {unhandled, TRUE}
        /\ freelist' = freelist \/ freelist' = [t \in OpTypes |-> {}]
    BY <1>4 DEF pk11_library_init, InitLibrary, InitLibraryFailsLate, Unhandled
  <2>2. pk11_pid' \in 0 .. MaxForks + 1 /\ freelist' \in [OpTypes -> SUBSET SP]
    BY <2>1, BoundsAreNaturals DEF TypeInv, VariableTypes
  <2>3. \A c \in Ctx : Shape(c)' /\ Copying(c)'
    BY <2>1 DEF TypeInv, Shape, Copying
  <2> QED
    BY <2>1, <2>2, <2>3 DEF TypeInv, VariableTypes
<1>5. CASE UNCHANGED vars
  BY <1>5 DEF vars, TypeInv, VariableTypes, Shape, Copying, Context
<1> QED
  BY <1>1, <1>2, <1>3, <1>4, <1>5, NextCases

\* The initial state.
LEMMA InitTypes == Init => TypeInv
<1> SUFFICES ASSUME Init PROVE TypeInv
  OBVIOUS
<1>1. \A c \in Ctx : ctx[c] = BlankContext
  BY DEF Init
<1>2. \A c \in Ctx : Shape(c) /\ Copying(c)
  BY <1>1, BlankIsContext DEF Shape, Copying
<1>3. VariableTypes
  <2>1. /\ 1 \in 1 .. MaxForks + 1 /\ 1 \in 0 .. MaxForks + 1 /\ 0 \in 0 .. MaxForks + 1
        /\ 0 \in 0 .. MaxRestarts
    BY BoundsAreNaturals
  <2>2. sess \in [SP -> Session] /\ ctx \in [Ctx -> Context]
    BY BlankIsContext, BlankIsSession DEF Init
  <2>3. freelist \in [OpTypes -> SUBSET SP] /\ alive \subseteq SP
    BY DEF Init
  <2>4. pk11_library_initialized \in BOOLEAN /\ unhandled \in BOOLEAN /\ users \in Workloads
    BY DEF Init
  <2> QED
    BY <2>1, <2>2, <2>3, <2>4 DEF Init, VariableTypes
<1> QED
  BY <1>2, <1>3 DEF TypeInv

(***************************************************************************)
(* The model's variables keep their types, and a call or an operation that *)
(* goes on has its session, also after failures that the code does not     *)
(* cope with.                                                              *)
(***************************************************************************)
THEOREM SessionTypes == Spec => []TypeOK
<1>1. Spec => []TypeInv
  BY InitTypes, TypeStep, PTL DEF Spec
<1>2. TypeInv => TypeOK
  <2>1. ASSUME TypeInv PROVE SessionInHand
    BY <2>1, Kinds DEF TypeInv, Shape, SessionInHand
  <2> QED
    BY <2>1 DEF TypeInv, TypeOK
<1> QED
  BY <1>1, <1>2, PTL

(***************************************************************************)
(* Sessions: what a step of one context leaves alone                       *)
(***************************************************************************)
\* A call of context c works on the session it holds, and keeps it, loses it or
\* gives it back.
Work(c) ==
    /\ Mine(c)
    /\ UNCHANGED <<pid, alive, pk11_library_initialized>>
    /\ Holds(c)' \subseteq Holds(c)
    /\ \A q \in SP \ Holds(c) : sess'[q] = sess[q]
    /\ \A q \in Holds(c) : sess'[q].pid = sess[q].pid /\ Sound(q)'
    /\ \/ freelist' = freelist
       \/ \E sp \in Holds(c) :
             /\ Holds(c)' = {}
             /\ sess[sp].pid = pid /\ sess'[sp].open /\ sess'[sp].op = None
             /\ freelist' = [freelist EXCEPT ![OpType(c)] = @ \cup {sp}]

\* A context holds structures.
LEMMA HoldsStructures ==
    ASSUME TypeInv, NEW c \in Ctx
    PROVE  Holds(c) \subseteq SP
<1>1. ctx[c] \in Context
  BY DEF TypeInv, VariableTypes
<1> QED
  BY <1>1 DEF Holds, Context

\* What is known of a context depends on its record and on its sessions only.
LEMMA CtxStateFrame ==
    ASSUME TypeInv, NEW d \in Ctx, CtxState(d), ctx'[d] = ctx[d], pid' = pid,
           \A q \in Holds(d) : sess'[q] = sess[q]
    PROVE  CtxState(d)'
<1>1. ctx[d] \in Context /\ Shape(d)
  BY DEF TypeInv, VariableTypes
<1>2. Holds(d)' = Holds(d)
  BY DEF Holds
<1>3. ctx[d].local # None => sess'[ctx[d].local] = sess[ctx[d].local]
  BY DEF Holds
<1>4. ctx[d].sp # None => sess'[ctx[d].sp] = sess[ctx[d].sp]
  BY DEF Holds
<1>5. ctx[d].pc = "got" => ctx[d].local # None
  BY <1>1, NoneDiffers DEF Shape
<1>6. ctx[d].pc = "set" /\ d \in CipherCtx => ctx[d].local # None
  BY <1>1, NoneDiffers DEF Shape
<1>7. ctx[d].pc = "set" /\ d \in DigestCtx => ctx[d].sp # None
  BY <1>1, NoneDiffers DEF Shape
<1>8. ctx[d].pc = "ready" => ctx[d].sp # None
  BY <1>1, NoneDiffers DEF Shape
<1> QED
  BY <1>2, <1>3, <1>4, <1>5, <1>6, <1>7, <1>8 DEF CtxState, OwnOperation, Reusable

\* Such a step keeps everything that is known of sessions and pools.
LEMMA WorkKeeps ==
    ASSUME SessionInv, Sane, NEW c \in Ctx, Work(c), TypeInv', CtxState(c)'
    PROVE  Held' /\ Pooled'
<1>1. TypeInv /\ Held /\ Pooled /\ VariableTypes
  BY DEF SessionInv, Sane, TypeInv
<1>2. \A d \in Ctx : Holds(d) \subseteq SP
  BY <1>1, HoldsStructures
<1>3. \A d \in Ctx \ {c} : ctx'[d] = ctx[d] /\ Holds(d)' = Holds(d)
  BY DEF Work, Mine, Holds
<1>4. \A d \in Ctx : Holds(d)' \subseteq Holds(d)
  BY <1>3 DEF Work
<1>5. \A d \in Ctx \ {c} : \A q \in Holds(d) : q \in SP \ Holds(c)
  BY <1>1, <1>2 DEF Held, HeldOnce
<1>6. \A d \in Ctx \ {c} : \A q \in Holds(d) : sess'[q] = sess[q]
  BY <1>5 DEF Work
<1>7. pid' = pid /\ alive' = alive
  BY DEF Work
<1>8. HeldOnce'
  BY <1>1, <1>4, <1>7 DEF Held, HeldOnce
<1>9. \A q \in SP : Sound(q)'
  BY <1>1, <1>7 DEF Work, Held, Sound
<1>10. \A d \in Ctx : CtxState(d)'
  <2>1. ASSUME NEW d \in Ctx \ {c} PROVE CtxState(d)'
    <3>1. CtxState(d) /\ ctx'[d] = ctx[d] /\ \A q \in Holds(d) : sess'[q] = sess[q]
      BY <1>1, <1>3, <1>6, <2>1 DEF Held
    <3> QED
      BY <1>1, <1>7, <2>1, <3>1, CtxStateFrame
  <2> QED
    BY <2>1
<1>11. \A q \in SP : sess'[q].pid = sess[q].pid
  BY DEF Work
<1>12. OpType(c) \in OpTypes /\ freelist \in [OpTypes -> SUBSET SP]
  BY <1>1, Kinds DEF VariableTypes
<1>13. \A t \in OpTypes : \A q \in freelist[t] : q \in SP \ Holds(c) /\ sess'[q] = sess[q]
  BY <1>1, <1>12 DEF Work, Pooled, ListsApart
<1>14. CASE freelist' = freelist
  <2>1. ListsApart'
    BY <1>1, <1>4, <1>7, <1>14 DEF Pooled, ListsApart
  <2>2. ListsReusable'
    BY <1>1, <1>7, <1>13, <1>14 DEF Pooled, ListsReusable, Reusable
  <2>3. ListsOfOne'
    <3>1. \A t \in OpTypes : \A q \in freelist[t] : q \in SP
      BY <1>12
    <3>2. \A d \in Ctx : OpType(d) \in OpTypes
      BY Kinds
    <3> QED
      BY <1>1, <1>2, <1>4, <1>7, <1>11, <1>14, <3>1, <3>2 DEF Pooled, ListsOfOne, OpType
  <2> QED
    BY <1>8, <1>9, <1>10, <2>1, <2>2, <2>3 DEF Held, Pooled
<1>15. ASSUME NEW sp \in Holds(c), Holds(c)' = {},
              sess[sp].pid = pid, sess'[sp].open, sess'[sp].op = None,
              freelist' = [freelist EXCEPT ![OpType(c)] = @ \cup {sp}]
       PROVE  Held' /\ Pooled'
  <2>1. sp \in SP /\ sp \in alive /\ \A d \in Ctx \ {c} : sp \notin Holds(d)
    BY <1>1, <1>2 DEF Held, HeldOnce
  <2>2. \A t \in OpTypes : freelist'[t] = IF t = OpType(c) THEN freelist[t] \cup {sp}
                                                         ELSE freelist[t]
    BY <1>12, <1>15
  <2>3. \A t \in OpTypes : sp \notin freelist[t]
    BY <1>1 DEF Pooled, ListsApart
  <2>4. ListsApart'
    <3>1. \A t \in OpTypes : freelist'[t] \subseteq alive'
      BY <1>1, <1>7, <2>1, <2>2 DEF Pooled, ListsApart
    <3>2. \A d \in Ctx, t \in OpTypes : Holds(d)' \cap freelist'[t] = {}
      BY <1>1, <1>4, <1>15, <2>1, <2>2 DEF Pooled, ListsApart
    <3>3. \A t, u \in OpTypes : t # u => freelist'[t] \cap freelist'[u] = {}
      <4> SUFFICES ASSUME NEW t \in OpTypes, NEW u \in OpTypes, t # u,
                          NEW q, q \in freelist'[t], q \in freelist'[u]
                   PROVE  FALSE
        OBVIOUS
      <4>1. freelist[t] \cap freelist[u] = {}
        BY <1>1 DEF Pooled, ListsApart
      <4>2. q # sp
        BY <2>2, <2>3
      <4>3. q \in freelist[t] /\ q \in freelist[u]
        <5>1. freelist'[t] \in {freelist[t], freelist[t] \cup {sp}}
          BY <2>2
        <5>2. freelist'[u] \in {freelist[u], freelist[u] \cup {sp}}
          BY <2>2
        <5> QED
          BY <4>2, <5>1, <5>2
      <4> QED
        BY <4>1, <4>3
    <3> QED
      BY <3>1, <3>2, <3>3 DEF ListsApart
  <2>5. ListsReusable'
    BY <1>1, <1>7, <1>13, <1>15, <2>2 DEF Pooled, ListsReusable, Reusable
  <2>6. ListsOfOne'
    <3>1. \A t \in OpTypes : \A q \in freelist'[t] : q \in SP
      BY <2>1, <2>2, <1>12
    <3>2. \A q \in freelist[OpType(c)] : sess[q].pid = pid
      BY <1>1, <1>15 DEF Pooled, ListsOfOne
    <3>3. \A q \in freelist'[OpType(c)] : sess[q].pid = pid
      BY <1>12, <1>15, <2>2, <3>2
    <3>4. \A t \in OpTypes : \A q, r \in freelist'[t] : sess[q].pid = sess[r].pid
      BY ZenonT(60), <1>1, <2>2, <3>3 DEF Pooled, ListsOfOne
    <3>5. ASSUME NEW d \in Ctx, NEW q \in freelist'[OpType(d)], NEW r \in Holds(d)',
                 sess[r].pid = pid
          PROVE  sess[q].pid = pid
      <4>1. r \in Holds(d) /\ OpType(d) \in OpTypes
        BY <1>4, <3>5, Kinds
      <4>2. CASE OpType(d) = OpType(c)
        BY <3>3, <3>5, <4>2
      <4>3. CASE OpType(d) # OpType(c)
        BY <1>1, <2>2, <3>5, <4>1, <4>3 DEF Pooled, ListsOfOne
      <4> QED
        BY <4>2, <4>3
    <3>6. \A d \in Ctx : OpType(d) \in OpTypes
      BY Kinds
    <3>7. \A t \in OpTypes : \A q, r \in freelist'[t] : sess'[q].pid = sess'[r].pid
      BY <1>11, <3>1, <3>4
    <3>8. \A d \in Ctx : \A q \in freelist'[OpType(d)], r \in Holds(d)' :
             sess'[r].pid = pid => sess'[q].pid = pid
      BY <1>2, <1>4, <1>11, <3>1, <3>5, <3>6
    <3> QED
      BY <1>7, <3>7, <3>8 DEF ListsOfOne, OpType
  <2> QED
    BY <1>8, <1>9, <1>10, <2>4, <2>5, <2>6 DEF Held, Pooled
<1> QED
  BY <1>14, <1>15 DEF Work

(***************************************************************************)
(* pk11_get_session                                                        *)
(***************************************************************************)
\* What pk11_get_session gives is nobody else's and can be used if it is of this
\* process; it leaves the sessions alone that others hold.
Got(t, sp) ==
    /\ sp # None => /\ sp \in alive'
                    /\ \A d \in Ctx : sp \notin Holds(d)
                    /\ \A u \in OpTypes : sp \notin freelist'[u]
                    /\ Reusable(sp)'
                    /\ sess'[sp].pid = pid => \A q \in freelist'[t] : sess[q].pid = pid
    /\ \A d \in Ctx : \A q \in Holds(d) : q \in alive' /\ sess'[q] = sess[q]
    /\ \A u \in OpTypes : /\ freelist'[u] \subseteq freelist[u]
                          /\ \A q \in freelist'[u] : q \in alive' /\ sess'[q] = sess[q]
    /\ \A q \in SP : Sound(q)'

\* The cases in which no error is left unhandled.
LEMMA GetSession ==
    ASSUME SessionInv, Sane, NEW t \in OpTypes, NEW sp \in SP \cup {None}, pid' = pid,
           pk11_get_session(t, sp), ~unhandled'
    PROVE  Got(t, sp)
<1>1. TypeInv /\ Held /\ Pooled /\ VariableTypes
  BY DEF SessionInv, Sane, TypeInv
<1>2. \A d \in Ctx : Holds(d) \subseteq SP /\ Holds(d) \subseteq alive
  BY <1>1, HoldsStructures DEF Held, HeldOnce
<1>3. /\ freelist \in [OpTypes -> SUBSET SP] /\ sess \in [SP -> Session]
      /\ pid \in 1 .. MaxForks + 1 /\ pid >= 1
  BY <1>1, BoundsAreNaturals DEF VariableTypes
<1>4. /\ \A u \in OpTypes : freelist[u] \subseteq alive
      /\ \A d \in Ctx, u \in OpTypes : Holds(d) \cap freelist[u] = {}
      /\ \A u \in OpTypes \ {t} : freelist[t] \cap freelist[u] = {}
  BY <1>1 DEF Pooled, ListsApart
<1>5. \A q \in SP : Sound(q)
  BY <1>1 DEF Held
<1>6. CASE sp = None
  <2>1. UNCHANGED <<alive, sess>> /\ (freelist' = freelist \/ freelist' = [u \in OpTypes |-> {}])
    BY <1>6, NoneDiffers DEF pk11_get_session, GetFails, GetNewFails, GetForkedFails, InitLibrary,
       InitLibraryFailsLate, Unhandled
  <2>2. \A u \in OpTypes : freelist'[u] \subseteq freelist[u]
    BY <2>1
  <2> QED
    BY <1>2, <1>4, <1>5, <1>6, <2>1, <2>2 DEF Got, Sound
<1>7. CASE sp \in SP /\ GetFromList(t, sp)
  <2>1. /\ sp \in freelist[t] /\ UNCHANGED <<alive, sess>>
        /\ freelist' = [freelist EXCEPT ![t] = @ \ {sp}]
    BY <1>7 DEF GetFromList
  <2>2. \A u \in OpTypes : freelist'[u] = IF u = t THEN freelist[u] \ {sp} ELSE freelist[u]
    BY <1>3, <2>1
  <2>3. Reusable(sp)'
    BY <1>1, <2>1 DEF Pooled, ListsReusable, Reusable
  <2>4. sess[sp].pid = pid => \A q \in freelist[t] : sess[q].pid = pid
    BY <1>1, <2>1 DEF Pooled, ListsOfOne
  <2>5. \A u \in OpTypes : sp \notin freelist'[u]
    BY <1>4, <2>1, <2>2
  <2>6. \A u \in OpTypes : freelist'[u] \subseteq freelist[u]
    BY <2>2
  <2>7. \A q \in SP : Sound(q)'
    BY <1>5, <2>1 DEF Sound
  <2>8. sp \in alive' /\ \A d \in Ctx : sp \notin Holds(d)
    BY <1>4, <2>1
  <2>9. \A u \in OpTypes : \A q \in freelist'[u] : q \in alive' /\ sess'[q] = sess[q]
    BY <1>4, <2>1, <2>6
  <2>10. \A d \in Ctx : \A q \in Holds(d) : q \in alive' /\ sess'[q] = sess[q]
    BY <1>2, <2>1
  <2>11. sess'[sp].pid = pid => \A q \in freelist'[t] : sess[q].pid = pid
    BY <2>1, <2>4, <2>6
  <2> QED
    BY <2>3, <2>5, <2>6, <2>7, <2>8, <2>9, <2>10, <2>11 DEF Got
<1>8. CASE sp \in SP /\ (GetNew(t, sp) \/ GetReinitialized(t, sp))
  <2>1. /\ freelist[t] = {} /\ sp \in SP \ alive /\ alive' = alive \cup {sp}
        /\ sess' = [sess EXCEPT ![sp] = SetUpSession(BlankSession)]
        /\ freelist' = freelist \/ freelist' = [u \in OpTypes |-> {}]
    BY <1>8 DEF GetNew, GetReinitialized, InitLibrary
  <2>0. \A u \in OpTypes : freelist'[u] \subseteq freelist[u]
    BY <2>1
  <2>2. sess'[sp] = SetUpSession(BlankSession) /\ \A q \in SP \ {sp} : sess'[q] = sess[q]
    BY <1>3, <2>1
  <2>3. /\ sess'[sp].pid = pid /\ sess'[sp].open /\ sess'[sp].cipher_key = None
        /\ sess'[sp].op = None
    BY <1>3, <2>2, BlankIsSession, SetUpIsSession
  <2>4. \A q \in SP : Sound(q)'
    BY <1>3, <1>5, <2>2, <2>3 DEF Sound
  <2>5. Reusable(sp)'
    BY <2>3 DEF Reusable
  <2>6. \A d \in Ctx : \A q \in Holds(d) : q \in SP \ {sp}
    BY <1>2, <2>1
  <2>7. \A u \in OpTypes : \A q \in freelist[u] : q \in SP \ {sp}
    BY <1>3, <1>4, <2>1
  <2> QED
    BY <1>2, <1>4, <2>0, <2>1, <2>2, <2>4, <2>5, <2>6, <2>7 DEF Got
<1>9. CASE sp \in SP /\ GetForked(t, sp)
  <2>1. /\ Candidate(t, sp) /\ alive' = (alive \ freelist[t]) \cup {sp}
        /\ sess' = [Freed(freelist[t]) EXCEPT ![sp] = SetUpSession(Content(t, sp))]
        /\ freelist' = [freelist EXCEPT ![t] = {}]
    BY <1>9 DEF GetForked
  <2>2. sp \in freelist[t] \/ sp \in SP \ alive
    BY <2>1 DEF Candidate
  <2>3. Content(t, sp) \in Session
    BY <1>3, BlankIsSession, <1>9 DEF Content
  <2>4. /\ sess'[sp] = SetUpSession(Content(t, sp))
        /\ \A q \in SP \ {sp} : sess'[q] = IF q \in freelist[t] THEN BlankSession ELSE sess[q]
    BY <1>9, <2>1 DEF Freed
  <2>5. /\ sess'[sp].pid = pid /\ sess'[sp].open /\ sess'[sp].cipher_key = None
        /\ sess'[sp].op = None
    BY <1>3, <2>3, <2>4, SetUpIsSession
  <2>6. \A u \in OpTypes : freelist'[u] = IF u = t THEN {} ELSE freelist[u]
    BY <1>3, <2>1
  <2>7. \A q \in SP : Sound(q)'
    <3> SUFFICES ASSUME NEW q \in SP PROVE sess'[q].pid <= pid
                                           /\ sess'[q].cipher_key \in {None, sess'[q].key}
      BY DEF Sound
    <3>1. CASE q = sp
      BY <1>3, <2>5, <3>1
    <3>2. CASE q # sp /\ q \in freelist[t]
      BY <1>3, <2>4, <3>2, BlankIsSession
    <3>3. CASE q # sp /\ q \notin freelist[t]
      BY <1>5, <2>4, <3>3 DEF Sound
    <3> QED
      BY <3>1, <3>2, <3>3
  <2>8. Reusable(sp)'
    BY <2>5 DEF Reusable
  <2>9. \A d \in Ctx : \A q \in Holds(d) : q \in SP \ {sp} /\ q \notin freelist[t]
    BY <1>2, <1>4, <2>2
  <2>10. \A u \in OpTypes : \A q \in freelist'[u] :
            q \in SP \ {sp} /\ q \notin freelist[t] /\ q \in freelist[u] /\ q \in alive
    BY <1>3, <1>4, <2>2, <2>6
  <2>11. \A u \in OpTypes : sp \notin freelist'[u]
    BY <2>10
  <2>12. \A d \in Ctx : \A q \in Holds(d) : q \in alive' /\ sess'[q] = sess[q]
    BY <1>2, <2>1, <2>4, <2>9
  <2>13. \A u \in OpTypes : \A q \in freelist'[u] : q \in alive' /\ sess'[q] = sess[q]
    BY <2>1, <2>4, <2>10
  <2> QED
    BY <2>1, <2>6, <2>7, <2>8, <2>9, <2>10, <2>11, <2>12, <2>13 DEF Got
<1>10. ~GetForkedNoSlot(t, sp)
  BY DEF GetForkedNoSlot, Unhandled
<1> QED
  BY <1>6, <1>7, <1>8, <1>9, <1>10 DEF pk11_get_session

\* A call of context c that asks for a session.
LEMMA GetKeeps ==
    ASSUME SessionInv, Sane, NEW c \in Ctx, NEW sp \in SP \cup {None}, Got(OpType(c), sp),
           Mine(c), pid' = pid, Holds(c)' = {sp} \ {None},
           TypeInv', CtxState(c)'
    PROVE  Held' /\ Pooled'
<1>1. TypeInv /\ Held /\ Pooled /\ VariableTypes
  BY DEF SessionInv, Sane, TypeInv
<1>2. \A d \in Ctx \ {c} : ctx'[d] = ctx[d] /\ Holds(d)' = Holds(d)
  BY DEF Mine, Holds
<1>3. HeldOnce'
  <2>1. \A d \in Ctx : Holds(d)' \subseteq alive'
    BY <1>2 DEF Got
  <2>2. ASSUME NEW d \in Ctx, NEW e \in Ctx, d # e PROVE Holds(d)' \cap Holds(e)' = {}
    <3>1. CASE d # c /\ e # c
      BY <1>1, <1>2, <2>2, <3>1 DEF Held, HeldOnce
    <3>2. CASE d = c
      BY <1>2, <2>2, <3>2 DEF Got
    <3>3. CASE e = c
      BY <1>2, <2>2, <3>3 DEF Got
    <3> QED
      BY <3>1, <3>2, <3>3
  <2> QED
    BY <2>1, <2>2 DEF HeldOnce
<1>4. \A d \in Ctx : CtxState(d)'
  <2>1. ASSUME NEW d \in Ctx \ {c} PROVE CtxState(d)'
    <3>1. CtxState(d) /\ ctx'[d] = ctx[d] /\ \A q \in Holds(d) : sess'[q] = sess[q]
      BY <1>1, <1>2, <2>1 DEF Held, Got
    <3> QED
      BY <1>1, <2>1, <3>1, CtxStateFrame
  <2> QED
    BY <2>1
<1>5. ListsApart'
  <2>1. \A t \in OpTypes : freelist'[t] \subseteq alive'
    BY DEF Got
  <2>2. ASSUME NEW d \in Ctx, NEW t \in OpTypes PROVE Holds(d)' \cap freelist'[t] = {}
    <3>1. CASE d = c
      BY <3>1, <2>2 DEF Got
    <3>2. CASE d # c
      BY <1>1, <1>2, <2>2, <3>2 DEF Got, Pooled, ListsApart
    <3> QED
      BY <3>1, <3>2
  <2>3. \A t, u \in OpTypes : t # u => freelist'[t] \cap freelist'[u] = {}
    <3> SUFFICES ASSUME NEW t \in OpTypes, NEW u \in OpTypes, t # u
                 PROVE  freelist'[t] \cap freelist'[u] = {}
      OBVIOUS
    <3>1. freelist[t] \cap freelist[u] = {}
      BY <1>1 DEF Pooled, ListsApart
    <3>2. freelist'[t] \subseteq freelist[t] /\ freelist'[u] \subseteq freelist[u]
      BY DEF Got
    <3> QED
      BY <3>1, <3>2
  <2> QED
    BY <2>1, <2>2, <2>3 DEF ListsApart
<1>6. ListsReusable'
  BY <1>1 DEF Got, Pooled, ListsReusable, Reusable
<1>7. ListsOfOne'
  <2>1. \A t \in OpTypes : \A q \in freelist'[t] : q \in freelist[t] /\ sess'[q] = sess[q]
    BY DEF Got
  <2>2. \A t \in OpTypes : \A q, r \in freelist'[t] : sess'[q].pid = sess'[r].pid
    BY <1>1, <2>1 DEF Pooled, ListsOfOne
  <2>3. ASSUME NEW d \in Ctx, NEW q \in freelist'[OpType(d)], NEW r \in Holds(d)',
               sess'[r].pid = pid
        PROVE  sess'[q].pid = pid
    <3>1. OpType(d) \in OpTypes
      BY Kinds
    <3>2. sess'[q] = sess[q] /\ q \in freelist[OpType(d)]
      BY <2>1, <2>3, <3>1
    <3>3. CASE d = c
      BY <2>3, <3>1, <3>2, <3>3 DEF Got
    <3>4. CASE d # c
      <4>1. r \in Holds(d) /\ sess'[r] = sess[r]
        BY <1>2, <2>3, <3>4 DEF Got
      <4> QED
        BY <1>1, <2>3, <3>2, <4>1 DEF Pooled, ListsOfOne
    <3> QED
      BY <3>3, <3>4
  <2> QED
    BY <2>2, <2>3 DEF ListsOfOne, OpType
<1>8. \A q \in SP : Sound(q)'
  BY DEF Got
<1> QED
  BY <1>3, <1>4, <1>5, <1>6, <1>7, <1>8 DEF Held, Pooled

(***************************************************************************)
(* The steps of a context, one by one                                      *)
(***************************************************************************)
\* A context that has given its session back, or has lost it.
LEMMA RestingState ==
    ASSUME NEW c \in Ctx, ctx'[c] = BlankContext \/ ctx'[c] = Idle(None)
    PROVE  Holds(c)' = {} /\ CtxState(c)'
<1>1. /\ ctx'[c].pc \in {"free", "idle"} /\ ctx'[c].sp = None /\ ctx'[c].local = None
      /\ ctx'[c].key = None /\ ctx'[c].encrypt = FALSE
  <2>1. CASE ctx'[c] = BlankContext
    BY <2>1, BlankIsContext
  <2>2. CASE ctx'[c] = Idle(None)
    <3>1. None \in SP \cup {None}
      OBVIOUS
    <3>2. /\ Idle(None).pc = "idle" /\ Idle(None).sp = None /\ Idle(None).local = None
          /\ Idle(None).key = None /\ Idle(None).encrypt = FALSE
      BY <3>1, IdleIsContext
    <3> QED
      BY <2>2, <3>2
  <2> QED
    BY <2>1, <2>2
<1>2. Holds(c)' = {}
  BY <1>1 DEF Holds
<1> QED
  BY <1>1, <1>2 DEF CtxState, OwnOperation

\* A context that keeps a session it no longer uses.
LEMMA KeepingState ==
    ASSUME NEW c \in Ctx, NEW sp \in SP, ctx'[c] = Idle(sp),
           sess'[sp].pid = pid' => sess'[sp].open,
           c \in CipherCtx => sess'[sp].pid # pid'
    PROVE  Holds(c)' = {sp} /\ CtxState(c)'
<1>1. /\ ctx'[c].pc = "idle" /\ ctx'[c].sp = sp /\ ctx'[c].local = None
      /\ ctx'[c].key = None /\ ctx'[c].encrypt = FALSE
  <2>1. sp \in SP \cup {None}
    OBVIOUS
  <2>2. /\ Idle(sp).pc = "idle" /\ Idle(sp).sp = sp /\ Idle(sp).local = None
        /\ Idle(sp).key = None /\ Idle(sp).encrypt = FALSE
    BY <2>1, IdleIsContext
  <2> QED
    BY <2>2
<1>2. Holds(c)' = {sp}
  BY <1>1, NoneDiffers DEF Holds
<1> QED
  BY <1>1, <1>2 DEF CtxState, OwnOperation

\* What the invariant says of a context that is called.
LEMMA Known ==
    ASSUME SessionInv, Sane, NEW c \in Ctx
    PROVE  /\ TypeInv /\ VariableTypes /\ Shape(c) /\ ctx[c] \in Context /\ CtxState(c)
           /\ Holds(c) \subseteq SP
           /\ \A sp \in SP : Sound(sp) /\ sess[sp] \in Session
<1>1. TypeInv /\ Held
  BY DEF SessionInv, Sane
<1> QED
  BY <1>1, HoldsStructures DEF TypeInv, VariableTypes, Held

\* A session is got.
LEMMA GetStep ==
    ASSUME SessionInv, Sane, ~unhandled', NEW c \in Ctx, GotSession(c), Mine(c), TypeInv',
           pid' = pid
    PROVE  Held' /\ Pooled'
<1>1. PICK sp \in SP \cup {None} : pk11_get_session(OpType(c), sp) /\ GotContext(c, sp)
  BY DEF GotSession
<1>2. OpType(c) \in OpTypes
  BY Kinds
<1>3. Got(OpType(c), sp)
  BY <1>1, <1>2, GetSession
<1>4. Holds(c)' = {sp} \ {None}
  BY <1>1 DEF GotContext, Holds
<1>5. CtxState(c)'
  <2>1. sp # None => Reusable(sp)'
    BY <1>3 DEF Got
  <2>2. /\ ctx'[c].local = sp /\ ctx'[c].sp = None
        /\ IF sp = None THEN ctx'[c].pc \in {"free", "idle"} ELSE ctx'[c].pc = "got"
        /\ c \in CipherCtx => ctx'[c].n = 0
        /\ c \in DigestCtx => /\ ctx'[c].key = None /\ ctx'[c].encrypt = FALSE
                              /\ ctx'[c].from = None => ctx'[c].n = 0
    BY <1>1 DEF GotContext
  <2>3. \A q \in Holds(c)' : sess'[q].pid = pid' => sess'[q].open
    BY <1>4, <2>1 DEF Reusable
  <2> QED
    BY <2>1, <2>2, <2>3 DEF CtxState, OwnOperation
<1> QED
  BY <1>2, <1>3, <1>4, <1>5, GetKeeps

\* A session of this process goes to the pool, another one nowhere.
LEMMA ReturnCases ==
    ASSUME NEW sp \in SP, NEW t, freelist' = Returned(sp, t)
    PROVE  \/ sess[sp].pid # pid /\ freelist' = freelist
           \/ sess[sp].pid = pid /\ freelist' = [freelist EXCEPT ![t] = @ \cup {sp}]
BY NoneDiffers DEF Returned

\* The session of a cipher is prepared: it is for the wanted key, or given back.
LEMMA CipherInitPrepareWorks ==
    ASSUME SessionInv, Sane, ~unhandled', NEW c \in CipherCtx, CipherInitPrepare(c), Mine(c)
    PROVE  Work(c) /\ CtxState(c)'
<1>0. PICK sp, cipher_key :
         sp = ctx[c].local /\ cipher_key = CheckNewCipherKey(sess[sp], ctx[c].key)
  OBVIOUS
<1>1. /\ c \in Ctx /\ TypeInv /\ VariableTypes /\ Shape(c) /\ ctx[c] \in Context /\ CtxState(c)
      /\ \A q \in SP : Sound(q) /\ sess[q] \in Session
      /\ OpType(c) = "OP_CIPHER" /\ c \notin DigestCtx
  BY Known, Kinds
<1>2. ctx[c].pc = "got" /\ sp \in SP /\ ctx[c].sp = None /\ ctx[c].from = None /\ ctx[c].n = 0
  BY <1>0, <1>1 DEF CipherInitPrepare, Calls, Shape, CtxState
<1>3. PICK s \in {[sess[sp] EXCEPT !.cipher_key = cipher_key], sess[sp]} :
          /\ \/ /\ CipherCached(c, s)
                /\ sess' = [sess EXCEPT ![sp] = s]
                /\ ctx' = [ctx EXCEPT ![c].sp = sp, ![c].pc = "set"]
                /\ UNCHANGED freelist
             \/ /\ ~CipherCached(c, s)
                /\ \E r \in PreparedSession(c, sp, s) :
                      /\ sess' = [sess EXCEPT ![sp] = r.s]
                      /\ IF r.result
                         THEN /\ ctx' = [ctx EXCEPT ![c].pc = "set"]
                              /\ UNCHANGED freelist
                         ELSE /\ ctx' = [ctx EXCEPT ![c] = Idle(None)]
                              /\ freelist' = Returned(sp, "OP_CIPHER")
          /\ unhandled' = (unhandled \/ s.cipher_key # cipher_key
                                     \/ (sess[sp].open /\ ~sess'[sp].open))
  BY <1>0 DEF CipherInitPrepare
<1>4. UNCHANGED <<process, last_pid, alive>>
  BY DEF CipherInitPrepare
<1>5. s.cipher_key = cipher_key /\ (sess[sp].open => sess'[sp].open)
  BY <1>3
<1>6. /\ s \in Session /\ s.pid = sess[sp].pid /\ s.op = sess[sp].op /\ s.key = sess[sp].key
      /\ s.cipher_key \in {None, s.key} /\ s.pid <= pid
      /\ s.pid = pid => s.cipher_key \in {None, ctx[c].key}
  <2>1. sess[sp] \in Session /\ Sound(sp)
    BY <1>1, <1>2
  <2>2. cipher_key \in {None, sess[sp].cipher_key}
    BY <1>0 DEF CheckNewCipherKey
  <2>3. cipher_key \in Keys \cup {None}
    BY <2>1, <2>2 DEF Session
  <2>4. s \in Session /\ s.pid = sess[sp].pid /\ s.op = sess[sp].op /\ s.key = sess[sp].key
    BY <2>1, <2>3 DEF Session
  <2>5. sess[sp].pid = pid => cipher_key \in {None, ctx[c].key}
    BY <1>0, <2>1 DEF CheckNewCipherKey, Sound
  <2> QED
    BY <1>5, <2>1, <2>2, <2>4, <2>5 DEF Sound
<1>7. Reusable(sp) /\ Holds(c) = {sp}
  BY <1>0, <1>1, <1>2, NoneDiffers DEF CtxState, Holds
<1>8. ASSUME NEW z \in Session, sess' = [sess EXCEPT ![sp] = z],
             z.pid = s.pid, z.cipher_key \in {None, z.key}, z.op \in {s.op, None}
      PROVE  /\ sess'[sp] = z /\ \A q \in SP \ {sp} : sess'[q] = sess[q]
             /\ z.pid = pid => z.open /\ z.op = None
             /\ Sound(sp)'
             /\ pid' = pid
  <2>1. sess'[sp] = z /\ \A q \in SP \ {sp} : sess'[q] = sess[q]
    BY <1>1, <1>2, <1>8 DEF VariableTypes
  <2>2. pid' = pid
    BY <1>4 DEF process
  <2>3. z.pid = pid => z.open /\ z.op = None
    BY <1>5, <1>6, <1>7, <1>8, <2>1 DEF Reusable
  <2> QED
    BY <1>6, <1>8, <2>1, <2>2, <2>3 DEF Sound
<1>9. ASSUME NEW z \in Session, sess' = [sess EXCEPT ![sp] = z],
             z.pid = s.pid, z.cipher_key \in {None, z.key}, z.op \in {s.op, None},
             z.pid = pid => z.cipher_key = ctx[c].key,
             NEW x, ctx'[c] = x, x.pc = "set", x.local = sp, x.sp \in {None, sp}, x.n = 0,
             x.key = ctx[c].key, UNCHANGED freelist
      PROVE  Work(c) /\ CtxState(c)'
  <2>1. /\ sess'[sp] = z /\ \A q \in SP \ {sp} : sess'[q] = sess[q]
        /\ z.pid = pid => z.open /\ z.op = None
        /\ Sound(sp)' /\ pid' = pid
    BY <1>8, <1>9
  <2>2. Holds(c)' = {sp}
    BY <1>9, <1>2, NoneDiffers DEF Holds
  <2>3. CtxState(c)'
    BY <1>1, <1>9, <2>1, <2>2 DEF CtxState, OwnOperation, Reusable
  <2> QED
    BY <1>4, <1>6, <1>7, <1>9, <2>1, <2>2, <2>3 DEF Work, process
<1>10. CASE /\ CipherCached(c, s)
            /\ sess' = [sess EXCEPT ![sp] = s]
            /\ ctx' = [ctx EXCEPT ![c].sp = sp, ![c].pc = "set"]
            /\ UNCHANGED freelist
  <2>1. PICK x : x = [ctx[c] EXCEPT !.sp = sp, !.pc = "set"]
    OBVIOUS
  <2>2. x.pc = "set" /\ x.local = sp /\ x.sp = sp /\ x.n = 0 /\ x.key = ctx[c].key
    BY <1>0, <1>1, <1>2, <2>1 DEF Context
  <2>3. ctx'[c] = x
    BY <1>1, <1>10, <2>1 DEF VariableTypes
  <2>4. s.pid = pid => s.cipher_key = ctx[c].key
    BY <1>6, <1>10 DEF CipherCached
  <2> QED
    BY <1>6, <1>9, <1>10, <2>2, <2>3, <2>4
<1>11. ASSUME NEW r \in PreparedSession(c, sp, s),
              /\ sess' = [sess EXCEPT ![sp] = r.s]
              /\ IF r.result
                 THEN /\ ctx' = [ctx EXCEPT ![c].pc = "set"]
                      /\ UNCHANGED freelist
                 ELSE /\ ctx' = [ctx EXCEPT ![c] = Idle(None)]
                      /\ freelist' = Returned(sp, "OP_CIPHER")
       PROVE  Work(c) /\ CtxState(c)'
  <2>1. PICK z : z = r.s
    OBVIOUS
  <2>2. /\ z \in Session /\ z.pid = s.pid /\ z.op \in {s.op, None}
        /\ r.result => z.cipher_key # None
        /\ \/ z.cipher_key = s.cipher_key /\ z.key = s.key
           \/ s.cipher_key = None /\ z.cipher_key = ctx[c].key /\ z.key = ctx[c].key
    BY <1>1, <1>6, <1>11, <2>1, PreparedIsSession
  <2>3. z.cipher_key \in {None, z.key}
    BY <1>6, <2>2
  <2>4. sess' = [sess EXCEPT ![sp] = z]
    BY <1>11, <2>1
  <2>5. CASE r.result /\ ctx' = [ctx EXCEPT ![c].pc = "set"] /\ UNCHANGED freelist
    <3>1. PICK x : x = [ctx[c] EXCEPT !.pc = "set"]
      OBVIOUS
    <3>2. x.pc = "set" /\ x.local = sp /\ x.sp = None /\ x.n = 0 /\ x.key = ctx[c].key
      BY <1>0, <1>1, <1>2, <3>1 DEF Context
    <3>3. ctx'[c] = x
      BY <1>1, <2>5, <3>1 DEF VariableTypes
    <3>4. z.pid = pid => z.cipher_key = ctx[c].key
      BY <1>6, <2>2, <2>5
    <3> QED
      BY <1>9, <2>2, <2>3, <2>4, <2>5, <3>2, <3>3, <3>4
  <2>6. CASE ctx' = [ctx EXCEPT ![c] = Idle(None)] /\ freelist' = Returned(sp, "OP_CIPHER")
    <3>1. ctx'[c] = Idle(None)
      BY <1>1, <2>6 DEF VariableTypes
    <3>2. Holds(c)' = {} /\ CtxState(c)'
      BY <1>1, <3>1, RestingState
    <3>3. /\ sess'[sp] = z /\ \A q \in SP \ {sp} : sess'[q] = sess[q]
          /\ z.pid = pid => z.open /\ z.op = None
          /\ Sound(sp)' /\ pid' = pid
      BY <1>8, <2>2, <2>3, <2>4
    <3>4. \/ sess[sp].pid # pid /\ freelist' = freelist
          \/ sess[sp].pid = pid /\ freelist' = [freelist EXCEPT !["OP_CIPHER"] = @ \cup {sp}]
      BY <1>2, <2>6, ReturnCases
    <3> QED
      BY <1>1, <1>4, <1>6, <1>7, <2>2, <3>2, <3>3, <3>4 DEF Work, process
  <2> QED
    BY <1>11, <2>5, <2>6
<1> QED
  BY <1>3, <1>10, <1>11

\* An operation begins, with the key and in the direction the context asked for.
LEMMA InitSymmetricWorks ==
    ASSUME SessionInv, Sane, ~unhandled', NEW c \in CipherCtx, InitSymmetric(c), Mine(c)
    PROVE  Work(c) /\ CtxState(c)'
<1>0. PICK sp : sp = ctx[c].local
  OBVIOUS
<1>1. /\ c \in Ctx /\ TypeInv /\ VariableTypes /\ Shape(c) /\ ctx[c] \in Context /\ CtxState(c)
      /\ \A q \in SP : Sound(q) /\ sess[q] \in Session
      /\ c \notin DigestCtx
  BY Known, Kinds
<1>2. /\ ctx[c].pc = "set" /\ sp \in SP /\ ctx[c].sp \in {None, sp} /\ ctx[c].n = 0
      /\ sess[sp].pid = pid /\ sess[sp].open /\ sess[sp].op = None
      /\ sess[sp].cipher_key = ctx[c].key
  BY <1>0, <1>1 DEF InitSymmetric, Calls, Shape, CtxState, Usable
<1>3. PICK o : o = [by |-> c, key |-> ctx[c].key, encrypt |-> ctx[c].encrypt, n |-> 0]
  OBVIOUS
<1>4. PICK z : z = [sess[sp] EXCEPT !.encrypt = ctx[c].encrypt, !.op = o]
  OBVIOUS
<1>5. sess' = [sess EXCEPT ![sp] = z]
  BY <1>0, <1>1, <1>2, <1>3, <1>4 DEF InitSymmetric, BeginOperation, VariableTypes
<1>6. sess'[sp] = z /\ \A q \in SP \ {sp} : sess'[q] = sess[q]
  BY <1>1, <1>2, <1>5 DEF VariableTypes
<1>7. /\ z.pid = sess[sp].pid /\ z.open = sess[sp].open /\ z.op = o
      /\ z.cipher_key = sess[sp].cipher_key /\ z.key = sess[sp].key
  BY <1>1, <1>2, <1>4 DEF Session
<1>8. PICK x : x = [ctx[c] EXCEPT !.pc = "ready", !.sp = sp, !.local = None]
  OBVIOUS
<1>9. ctx'[c] = x
  BY <1>0, <1>1, <1>8 DEF InitSymmetric, VariableTypes
<1>10. /\ x.pc = "ready" /\ x.sp = sp /\ x.local = None /\ x.key = ctx[c].key
       /\ x.encrypt = ctx[c].encrypt /\ x.n = 0
  BY <1>1, <1>2, <1>8 DEF Context
<1>11. UNCHANGED <<process, pool>>
  BY DEF InitSymmetric
<1>12. Holds(c) = {sp} /\ Holds(c)' = {sp}
  BY <1>0, <1>2, <1>9, <1>10, NoneDiffers DEF Holds
<1>13. OwnOperation(c)'
  BY <1>3, <1>6, <1>7, <1>9, <1>10 DEF OwnOperation
<1>14. CtxState(c)'
  BY <1>1, <1>2, <1>6, <1>7, <1>9, <1>10, <1>12, <1>13 DEF CtxState
<1>15. Sound(sp)'
  BY <1>1, <1>2, <1>6, <1>7, <1>11 DEF Sound, process
<1> QED
  BY <1>6, <1>7, <1>11, <1>12, <1>14, <1>15 DEF Work, process, pool

\* It fails: the session goes back, and state->sp is left at a session of another
\* process or at none.
LEMMA InitSymmetricFailsWorks ==
    ASSUME SessionInv, Sane, ~unhandled', NEW c \in CipherCtx, InitSymmetricFails(c), Mine(c)
    PROVE  Work(c) /\ CtxState(c)'
<1>0. PICK sp : sp = ctx[c].local
  OBVIOUS
<1>1. /\ c \in Ctx /\ TypeInv /\ VariableTypes /\ Shape(c) /\ ctx[c] \in Context /\ CtxState(c)
      /\ \A q \in SP : Sound(q) /\ sess[q] \in Session
      /\ OpType(c) = "OP_CIPHER"
  BY Known, Kinds
<1>2. /\ ctx[c].pc = "set" /\ sp \in SP /\ ctx[c].sp \in {None, sp} /\ Reusable(sp)
  BY <1>0, <1>1 DEF InitSymmetricFails, Calls, Shape, CtxState
<1>3. /\ ~Usable(sp) \/ sess[sp].op # None \/ ctx[c].sp = None
      /\ freelist' = Returned(sp, "OP_CIPHER")
      /\ ctx' = [ctx EXCEPT ![c] = Idle(ctx[c].sp)]
      /\ UNCHANGED <<process, last_pid, alive, sess>>
  BY <1>0 DEF InitSymmetricFails, Unhandled
<1>4. Holds(c) = {sp}
  BY <1>0, <1>2, NoneDiffers DEF Holds
<1>5. \A q \in SP : Sound(q)'
  BY <1>1, <1>3 DEF Sound, process
<1>6. ctx'[c] = Idle(ctx[c].sp)
  BY <1>1, <1>3 DEF VariableTypes
<1>7. CASE ctx[c].sp = None
  <2>1. Holds(c)' = {} /\ CtxState(c)'
    BY <1>1, <1>6, <1>7, RestingState
  <2>2. \/ freelist' = freelist
        \/ sess[sp].pid = pid /\ freelist' = [freelist EXCEPT !["OP_CIPHER"] = @ \cup {sp}]
    BY <1>2, <1>3, ReturnCases
  <2> QED
    BY <1>1, <1>2, <1>3, <1>4, <1>5, <2>1, <2>2 DEF Work, process, Reusable
<1>8. CASE ctx[c].sp = sp /\ ctx[c].sp # None
  <2>1. sess[sp].pid # pid
    BY <1>2, <1>3, <1>8 DEF Reusable, Usable
  <2>2. freelist' = freelist
    BY <1>2, <1>3, <2>1, ReturnCases
  <2>3. ctx'[c] = Idle(sp) /\ sess'[sp].pid # pid'
    BY <1>3, <1>6, <1>8, <2>1 DEF process
  <2>4. Holds(c)' = {sp} /\ CtxState(c)'
    BY <1>1, <1>2, <2>3, KeepingState
  <2> QED
    BY <1>2, <1>3, <1>4, <1>5, <2>2, <2>4 DEF Work, process
<1> QED
  BY <1>2, <1>7, <1>8

\* One more block, through the operation of this context.
LEMMA AdvanceWorks ==
    ASSUME SessionInv, Sane, NEW c \in CipherCtx \cup DigestCtx, ctx[c].pc = "ready",
           CanUpdate(c), Advance(c), \A d \in Ctx : ctx[d].from # c, Mine(c),
           UNCHANGED <<process, pool>>
    PROVE  Work(c) /\ CtxState(c)'
<1>0. PICK sp : sp = ctx[c].sp
  OBVIOUS
<1>1. /\ c \in Ctx /\ TypeInv /\ VariableTypes /\ Shape(c) /\ ctx[c] \in Context /\ CtxState(c)
      /\ \A q \in SP : Sound(q) /\ sess[q] \in Session
  BY Known, Kinds
<1>2. /\ sp \in SP /\ ctx[c].local = None /\ sess[sp].pid = pid /\ sess[sp].open
      /\ sess[sp].op # None
  BY <1>0, <1>1 DEF Shape, CanUpdate, Usable
<1>3. sess[sp].op = [by |-> c, key |-> ctx[c].key, encrypt |-> ctx[c].encrypt, n |-> ctx[c].n]
  BY <1>0, <1>1, <1>2 DEF CtxState, OwnOperation
<1>4. PICK o : o = [sess[sp].op EXCEPT !.n = (@ + 1) % Blocks]
  OBVIOUS
<1>5. PICK x : x = [ctx[c] EXCEPT !.n = (@ + 1) % Blocks]
  OBVIOUS
<1>6. /\ \A q \in SP \ {sp} : sess'[q] = sess[q]
      /\ sess'[sp] = [sess[sp] EXCEPT !.op = o]
      /\ ctx'[c] = x
  BY <1>0, <1>1, <1>2, <1>4, <1>5, AdvanceTypes
<1>7. /\ x.pc = "ready" /\ x.sp = sp /\ x.local = None /\ x.key = ctx[c].key
      /\ x.encrypt = ctx[c].encrypt /\ x.n = (ctx[c].n + 1) % Blocks
  BY <1>0, <1>1, <1>2, <1>5 DEF Context
<1>8. o = [by |-> c, key |-> ctx[c].key, encrypt |-> ctx[c].encrypt,
           n |-> (ctx[c].n + 1) % Blocks]
  BY <1>3, <1>4
<1>9. /\ sess'[sp].op = o /\ sess'[sp].pid = sess[sp].pid /\ sess'[sp].open = sess[sp].open
      /\ sess'[sp].cipher_key = sess[sp].cipher_key /\ sess'[sp].key = sess[sp].key
  BY <1>1, <1>2, <1>6 DEF Session
<1>10. Holds(c) = {sp} /\ Holds(c)' = {sp}
  BY <1>0, <1>2, <1>6, <1>7, NoneDiffers DEF Holds
<1>11. OwnOperation(c)'
  BY <1>6, <1>7, <1>8, <1>9 DEF OwnOperation
<1>12. CtxState(c)'
  BY <1>1, <1>2, <1>6, <1>7, <1>9, <1>10, <1>11 DEF CtxState
<1>13. Sound(sp)'
  BY <1>1, <1>2, <1>9 DEF Sound, process
<1> QED
  BY <1>6, <1>9, <1>10, <1>12, <1>13 DEF Work, process, pool

\* The operation of a session ends and the session goes back.
LEMMA EndWorks ==
    ASSUME SessionInv, Sane, NEW c \in CipherCtx \cup DigestCtx, NEW sp \in SP,
           sp = ctx[c].sp, ctx[c].pc \in {"idle", "ready"}, Mine(c),
           sess' = [sess EXCEPT ![sp].op = IF Usable(sp) THEN None ELSE @],
           \/ ctx'[c] \in {BlankContext, Idle(None)}
           \/ ctx'[c] = Idle(sp) /\ c \in DigestCtx /\ freelist' = freelist
           \/ ctx'[c] = Idle(sp) /\ sess[sp].pid # pid,
           freelist' \in {freelist, Returned(sp, OpType(c))},
           UNCHANGED <<process, last_pid, alive>>
    PROVE  Work(c) /\ CtxState(c)'
<1>1. /\ c \in Ctx /\ TypeInv /\ VariableTypes /\ Shape(c) /\ ctx[c] \in Context /\ CtxState(c)
      /\ \A q \in SP : Sound(q) /\ sess[q] \in Session
      /\ c \in DigestCtx => c \notin CipherCtx
  BY Known, Kinds
<1>2. Holds(c) = {sp}
  BY <1>1, NoneDiffers DEF Holds, Shape
<1>3. /\ \A q \in SP \ {sp} : sess'[q] = sess[q]
      /\ sess'[sp].op = IF Usable(sp) THEN None ELSE sess[sp].op
      /\ sess'[sp].pid = sess[sp].pid /\ sess'[sp].open = sess[sp].open
      /\ sess'[sp].cipher_key = sess[sp].cipher_key /\ sess'[sp].key = sess[sp].key
  BY <1>1, EndOperation
<1>4. sess[sp].pid = pid => sess'[sp].open /\ sess'[sp].op = None
  BY <1>1, <1>2, <1>3 DEF CtxState, Usable
<1>5. Sound(sp)' /\ pid' = pid /\ alive' = alive
      /\ pk11_library_initialized' = pk11_library_initialized
  BY <1>1, <1>3 DEF Sound, process
<1>6. \/ freelist' = freelist
      \/ sess[sp].pid = pid /\ freelist' = [freelist EXCEPT ![OpType(c)] = @ \cup {sp}]
  BY ReturnCases
<1>7. CASE ctx'[c] \in {BlankContext, Idle(None)}
  <2>1. Holds(c)' = {} /\ CtxState(c)'
    BY <1>1, <1>7, RestingState
  <2> QED
    BY <1>2, <1>3, <1>4, <1>5, <1>6, <2>1 DEF Work
<1>8. CASE ctx'[c] = Idle(sp) /\ freelist' = freelist /\ (c \in DigestCtx \/ sess[sp].pid # pid)
  <2>1. /\ sess'[sp].pid = pid' => sess'[sp].open
        /\ c \in CipherCtx => sess'[sp].pid # pid'
    BY <1>1, <1>3, <1>4, <1>5, <1>8
  <2>2. Holds(c)' = {sp} /\ CtxState(c)'
    BY <1>1, <1>8, <2>1, KeepingState
  <2> QED
    BY <1>2, <1>3, <1>5, <1>8, <2>2 DEF Work
<1> QED
  BY <1>6, <1>7, <1>8

\* A cipher is cleaned up.
LEMMA CipherCleanupWorks ==
    ASSUME SessionInv, Sane, ~unhandled', NEW c \in CipherCtx, CipherCleanup(c), Mine(c)
    PROVE  Work(c) /\ CtxState(c)'
<1>0. PICK sp : sp = ctx[c].sp
  OBVIOUS
<1>1. /\ c \in Ctx /\ TypeInv /\ VariableTypes /\ Shape(c) /\ ctx[c] \in Context /\ CtxState(c)
      /\ OpType(c) = "OP_CIPHER"
  BY Known, Kinds
<1>2. sp \in SP /\ ctx[c].pc \in {"idle", "ready"}
  BY <1>0, <1>1 DEF CipherCleanup, Calls, Context
<1>3. /\ \/ ctx' = [ctx EXCEPT ![c] = BlankContext]
         \/ ctx' = [ctx EXCEPT ![c] = Idle(sp)] /\ ~FinalSucceeds(sp)
      /\ sess' = [sess EXCEPT ![sp].op = IF Usable(sp) THEN None ELSE @]
      /\ freelist' = Returned(sp, "OP_CIPHER")
      /\ UNCHANGED <<process, last_pid, alive>>
  BY <1>0 DEF CipherCleanup, Unhandled
<1>4. ~FinalSucceeds(sp) => sess[sp].pid # pid
  <2>1. Holds(c) = {sp}
    BY <1>0, <1>1, <1>2, NoneDiffers DEF Holds, Shape
  <2>2. CASE ctx[c].pc = "ready"
    <3> SUFFICES ASSUME sess[sp].pid = pid PROVE FinalSucceeds(sp)
      OBVIOUS
    <3>1. PICK o : o = [by |-> c, key |-> ctx[c].key, encrypt |-> ctx[c].encrypt,
                        n |-> ctx[c].n]
      OBVIOUS
    <3>2. o \in Operation
      BY <1>1, <3>1 DEF Operation, Context
    <3>3. sess[sp].op = o /\ sess[sp].open
      BY <1>0, <1>1, <2>1, <2>2, <3>1 DEF CtxState, OwnOperation
    <3> QED
      BY <3>2, <3>3, NoneIsNoOperation DEF FinalSucceeds, Usable
  <2>3. CASE ctx[c].pc = "idle"
    BY <1>0, <1>1, <1>2, <2>3, NoneDiffers DEF CtxState
  <2> QED
    BY <1>2, <2>2, <2>3
<1>5. ctx'[c] \in {BlankContext, Idle(None)} \/ (ctx'[c] = Idle(sp) /\ sess[sp].pid # pid)
  BY <1>1, <1>3, <1>4 DEF VariableTypes
<1> QED
  BY <1>0, <1>1, <1>2, <1>3, <1>5, EndWorks

\* A digest gets its operation, or gives the session back.
LEMMA DigestInitBeginWorks ==
    ASSUME SessionInv, Sane, NEW c \in DigestCtx, DigestInitBegin(c), Mine(c)
    PROVE  Work(c) /\ CtxState(c)'
<1>0. PICK sp : sp = ctx[c].local
  OBVIOUS
<1>1. /\ c \in Ctx /\ TypeInv /\ VariableTypes /\ Shape(c) /\ ctx[c] \in Context /\ CtxState(c)
      /\ \A q \in SP : Sound(q) /\ sess[q] \in Session
      /\ OpType(c) = "OP_DIGEST" /\ c \notin CipherCtx
  BY Known, Kinds
<1>2. /\ ctx[c].pc = "got" /\ sp \in SP /\ ctx[c].sp = None /\ Reusable(sp)
      /\ ctx[c].key = None /\ ctx[c].encrypt = FALSE /\ (ctx[c].from = None => ctx[c].n = 0)
  BY <1>0, <1>1 DEF DigestInitBegin, Shape, CtxState
<1>3. Holds(c) = {sp}
  BY <1>0, <1>2, NoneDiffers DEF Holds
<1>4. UNCHANGED <<process, last_pid, alive, unhandled>>
  BY DEF DigestInitBegin
<1>5. CASE /\ Usable(sp)
           /\ sess' = [sess EXCEPT ![sp].op = [by |-> c, key |-> None, encrypt |-> FALSE,
                                              n |-> 0]]
           /\ ctx' = [ctx EXCEPT ![c].sp = sp, ![c].local = None,
                                ![c].pc = IF ctx[c].from = None THEN "ready" ELSE "set"]
           /\ UNCHANGED freelist
  <2>1. PICK o : o = [by |-> c, key |-> None, encrypt |-> FALSE, n |-> 0]
    OBVIOUS
  <2>2. o \in Operation
    BY <1>1, <2>1 DEF Operation, Blocks
  <2>3. /\ \A q \in SP \ {sp} : sess'[q] = sess[q]
        /\ sess'[sp].op = o
        /\ sess'[sp].pid = sess[sp].pid /\ sess'[sp].open = sess[sp].open
        /\ sess'[sp].cipher_key = sess[sp].cipher_key /\ sess'[sp].key = sess[sp].key
    <3>1. sess' = [sess EXCEPT ![sp].op = o]
      BY <1>5, <2>1
    <3> QED
      BY <1>1, <1>2, <2>2, <3>1, SetOperation
  <2>4. PICK x : x = [ctx[c] EXCEPT !.sp = sp, !.local = None,
                                    !.pc = IF ctx[c].from = None THEN "ready" ELSE "set"]
    OBVIOUS
  <2>5. ctx'[c] = x
    BY <1>1, <1>5, <2>4 DEF VariableTypes
  <2>6. /\ x.sp = sp /\ x.local = None
        /\ x.pc = IF ctx[c].from = None THEN "ready" ELSE "set"
        /\ x.from = ctx[c].from /\ x.n = ctx[c].n /\ x.key = None /\ x.encrypt = FALSE
    BY <1>1, <1>2, <2>4 DEF Context
  <2>7. Holds(c)' = {sp}
    BY <1>2, <2>5, <2>6, NoneDiffers DEF Holds
  <2>8. OwnOperation(c)'
    BY <1>2, <2>1, <2>3, <2>5, <2>6 DEF OwnOperation
  <2>9. sess'[sp].open
    BY <1>5, <2>3 DEF Usable
  <2>10. CtxState(c)'
    BY <1>1, <2>1, <2>3, <2>5, <2>6, <2>7, <2>8, <2>9 DEF CtxState
  <2>11. Sound(sp)'
    BY <1>1, <1>2, <1>4, <2>3 DEF Sound, process
  <2> QED
    BY <1>3, <1>4, <1>5, <2>3, <2>7, <2>10, <2>11 DEF Work, process
<1>6. CASE /\ ctx' = [ctx EXCEPT ![c] = Idle(None)]
           /\ freelist' = Returned(sp, "OP_DIGEST")
           /\ UNCHANGED sess
  <2>1. ctx'[c] = Idle(None)
    BY <1>1, <1>6 DEF VariableTypes
  <2>2. Holds(c)' = {} /\ CtxState(c)'
    BY <1>1, <2>1, RestingState
  <2>3. \/ freelist' = freelist
        \/ sess[sp].pid = pid /\ freelist' = [freelist EXCEPT !["OP_DIGEST"] = @ \cup {sp}]
    BY <1>2, <1>6, ReturnCases
  <2>4. \A q \in SP : Sound(q)'
    BY <1>1, <1>4, <1>6 DEF Sound, process
  <2> QED
    BY <1>1, <1>2, <1>3, <1>4, <1>6, <2>2, <2>3, <2>4 DEF Work, process, Reusable
<1> QED
  BY <1>0, <1>5, <1>6 DEF DigestInitBegin

\* A copy: the operation of the original has seen what the copied context counts.
LEMMA DigestCopyStateWorks ==
    ASSUME SessionInv, Sane, NEW c \in DigestCtx, DigestCopyState(c), Mine(c)
    PROVE  Work(c) /\ CtxState(c)'
<1>0. PICK sp, from : sp = ctx[c].sp /\ from = ctx[c].from
  OBVIOUS
<1>1. /\ c \in Ctx /\ TypeInv /\ VariableTypes /\ Shape(c) /\ ctx[c] \in Context /\ CtxState(c)
      /\ \A q \in SP : Sound(q) /\ sess[q] \in Session
      /\ c \notin CipherCtx /\ Copying(c)
  BY Known, Kinds DEF TypeInv
<1>2. /\ ctx[c].pc = "set" /\ sp \in SP /\ ctx[c].local = None /\ from # None
      /\ ctx[c].key = None /\ ctx[c].encrypt = FALSE
  BY <1>0, <1>1 DEF DigestCopyState, Shape, CtxState
<1>3. Holds(c) = {sp}
  BY <1>0, <1>2, NoneDiffers DEF Holds
<1>4. UNCHANGED <<process, pool, unhandled>>
  BY DEF DigestCopyState
<1>5. sess[sp].pid = pid => sess[sp].open
  BY <1>1, <1>3 DEF CtxState
<1>6. CASE /\ CanUpdate(from)
           /\ sess' = [sess EXCEPT ![sp].op = [sess[ctx[from].sp].op EXCEPT !.by = c]]
           /\ ctx' = [ctx EXCEPT ![c].pc = "ready", ![c].from = None]
  <2>1. from \in DigestCtx /\ ctx[from].pc = "ready" /\ ctx[c].n = ctx[from].n
    BY <1>0, <1>1, <1>2 DEF Copying, Context
  <2>2. CtxState(from)
    BY <2>1, Known, Kinds
  <2>3. sess[ctx[from].sp].op = [by |-> from, key |-> None, encrypt |-> FALSE, n |-> ctx[c].n]
    BY <1>6, <2>1, <2>2 DEF CtxState, OwnOperation, CanUpdate, Usable
  <2>4. PICK o : o = [by |-> c, key |-> None, encrypt |-> FALSE, n |-> ctx[c].n]
    OBVIOUS
  <2>5. o \in Operation
    BY <1>1, <2>4 DEF Operation, Context
  <2>6. sess' = [sess EXCEPT ![sp].op = o]
    <3>1. [sess[ctx[from].sp].op EXCEPT !.by = c] = o
      <4>1. [sess[ctx[from].sp].op EXCEPT !.by = c]
               = [[by |-> from, key |-> None, encrypt |-> FALSE, n |-> ctx[c].n] EXCEPT !.by = c]
        BY <2>3, Zenon
      <4>2. [[by |-> from, key |-> None, encrypt |-> FALSE, n |-> ctx[c].n] EXCEPT !.by = c]
               = [by |-> c, key |-> None, encrypt |-> FALSE, n |-> ctx[c].n]
        <5>1. PICK e, m : e = FALSE /\ m = ctx[c].n
          OBVIOUS
        <5>2. [[by |-> from, key |-> None, encrypt |-> e, n |-> m] EXCEPT !.by = c]
                 = [by |-> c, key |-> None, encrypt |-> e, n |-> m]
          OBVIOUS
        <5> QED
          BY <5>1, <5>2, Zenon
      <4> QED
        BY <2>4, <4>1, <4>2, Zenon
    <3> QED
      BY <1>6, <3>1
  <2>7. /\ \A q \in SP \ {sp} : sess'[q] = sess[q]
        /\ sess'[sp].op = o
        /\ sess'[sp].pid = sess[sp].pid /\ sess'[sp].open = sess[sp].open
        /\ sess'[sp].cipher_key = sess[sp].cipher_key /\ sess'[sp].key = sess[sp].key
    BY <1>1, <1>2, <2>5, <2>6, SetOperation
  <2>8. PICK x : x = [ctx[c] EXCEPT !.pc = "ready", !.from = None]
    OBVIOUS
  <2>9. ctx'[c] = x
    BY <1>1, <1>6, <2>8 DEF VariableTypes
  <2>10. /\ x.pc = "ready" /\ x.sp = sp /\ x.local = None /\ x.n = ctx[c].n
         /\ x.key = None /\ x.encrypt = FALSE
    BY <1>0, <1>1, <1>2, <2>8 DEF Context
  <2>11. Holds(c)' = {sp}
    BY <1>2, <2>9, <2>10, NoneDiffers DEF Holds
  <2>12. OwnOperation(c)'
    BY <2>4, <2>7, <2>9, <2>10 DEF OwnOperation
  <2>13. CtxState(c)'
    BY <1>1, <1>4, <1>5, <2>7, <2>9, <2>10, <2>11, <2>12 DEF CtxState, process
  <2>14. Sound(sp)'
    BY <1>1, <1>2, <1>4, <2>7 DEF Sound, process
  <2> QED
    BY <1>3, <1>4, <2>7, <2>11, <2>13, <2>14 DEF Work, process, pool
<1>7. CASE ctx' = [ctx EXCEPT ![c] = Idle(sp)] /\ UNCHANGED sess
  <2>1. ctx'[c] = Idle(sp)
    BY <1>1, <1>7 DEF VariableTypes
  <2>2. (sess'[sp].pid = pid' => sess'[sp].open) /\ c \notin CipherCtx
    BY <1>1, <1>4, <1>5, <1>7 DEF process
  <2>3. Holds(c)' = {sp} /\ CtxState(c)'
    BY <1>1, <1>2, <2>1, <2>2, KeepingState
  <2>4. \A q \in SP : Sound(q)'
    BY <1>1, <1>4, <1>7 DEF Sound, process
  <2> QED
    BY <1>2, <1>3, <1>4, <1>7, <2>3, <2>4 DEF Work, process, pool
<1> QED
  BY <1>0, <1>6, <1>7 DEF DigestCopyState

\* Data goes into a digest.
LEMMA DigestUpdateWorks ==
    ASSUME SessionInv, Sane, NEW c \in DigestCtx, DigestUpdate(c), Mine(c)
    PROVE  Work(c) /\ CtxState(c)'
<1>0. PICK sp : sp = ctx[c].sp
  OBVIOUS
<1>1. /\ c \in Ctx /\ TypeInv /\ VariableTypes /\ Shape(c) /\ OpType(c) = "OP_DIGEST"
  BY Known, Kinds
<1>2. ctx[c].pc = "ready" /\ sp \in SP
  BY <1>0, <1>1 DEF DigestUpdate, Calls, Shape
<1>3. UNCHANGED <<process, last_pid, alive, unhandled>>
  BY DEF DigestUpdate
<1>4. CASE CanUpdate(c) /\ Advance(c) /\ UNCHANGED freelist
  BY <1>1, <1>2, <1>3, <1>4, AdvanceWorks DEF Mine, pool
<1>5. CASE /\ sess' = [sess EXCEPT ![sp].op = IF Usable(sp) THEN None ELSE @]
           /\ ctx' = [ctx EXCEPT ![c] = Idle(None)]
           /\ freelist' = Returned(sp, "OP_DIGEST")
  <2>1. ctx'[c] \in {BlankContext, Idle(None)}
    BY <1>1, <1>5 DEF VariableTypes
  <2> QED
    BY <1>0, <1>1, <1>2, <1>3, <1>5, <2>1, EndWorks
<1> QED
  BY <1>0, <1>4, <1>5 DEF DigestUpdate

\* A digest ends.
LEMMA DigestEndWorks ==
    ASSUME SessionInv, Sane, NEW c \in DigestCtx, DigestFinal(c) \/ DigestCleanup(c), Mine(c)
    PROVE  Work(c) /\ CtxState(c)'
<1>0. PICK sp : sp = ctx[c].sp
  OBVIOUS
<1>1. /\ c \in Ctx /\ TypeInv /\ VariableTypes /\ Shape(c) /\ OpType(c) = "OP_DIGEST"
      /\ ctx[c] \in Context
  BY Known, Kinds
<1>2. sp \in SP /\ ctx[c].pc \in {"idle", "ready"}
  BY <1>0, <1>1 DEF DigestFinal, DigestCleanup, Calls, Shape, Context
<1>3. PICK after \in {BlankContext, Idle(None), Idle(sp)} : DigestFinalOf(c, after)
  BY <1>0, <1>1, DigestEnds
<1>4. /\ sess' = [sess EXCEPT ![sp].op = IF Usable(sp) THEN None ELSE @]
      /\ ctx' = [ctx EXCEPT ![c] = after]
      /\ \/ freelist' = Returned(sp, "OP_DIGEST") /\ after.sp = None
         \/ freelist' = freelist
      /\ UNCHANGED <<process, last_pid, alive, unhandled>>
  BY <1>0, <1>3 DEF DigestFinalOf
<1>5. ctx'[c] = after
  BY <1>1, <1>4 DEF VariableTypes
<1>6. CASE after \in {BlankContext, Idle(None)}
  BY <1>0, <1>1, <1>2, <1>4, <1>5, <1>6, EndWorks
<1>7. CASE after = Idle(sp)
  <2>1. after.sp # None
    <3>1. sp \in SP \cup {None}
      BY <1>2
    <3>2. Idle(sp).sp = sp
      BY <3>1, IdleIsContext
    <3> QED
      BY <1>2, <1>7, <3>2, NoneDiffers
  <2>2. freelist' = freelist
    BY <1>4, <2>1
  <2> QED
    BY <1>0, <1>1, <1>2, <1>4, <1>5, <1>7, <2>2, EndWorks
<1> QED
  BY <1>3, <1>6, <1>7

\* Random bytes are given and the session returned.
LEMMA RandReturnWorks ==
    ASSUME SessionInv, Sane, NEW c \in RandUsers, RandReturn(c), Mine(c)
    PROVE  Work(c) /\ CtxState(c)'
<1>0. PICK sp : sp = ctx[c].local
  OBVIOUS
<1>1. /\ c \in Ctx /\ TypeInv /\ VariableTypes /\ Shape(c) /\ ctx[c] \in Context /\ CtxState(c)
      /\ \A q \in SP : Sound(q) /\ sess[q] \in Session
      /\ OpType(c) = "OP_RAND"
  BY Known, Kinds
<1>2. /\ ctx[c].pc = "got" /\ sp \in SP /\ ctx[c].sp = None /\ Reusable(sp)
  BY <1>0, <1>1 DEF RandReturn, Calls, Shape, CtxState
<1>3. Holds(c) = {sp}
  BY <1>0, <1>2, NoneDiffers DEF Holds
<1>4. /\ freelist' = Returned(sp, "OP_RAND")
      /\ ctx' = [ctx EXCEPT ![c] = BlankContext]
      /\ UNCHANGED <<process, last_pid, alive, sess, unhandled>>
  BY <1>0 DEF RandReturn
<1>5. ctx'[c] = BlankContext
  BY <1>1, <1>4 DEF VariableTypes
<1>6. Holds(c)' = {} /\ CtxState(c)'
  BY <1>1, <1>5, RestingState
<1>7. \/ freelist' = freelist
      \/ sess[sp].pid = pid /\ freelist' = [freelist EXCEPT !["OP_RAND"] = @ \cup {sp}]
  BY <1>2, <1>4, ReturnCases
<1>8. \A q \in SP : Sound(q)'
  BY <1>1, <1>4 DEF Sound, process
<1> QED
  BY <1>1, <1>2, <1>3, <1>4, <1>6, <1>7, <1>8 DEF Work, process, Reusable

\* A context without a session is cleaned up, or made a copy of one that has none.
LEMMA NothingWorks ==
    ASSUME SessionInv, Sane, NEW c \in Ctx, ctx[c].sp = None, ctx[c].local = None, Mine(c),
           ctx'[c] \in {BlankContext, Idle(None)},
           UNCHANGED <<process, pool, sess, unhandled>>
    PROVE  Work(c) /\ CtxState(c)'
<1>1. \A q \in SP : Sound(q)
  BY Known
<1>2. Holds(c) = {}
  BY DEF Holds
<1>3. Holds(c)' = {} /\ CtxState(c)'
  BY RestingState
<1> QED
  BY <1>1, <1>2, <1>3 DEF Work, process, pool

(***************************************************************************)
(* The invariant                                                           *)
(***************************************************************************)
\* An error that was not handled is not forgotten.
LEMMA UnhandledStays ==
    ASSUME TypeInv, [Next]_vars, ~unhandled'
    PROVE  ~unhandled
<1>1. ASSUME NEW t, NEW sp, pk11_get_session(t, sp) PROVE ~unhandled
  BY <1>1 DEF pk11_get_session, GetFromList, GetNew, GetForked, GetReinitialized, GetForkedNoSlot,
              GetFails, GetNewFails, GetForkedFails, InitLibraryFailsLate, Unhandled
<1>2. ASSUME NEW c \in Ctx, StepOf(c) PROVE ~unhandled
  <2>1. CASE CipherStep(c)
    BY <1>1, <2>1 DEF CipherStep, CipherInitGet, CipherInitPrepare, InitSymmetric,
                      InitSymmetricFails, DoCipher, CipherCleanup, Unhandled
  <2>2. CASE DigestStep(c)
    BY <1>1, <2>2 DEF DigestStep, DigestInitGet, DigestInitBegin, DigestUpdate, DigestCopyGet,
                      DigestCopyState, DigestFinal, DigestCleanup, DigestFinalOf
  <2>3. CASE CleanupNothing(c) \/ RandGet(c) \/ RandReturn(c)
    BY <1>1, <2>3 DEF CleanupNothing, RandGet, RandReturn
  <2> QED
    BY <1>2, <2>1, <2>2, <2>3 DEF StepOf
<1>3. CASE Fork \/ pk11_finish \/ pk11_library_init \/ UNCHANGED vars
  BY <1>3 DEF Fork, pk11_finish, pk11_library_init, InitLibraryFailsLate, vars, Unhandled
<1> QED
  BY <1>2, <1>3, NextCases

\* A call for a session leaves an initialised library, or an error it does not handle.
LEMMA GetInitialises ==
    ASSUME NEW t, NEW sp, pk11_get_session(t, sp), pk11_library_initialized
    PROVE  pk11_library_initialized' \/ unhandled'
BY DEF pk11_get_session, GetFromList, GetNew, GetReinitialized, GetForked, GetForkedNoSlot,
       GetFails, GetNewFails, InitLibrary, InitLibraryFailsLate, Unhandled, library

\* Only an initialised library is called, and stays so unless an error is unhandled.
LEMMA StepOfInitialised ==
    ASSUME NEW c \in Ctx, StepOf(c)
    PROVE  /\ pk11_library_initialized /\ pid' = pid
           /\ pk11_library_initialized' \/ unhandled'
<1> DEFINE Goal == /\ pk11_library_initialized /\ pid' = pid
                   /\ pk11_library_initialized' \/ unhandled'
<1>1. ASSUME process' = process, pk11_library_initialized PROVE Goal
  <2>1. pk11_library_initialized' = pk11_library_initialized /\ pid' = pid
    BY <1>1 DEF process
  <2> QED  BY <1>1, <2>1
<1>2. ASSUME NEW t, NEW sp, pk11_get_session(t, sp), pid' = pid, pk11_library_initialized
      PROVE  Goal
  BY <1>2, GetInitialises
<1>3. CASE CipherInitGet(c)
  <2>1. PICK sp \in SP \cup {None} : pk11_get_session("OP_CIPHER", sp)
    BY <1>3 DEF CipherInitGet
  <2>2. pid' = pid /\ pk11_library_initialized
    BY <1>3 DEF CipherInitGet, Calls
  <2> QED  BY <1>2, <2>1, <2>2
<1>4. CASE DigestInitGet(c)
  <2>1. PICK sp \in SP \cup {None} : pk11_get_session("OP_DIGEST", sp)
    BY <1>4 DEF DigestInitGet
  <2>2. pid' = pid /\ pk11_library_initialized
    BY <1>4 DEF DigestInitGet, Calls
  <2> QED  BY <1>2, <2>1, <2>2
<1>5. CASE RandGet(c)
  <2>1. PICK sp \in SP \cup {None} : pk11_get_session("OP_RAND", sp)
    BY <1>5 DEF RandGet
  <2>2. pid' = pid /\ pk11_library_initialized
    BY <1>5 DEF RandGet, Calls
  <2> QED  BY <1>2, <2>1, <2>2
<1>6. CASE \E d \in DigestCtx \ {c} : DigestCopyGet(c, d)
  <2> PICK d \in DigestCtx \ {c} : DigestCopyGet(c, d)
    BY <1>6
  <2>1. pk11_library_initialized /\ UNCHANGED <<users, pid, restarts>>
    BY DEF DigestCopyGet, Calls
  <2>2. CASE UNCHANGED library
    BY <1>1, <2>1, <2>2 DEF library, process
  <2>3. CASE \E sp \in SP \cup {None} : pk11_get_session("OP_DIGEST", sp)
    <3>1. PICK sp \in SP \cup {None} : pk11_get_session("OP_DIGEST", sp)
      BY <2>3
    <3> QED  BY <1>2, <2>1, <3>1
  <2> QED
    BY <2>2, <2>3 DEF DigestCopyGet
<1>7. CASE \/ CipherInitPrepare(c) \/ InitSymmetric(c) \/ InitSymmetricFails(c)
           \/ DoCipher(c) \/ CipherCleanup(c) \/ CleanupNothing(c) \/ RandReturn(c)
  <2>1. process' = process
    BY <1>7 DEF CipherInitPrepare, InitSymmetric, InitSymmetricFails, DoCipher, CipherCleanup,
                CleanupNothing, RandReturn
  <2>2. pk11_library_initialized
    BY <1>7 DEF CipherInitPrepare, InitSymmetric, InitSymmetricFails, DoCipher, CipherCleanup,
                CleanupNothing, RandReturn, Calls
  <2> QED  BY <1>1, <2>1, <2>2
<1>8. CASE \/ DigestInitBegin(c) \/ DigestUpdate(c) \/ DigestCopyState(c) \/ DigestFinal(c)
           \/ DigestCleanup(c)
  <2>1. process' = process
    BY <1>8 DEF DigestInitBegin, DigestUpdate, DigestCopyState, DigestFinal, DigestCleanup,
                DigestFinalOf
  <2>2. pk11_library_initialized
    BY <1>8 DEF DigestInitBegin, DigestUpdate, DigestCopyState, DigestFinal, DigestCleanup, Calls
  <2> QED  BY <1>1, <2>1, <2>2
<1> QED
  BY <1>3, <1>4, <1>5, <1>6, <1>7, <1>8 DEF StepOf, CipherStep, DigestStep, Goal

\* A step of a context keeps what is known of sessions and pools.
LEMMA StepKeeps ==
    ASSUME SessionInv, Sane, ~unhandled', TypeInv', NEW c \in Ctx, StepOf(c)
    PROVE  Held' /\ Pooled'
<1>1. TypeInv /\ Shape(c)
  BY Known
<1>2. Mine(c)
  BY <1>1, StepTypes
<1>3. pid' = pid
  BY StepOfInitialised
<1>4. SUFFICES (Held' /\ Pooled') \/ (Work(c) /\ CtxState(c)')
  BY WorkKeeps
<1>5. CASE c \in CipherCtx /\ CipherStep(c)
  <2>1. CASE CipherInitGet(c)
    BY <1>1, <1>2, <1>3, <1>5, <2>1, CipherInitGetTypes, GetStep
  <2>2. CASE CipherInitPrepare(c)
    BY <1>2, <1>5, <2>2, CipherInitPrepareWorks
  <2>3. CASE InitSymmetric(c)
    BY <1>2, <1>5, <2>3, InitSymmetricWorks
  <2>4. CASE InitSymmetricFails(c)
    BY <1>2, <1>5, <2>4, InitSymmetricFailsWorks
  <2>5. CASE DoCipher(c)
    <3>1. /\ ctx[c].pc = "ready" /\ CanUpdate(c) /\ Advance(c)
          /\ UNCHANGED <<process, pool>>
      BY <2>5 DEF DoCipher, Calls, Unhandled
    <3>2. \A d \in Ctx : ctx[d].from # c
      BY <1>2 DEF Mine
    <3> QED
      BY <1>2, <1>5, <3>1, <3>2, AdvanceWorks
  <2>6. CASE CipherCleanup(c)
    BY <1>2, <1>5, <2>6, CipherCleanupWorks
  <2> QED
    BY <1>5, <2>1, <2>2, <2>3, <2>4, <2>5, <2>6 DEF CipherStep
<1>6. CASE c \in DigestCtx /\ DigestStep(c)
  <2>1. CASE DigestInitGet(c)
    BY <1>1, <1>2, <1>3, <1>6, <2>1, DigestInitGetTypes, GetStep
  <2>2. CASE DigestInitBegin(c)
    BY <1>2, <1>6, <2>2, DigestInitBeginWorks
  <2>3. CASE DigestUpdate(c)
    BY <1>2, <1>6, <2>3, DigestUpdateWorks
  <2>4. CASE DigestCopyState(c)
    BY <1>2, <1>6, <2>4, DigestCopyStateWorks
  <2>5. CASE DigestFinal(c) \/ DigestCleanup(c)
    BY <1>2, <1>6, <2>5, DigestEndWorks
  <2>6. ASSUME NEW d \in DigestCtx \ {c}, DigestCopyGet(c, d)
        PROVE  (Held' /\ Pooled') \/ (Work(c) /\ CtxState(c)')
    <3>1. \/ GotSession(c)
          \/ ctx'[c] = Idle(None) /\ UNCHANGED <<process, pool, sess, unhandled>>
      BY <1>1, <1>6, <2>6, DigestCopyGetTypes
    <3>2. CASE GotSession(c)
      BY <1>2, <1>3, <3>2, GetStep
    <3>3. CASE ctx'[c] = Idle(None) /\ UNCHANGED <<process, pool, sess, unhandled>>
      <4>1. ctx[c].sp = None /\ ctx[c].local = None
        BY <1>1, <2>6 DEF DigestCopyGet, Calls, Shape
      <4> QED
        BY <1>2, <1>3, <3>3, <4>1, NothingWorks
    <3> QED
      BY <3>1, <3>2, <3>3
  <2> QED
    BY <1>6, <2>1, <2>2, <2>3, <2>4, <2>5, <2>6 DEF DigestStep
<1>7. CASE CleanupNothing(c)
  <2>1. /\ ctx[c].sp = None /\ ctx[c].local = None
        /\ UNCHANGED <<process, pool, sess, unhandled>>
    BY <1>1, <1>7 DEF CleanupNothing, Calls, Shape
  <2>2. ctx'[c] = BlankContext
    BY <1>1, <1>7 DEF CleanupNothing, TypeInv, VariableTypes
  <2> QED
    BY <1>2, <2>1, <2>2, NothingWorks
<1>8. CASE c \in RandUsers /\ RandGet(c)
  BY <1>1, <1>2, <1>3, <1>8, RandGetTypes, GetStep
<1>9. CASE c \in RandUsers /\ RandReturn(c)
  BY <1>2, <1>9, RandReturnWorks
<1> QED
  BY <1>5, <1>6, <1>7, <1>8, <1>9 DEF StepOf

\* In a child, no session is of this process.
LEMMA ForkKeeps ==
    ASSUME SessionInv, ~unhandled, Fork
    PROVE  Held' /\ (Pooled => Pooled')
<1>1. TypeInv /\ VariableTypes /\ Held
  BY DEF SessionInv, TypeInv
<1>2. pid' = pid + 1 /\ UNCHANGED <<last_pid, freelist, alive, sess>>
  BY DEF Fork, pool
<1>3. \A q \in SP : sess[q].pid # pid' /\ Sound(q)'
  <2> SUFFICES ASSUME NEW q \in SP PROVE sess[q].pid # pid' /\ Sound(q)'
    OBVIOUS
  <2>1. Sound(q) /\ sess[q].pid \in 0 .. MaxForks + 1 /\ pid \in 1 .. MaxForks + 1
    BY <1>1 DEF Held, VariableTypes, Session
  <2>2. sess[q].pid <= pid' /\ sess[q].pid # pid'
    BY <1>2, <2>1, BoundsAreNaturals DEF Sound
  <2> QED
    BY <1>2, <2>1, <2>2 DEF Sound
<1>4. ASSUME NEW c \in Ctx
      PROVE  Holds(c)' \subseteq Holds(c) /\ CtxState(c)'
  <2>1. ctx[c] \in Context /\ Shape(c) /\ ctx[c].sp \in SP \cup {None} /\ CtxState(c)
        /\ Holds(c) \subseteq SP
    BY <1>1, HoldsStructures DEF TypeInv, VariableTypes, Context, Held
  <2>2. CASE ctx[c].pc \notin {"got", "set"} /\ ctx'[c] = ctx[c]
    <3>1. Holds(c)' = Holds(c)
      BY <2>2 DEF Holds
    <3>2. ctx[c].pc = "ready" => ctx[c].sp \in SP
      BY <2>1 DEF Shape
    <3>3. OwnOperation(c)'
      BY <1>2, <1>3, <2>2, <3>2 DEF OwnOperation
    <3> QED
      BY <1>2, <1>3, <2>1, <2>2, <3>1, <3>3 DEF CtxState
  <2>3. CASE ctx'[c] = BlankContext
    BY <2>3, RestingState
  <2>4. CASE ctx'[c] = Idle(ctx[c].sp)
    <3>1. CASE ctx[c].sp = None
      BY <2>4, <3>1, RestingState
    <3>2. CASE ctx[c].sp \in SP
      <4>1. PICK sp \in SP : sp = ctx[c].sp
        BY <3>2
      <4>2. ctx'[c] = Idle(sp) /\ sess'[sp].pid # pid'
        BY <1>2, <1>3, <2>4, <4>1
      <4>3. Holds(c)' = {sp} /\ CtxState(c)'
        BY <4>2, KeepingState
      <4> QED
        BY <4>1, <4>3, NoneDiffers DEF Holds
    <3> QED
      BY <2>1, <3>1, <3>2
  <2> QED
    BY <1>1, <2>2, <2>3, <2>4, ForkedContext
<1>5. HeldOnce'
  BY <1>1, <1>2, <1>4 DEF Held, HeldOnce
<1>6. ASSUME Pooled PROVE Pooled'
  <2>1. ListsApart'
    BY <1>2, <1>4, <1>6 DEF Pooled, ListsApart
  <2>2. \A t \in OpTypes : freelist[t] \subseteq SP
    BY <1>1 DEF VariableTypes
  <2>3. ListsReusable'
    BY <1>2, <1>3, <2>2 DEF ListsReusable, Reusable
  <2>4. \A c \in Ctx : Holds(c)' \subseteq SP
    BY <1>1, <1>4, HoldsStructures
  <2>5. ListsOfOne'
    <3>1. \A t \in OpTypes : \A q, r \in freelist'[t] : sess'[q].pid = sess'[r].pid
      BY <1>2, <1>6 DEF Pooled, ListsOfOne
    <3> QED
      BY <1>2, <1>3, <2>4, <3>1 DEF ListsOfOne
  <2> QED
    BY <2>1, <2>3, <2>5 DEF Pooled
<1> QED
  BY <1>3, <1>4, <1>5, <1>6 DEF Held

\* The library is finished or initialised while no context holds anything.
LEMMA NoReferenceKeeps ==
    ASSUME SessionInv, ~unhandled, NoReference, UNCHANGED <<ctx, pid>>,
           \A q \in SP : Sound(q)'
    PROVE  Held' /\ (\A c \in Ctx : Holds(c)' = {}) /\ NoReference'
<1>1. TypeInv /\ Held
  BY DEF SessionInv
<1>2. \A c \in Ctx : Holds(c) = {} /\ Holds(c)' = {}
  BY <1>1 DEF NoReference, TypeInv, Shape, Holds
<1>3. ASSUME NEW c \in Ctx PROVE CtxState(c)'
  BY <1>1, <1>2, <1>3, CtxStateFrame DEF Held
<1>4. HeldOnce'
  BY <1>2 DEF HeldOnce
<1> QED
  BY <1>2, <1>3, <1>4 DEF Held, NoReference

\* The invariant holds initially.
LEMMA InitSessions == Init => SessionInv
<1> SUFFICES ASSUME Init PROVE SessionInv
  OBVIOUS
<1>1. TypeInv
  BY InitTypes
<1>2. \A c \in Ctx : ctx[c] = BlankContext
  BY DEF Init
<1>3. \A c \in Ctx : Holds(c) = {} /\ CtxState(c)
  BY <1>2, BlankIsContext DEF Holds, CtxState, OwnOperation
<1>4. \A q \in SP : sess[q] = BlankSession
  BY DEF Init
<1>5. \A q \in SP : Sound(q)
  BY <1>4, BlankIsSession DEF Init, Sound
<1>6. Held
  BY <1>3, <1>5 DEF Held, HeldOnce
<1>7. Pooled
  BY <1>3, Kinds DEF Init, Pooled, ListsApart, ListsReusable, ListsOfOne
<1> QED
  BY <1>1, <1>6, <1>7 DEF SessionInv, Init

\* Every step keeps it.
LEMMA SessionStep == SessionInv /\ [Next]_vars => SessionInv'
<1> SUFFICES ASSUME SessionInv, [Next]_vars PROVE SessionInv'
  OBVIOUS
<1>1. TypeInv /\ TypeInv'
  BY TypeStep DEF SessionInv
<1>2. ~unhandled' => ~unhandled
  BY <1>1, UnhandledStays
<1>3. ASSUME NEW c \in Ctx, StepOf(c) PROVE SessionInv'
  <2>1. pk11_library_initialized /\ (pk11_library_initialized' \/ unhandled')
    BY <1>3, StepOfInitialised
  <2>2. ~unhandled' => Held' /\ Pooled'
    BY <1>1, <1>2, <1>3, <2>1, StepKeeps DEF Sane
  <2> QED
    BY <1>1, <2>1, <2>2 DEF SessionInv, Sane
<1>4. CASE Fork
  <2>1. UNCHANGED <<pk11_library_initialized, unhandled>>
    BY <1>4 DEF Fork
  <2>2. ~unhandled' => Held' /\ (Pooled => Pooled')
    BY <1>2, <1>4, ForkKeeps
  <2>3. NoReference => NoReference'
    BY <1>4 DEF Fork, NoReference
  <2> QED
    BY <1>1, <2>1, <2>2, <2>3 DEF SessionInv, Sane
<1>5. CASE pk11_finish
  <2>1. NoReference /\ UNCHANGED <<ctx, pid>> /\ pk11_library_initialized
        /\ sess' = Freed(UNION {freelist[t] : t \in OpTypes})
    BY <1>5 DEF pk11_finish
  <2>2. NoReference'
    BY <2>1 DEF NoReference
  <2>3. ASSUME ~unhandled' PROVE Held' /\ ~pk11_library_initialized'
    <3>1. ~pk11_library_initialized' /\ ~unhandled
      BY <1>2, <1>5, <2>3 DEF pk11_finish, Unhandled
    <3>2. \A q \in SP : Sound(q)'
      <4> SUFFICES ASSUME NEW q \in SP PROVE Sound(q)'
        OBVIOUS
      <4>1. Sound(q) /\ sess'[q] \in {BlankSession, sess[q]} /\ pid >= 0 /\ pid' = pid
        BY <1>1, <2>1, <3>1 DEF SessionInv, Held, Freed, TypeInv, VariableTypes
      <4> QED
        BY <4>1, BlankIsSession DEF Sound
    <3> QED
      BY <2>1, <3>1, <3>2, NoReferenceKeeps
  <2> QED
    BY <1>1, <2>2, <2>3 DEF SessionInv, Sane
<1>6. CASE pk11_library_init
  <2>1. /\ NoReference /\ UNCHANGED <<ctx, pid, sess>>
        /\ unhandled' \/ freelist' = [t \in OpTypes |-> {}]
        /\ pk11_library_initialized' = TRUE
    BY <1>6 DEF pk11_library_init, InitLibrary, InitLibraryFailsLate, Unhandled
  <2>2. ASSUME ~unhandled' PROVE Held' /\ Pooled'
    <3>1. \A q \in SP : Sound(q)'
      BY <1>2, <2>1, <2>2 DEF SessionInv, Held, Sound
    <3>2. Held' /\ \A c \in Ctx : Holds(c)' = {}
      BY <1>2, <2>1, <2>2, <3>1, NoReferenceKeeps
    <3>3. ListsApart' /\ ListsReusable'
      BY <2>1, <2>2 DEF ListsApart, ListsReusable
    <3>4. ListsOfOne'
      BY <2>1, <2>2, <3>2 DEF ListsOfOne
    <3> QED
      BY <3>2, <3>3, <3>4 DEF Pooled
  <2> QED
    BY <1>1, <2>1, <2>2 DEF SessionInv, Sane
<1>7. CASE UNCHANGED vars
  <2>1. /\ UNCHANGED <<ctx, sess, pid, alive, freelist, unhandled, pk11_library_initialized>>
    BY <1>7 DEF vars
  <2>2. Held => Held'
    BY <2>1 DEF Held, HeldOnce, Sound, CtxState, Holds, OwnOperation, Reusable
  <2>3. Pooled => Pooled'
    BY <2>1 DEF Pooled, ListsApart, ListsReusable, ListsOfOne, Reusable, Holds
  <2> QED
    BY <1>1, <2>1, <2>2, <2>3 DEF SessionInv, Sane, NoReference
<1> QED
  BY <1>3, <1>4, <1>5, <1>6, <1>7, NextCases

\* It is an invariant of the specification.
LEMMA SessionsInvariant == Spec => []SessionInv
BY InitSessions, SessionStep, PTL DEF Spec

(***************************************************************************)
(* No PK11_SESSION structure is ever in two pairs of hands, on two free    *)
(* lists, or in use and on a free list.                                    *)
(***************************************************************************)
THEOREM SessionsAreExclusive == Spec => []ExclusiveSession
<1>1. SessionInv => ExclusiveSession
  <2> SUFFICES ASSUME SessionInv, Sane PROVE ExclusiveSession
    BY DEF ExclusiveSession
  <2>1. HeldOnce /\ ListsApart /\ users \subseteq Ctx
    BY ParametersAreSets DEF SessionInv, Sane, Held, Pooled, TypeInv, VariableTypes
  <2> QED
    BY <2>1 DEF ExclusiveSession, HeldOnce, ListsApart
<1> QED
  BY <1>1, SessionsInvariant, PTL

(***************************************************************************)
(* The operation of a cipher context was begun by that context, with its   *)
(* key and direction, and has seen its data.                               *)
(***************************************************************************)
THEOREM CiphersUseTheirKeys == Spec => []CipherUsesItsKey
<1>1. SessionInv => CipherUsesItsKey
  BY Kinds DEF SessionInv, Sane, Held, CtxState, CipherUsesItsKey
<1> QED
  BY <1>1, SessionsInvariant, PTL

(***************************************************************************)
(* The same for digests, which may be copied while they are computed.      *)
(***************************************************************************)
THEOREM DigestsSeeTheirData == Spec => []DigestSeesItsData
<1>1. SessionInv => DigestSeesItsData
  BY Kinds DEF SessionInv, Sane, Held, CtxState, DigestSeesItsData
<1> QED
  BY <1>1, SessionsInvariant, PTL

(***************************************************************************)
(* A session of this process that is on a free list can be used.           *)
(***************************************************************************)
THEOREM PooledCanBeReused == Spec => []PooledIsReusable
<1>1. SessionInv => PooledIsReusable
  BY DEF SessionInv, Sane, Pooled, ListsApart, ListsReusable, Reusable, PooledIsReusable
<1> QED
  BY <1>1, SessionsInvariant, PTL

(***************************************************************************)
(* A free list holds sessions of one process only, however often the       *)
(* application forks.                                                      *)
(***************************************************************************)
THEOREM PoolsAreOfOneProcess == Spec => []PoolOfOneProcess
<1>1. SessionInv => PoolOfOneProcess
  BY DEF SessionInv, Sane, Pooled, ListsOfOne, PoolOfOneProcess
<1> QED
  BY <1>1, SessionsInvariant, PTL

=============================================================================
