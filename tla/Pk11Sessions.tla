---------------------------- MODULE Pk11Sessions ----------------------------
(***************************************************************************)
(* The session pool of the PKCS#11 engine and the symmetric operations on  *)
(* it (openssl-1.0.2/engines/pkcs11/e_pk11.c): pk11_get_session and        *)
(* pk11_return_session, the cipher, digest and random functions the engine *)
(* gives to libcrypto, library initialisation, finish and fork().          *)
(*                                                                         *)
(* A context (EVP_CIPHER_CTX, EVP_MD_CTX) is used by one thread at a time, *)
(* and different contexts concurrently.  Taking a session from a pool and  *)
(* giving it back are atomic, under that pool's lock; a cipher             *)
(* initialisation is three steps, because it works on its session without  *)
(* a lock.  A pool is the set of the structures on the free list: which    *)
(* one the next caller gets is left open, the code takes the last one      *)
(* returned.  The model follows one process; at a fork it goes on with the *)
(* child, which has the parent's memory and none of its PKCS#11 handles.   *)
(*                                                                         *)
(* The PKCS#11 library is external.  A call may fail if its call site is   *)
(* in Failing, and does fail on a handle that is closed or not this        *)
(* process's own.  The history variable unhandled remembers a failure at a *)
(* call site whose error path the code does not get right.                 *)
(* A key object is represented by the value of its key: no two sessions    *)
(* share one, as each is created for one PK11_SESSION.                     *)
(***************************************************************************)
EXTENDS Naturals, FiniteSets

CONSTANTS
    CipherCtx,      \* contexts of ciphers
    DigestCtx,      \* contexts of message digests
    RandUsers,      \* threads that ask for random bytes
    Workloads,      \* sets of contexts, the one in use is chosen in Init
    Keys,           \* key values
    SP,             \* memory for PK11_SESSION structures
    None,
    Failing,        \* call sites that may fail
    MaxForks,
    MaxRestarts     \* bound on pk11_library_init after pk11_finish

Ctx == CipherCtx \cup DigestCtx \cup RandUsers
OpTypes == {"OP_CIPHER", "OP_DIGEST", "OP_RAND"}

CallSites == {"open", "create", "destroy", "close", "reopen", "init", "init_cached",
              "update", "final", "digest", "length", "state", "reinit", "slots",
              "relogin", "close_all", "library", "locks"}

ASSUME NoneIsNew == None \notin Ctx \cup Keys \cup SP
ASSUME ContextsDiffer == /\ CipherCtx \cap DigestCtx = {}
                         /\ CipherCtx \cap RandUsers = {}
                         /\ DigestCtx \cap RandUsers = {}
ASSUME BoundsAreNaturals == MaxForks \in Nat /\ MaxRestarts \in Nat
ASSUME ParametersAreSets == Failing \subseteq CallSites /\ Workloads \subseteq SUBSET Ctx

VARIABLES
    users,                      \* contexts this application uses
    pid,                        \* getpid()
    pk11_pid,                   \* process that initialised the library
    pk11_library_initialized,
    last_pid,                   \* the static variable pid of pk11_get_session, 0 at first
    freelist,                   \* session_cache[optype].head and what follows
    alive,                      \* structures that are allocated
    sess,                       \* the PK11_SESSION structures
    ctx,                        \* contexts: what EVP and the engine keep of each
    restarts,                   \* times the engine was finished
    unhandled                   \* history: a call failed that the code does not cope with

vars == <<users, pid, pk11_pid, pk11_library_initialized, last_pid, freelist,
          alive, sess, ctx, restarts, unhandled>>
process == <<users, pid, pk11_pid, pk11_library_initialized, restarts>>
library == <<pk11_pid, pk11_library_initialized>>
pool == <<last_pid, freelist, alive>>

Blocks == 2     \* data is counted modulo Blocks: enough to miss or repeat one

\* The operation that is active in a PKCS#11 session: who began it, with which
\* key, in which direction, and how much data it has seen.
Operation == [by : Ctx, key : Keys \cup {None}, encrypt : BOOLEAN, n : 0 .. Blocks - 1]

ASSUME NoneIsNoOperation == None \notin Operation

Session == [pid : 0 .. MaxForks + 1,
            open : BOOLEAN,                         \* session handle is valid
            cipher_key : Keys \cup {None},          \* opdata_cipher_key
            key : Keys \cup {None},                 \* opdata_key, opdata_key_len
            encrypt : BOOLEAN \cup {None},          \* opdata_encrypt, None is -1
            op : Operation \cup {None}]

\* Control of a context: free (no engine reference), idle (attached, nothing
\* begun), got and set (inside cipher_init), ready (an operation is begun).
Context == [pc : {"free", "idle", "got", "set", "ready"},
            sp : SP \cup {None},                    \* state->sp
            local : SP \cup {None},                 \* sp of the call in progress
            from : DigestCtx \cup {None},           \* context being copied
            key : Keys \cup {None}, encrypt : BOOLEAN, n : 0 .. Blocks - 1]

VariableTypes ==
    /\ users \in Workloads
    /\ pid \in 1 .. MaxForks + 1
    /\ pk11_pid \in 0 .. MaxForks + 1
    /\ last_pid \in 0 .. MaxForks + 1
    /\ pk11_library_initialized \in BOOLEAN
    /\ freelist \in [OpTypes -> SUBSET SP]
    /\ alive \subseteq SP
    /\ sess \in [SP -> Session]
    /\ ctx \in [Ctx -> Context]
    /\ restarts \in 0 .. MaxRestarts
    /\ unhandled \in BOOLEAN

\* A call that goes on has a session to go on with, and so has an operation that
\* has begun: a NULL from pk11_get_session never gets past the call it was given to.
SessionInHand ==
    \A c \in Ctx :
       /\ ctx[c].pc = "got" \/ (ctx[c].pc = "set" /\ c \in CipherCtx) => ctx[c].local \in SP
       /\ ctx[c].pc = "ready" \/ (ctx[c].pc = "set" /\ c \in DigestCtx) => ctx[c].sp \in SP

\* Types, and that what the code dereferences is a session, whatever has failed.
TypeOK == VariableTypes /\ SessionInHand

BlankSession == [pid |-> 0, open |-> FALSE, cipher_key |-> None, key |-> None,
                 encrypt |-> None, op |-> None]
BlankContext == [pc |-> "free", sp |-> None, local |-> None, from |-> None, key |-> None,
                 encrypt |-> FALSE, n |-> 0]

\* A context that has no operation, with what state->sp is left at.
Idle(sp) == [BlankContext EXCEPT !.pc = "idle", !.sp = sp]

Init ==
    /\ users \in Workloads
    /\ pid = 1 /\ pk11_pid = 1 /\ pk11_library_initialized = TRUE
    /\ last_pid = 0
    /\ freelist = [t \in OpTypes |-> {}]
    /\ alive = {}
    /\ sess = [sp \in SP |-> BlankSession]
    /\ ctx = [c \in Ctx |-> BlankContext]
    /\ restarts = 0
    /\ unhandled = FALSE

\* A call fails, at a site whose error path the properties below do not survive.
Unhandled(site) == site \in Failing /\ unhandled' = TRUE

OpType(c) == IF c \in CipherCtx THEN "OP_CIPHER"
             ELSE IF c \in DigestCtx THEN "OP_DIGEST" ELSE "OP_RAND"

\* A PKCS#11 call with the session's handle can succeed.
Usable(sp) == sess[sp].open /\ sess[sp].pid = pid

(***************************************************************************)
(* Initialising the library                                                *)
(***************************************************************************)
\* Mutant: the heads of the lists are not reset.
InitLibrary_KeepsLists ==
    /\ pk11_library_initialized' = TRUE
    /\ pk11_pid' = pid
    /\ UNCHANGED freelist

\* What pk11_library_init sets when it succeeds.  It also sets up new locks.
InitLibrary ==
    /\ pk11_library_initialized' = TRUE
    /\ pk11_pid' = pid
    /\ freelist' = [t \in OpTypes |-> {}]

\* The locks cannot be allocated: the lists are as they were, there are no locks,
\* and the next pk11_library_init returns 1 at once.  (pthread_atfork fails, if at
\* all, in the first call of a process, before Init.)
InitLibraryFailsLate ==
    /\ Unhandled("locks")
    /\ pk11_library_initialized' = TRUE
    /\ pk11_pid' = pid
    /\ UNCHANGED freelist

(***************************************************************************)
(* pk11_get_session                                                        *)
(***************************************************************************)
Forked == last_pid # 0 /\ last_pid # pid

\* C_OpenSession returns CKR_CRYPTOKI_NOT_INITIALIZED: the first call for a session
\* ever made in a child that has not initialised the library (in a child of a parent
\* that had sessions, Forked holds and the call initialises it itself).
NotInitialized == last_pid = 0 /\ pk11_pid # pid

SetUpSession(s) == [s EXCEPT !.pid = pid, !.open = TRUE, !.cipher_key = None,
                             !.encrypt = None, !.op = None]

\* The structure the call works on: the head of the list or a new one.
Candidate(t, sp) == IF freelist[t] # {} THEN sp \in freelist[t]
                    ELSE sp \in SP \ alive

Content(t, sp) == IF freelist[t] # {} THEN sess[sp] ELSE BlankSession

GetFromList(t, sp) ==
    /\ ~Forked
    /\ sp \in freelist[t]
    /\ last_pid' = pid
    /\ freelist' = [freelist EXCEPT ![t] = @ \ {sp}]
    /\ UNCHANGED <<library, alive, sess, unhandled>>

GetNew(t, sp) ==
    /\ ~Forked /\ ~NotInitialized
    /\ freelist[t] = {}
    /\ sp \in SP \ alive
    /\ last_pid' = pid
    /\ alive' = alive \cup {sp}
    /\ sess' = [sess EXCEPT ![sp] = SetUpSession(BlankSession)]
    /\ UNCHANGED <<library, freelist, unhandled>>

\* pk11_setup_session calls pk11_library_init(NULL) and opens the session then.
\* (pk11_finish refuses to run until pk11_init gives the library its engine back.)
GetReinitialized(t, sp) ==
    /\ NotInitialized
    /\ freelist[t] = {}
    /\ sp \in SP \ alive
    /\ InitLibrary
    /\ last_pid' = pid
    /\ alive' = alive \cup {sp}
    /\ sess' = [sess EXCEPT ![sp] = SetUpSession(BlankSession)]
    /\ UNCHANGED unhandled

\* The contents of freed memory are of no interest.
Freed(S) == [sp \in SP |-> IF sp \in S THEN BlankSession ELSE sess[sp]]

\* Mutant: the rest of the list is kept.
GetForked_KeepsRest(t, sp) ==
    /\ Forked
    /\ Candidate(t, sp)
    /\ last_pid' = pid
    /\ alive' = alive \cup {sp}
    /\ sess' = [sess EXCEPT ![sp] = SetUpSession(Content(t, sp))]
    /\ freelist' = [freelist EXCEPT ![t] = @ \ {sp}]
    /\ UNCHANGED <<library, unhandled>>

\* The first call in a child frees what is on this type's list and sets up the
\* first structure again.
GetForked(t, sp) ==
    /\ Forked
    /\ Candidate(t, sp)
    /\ last_pid' = pid
    /\ alive' = (alive \ freelist[t]) \cup {sp}
    /\ sess' = [Freed(freelist[t]) EXCEPT ![sp] = SetUpSession(Content(t, sp))]
    /\ freelist' = [freelist EXCEPT ![t] = {}]
    /\ UNCHANGED <<library, unhandled>>

\* choose_slots fails: the label err is reached with sp set and the head of the
\* list not assigned.
GetForkedNoSlot(t, sp) ==
    /\ Forked /\ Unhandled("slots")
    /\ Candidate(t, sp)
    /\ last_pid' = pid
    /\ alive' = (alive \ freelist[t]) \cup {sp}
    /\ sess' = [sess EXCEPT ![sp] = Content(t, sp)]
    /\ UNCHANGED <<library, freelist>>

\* Nothing on the list, and no memory or no PKCS#11 session for a new structure.
GetNewFails(t) ==
    /\ freelist[t] = {} /\ ~Forked
    /\ last_pid' = pid
    /\ \/ /\ SP \subseteq alive \/ (~NotInitialized /\ "open" \in Failing)
          /\ UNCHANGED <<library, freelist, unhandled>>
       \/ NotInitialized /\ "open" \in Failing /\ InitLibrary /\ UNCHANGED unhandled
       \/ NotInitialized /\ InitLibraryFailsLate
       \/ /\ NotInitialized /\ Unhandled("library")     \* under an engine in use
          /\ pk11_library_initialized' = FALSE
          /\ UNCHANGED <<pk11_pid, freelist>>
    /\ UNCHANGED <<alive, sess>>

GetForkedFails(t) ==
    \/ /\ Forked /\ SP \subseteq alive /\ freelist[t] = {}
       /\ UNCHANGED <<last_pid, freelist, alive, sess, unhandled>>
    \/ /\ Forked /\ Unhandled("reinit")          \* C_Initialize, C_OpenSession
       /\ last_pid' = pid
       /\ alive' = alive \ freelist[t]
       /\ UNCHANGED <<freelist, sess>>
    \/ /\ Forked /\ Unhandled("relogin")
       /\ \E sp \in SP : /\ Candidate(t, sp)
                         /\ last_pid' = pid
                         /\ alive' = (alive \ freelist[t]) \cup {sp}
                         /\ sess' = [sess EXCEPT ![sp] = SetUpSession(Content(t, sp))]
       /\ UNCHANGED freelist

GetFails(t) == GetNewFails(t) \/ (GetForkedFails(t) /\ UNCHANGED library)

pk11_get_session(t, sp) ==
    \/ sp \in SP /\ (GetFromList(t, sp) \/ GetNew(t, sp) \/ GetReinitialized(t, sp)
                     \/ GetForked(t, sp) \/ GetForkedNoSlot(t, sp))
    \/ sp = None /\ GetFails(t)

(***************************************************************************)
(* pk11_return_session: a parent's session is not put on the list.         *)
(***************************************************************************)
Returned(sp, t) == IF sp # None /\ sess[sp].pid = pid
                   THEN [freelist EXCEPT ![t] = @ \cup {sp}]
                   ELSE freelist

(***************************************************************************)
(* Ciphers                                                                 *)
(***************************************************************************)
\* A call of the engine's functions for context c, which its thread is not busy
\* copying.
Calls(c, from) == /\ pk11_library_initialized
                  /\ c \in users
                  /\ ctx[c].pc \in from
                  /\ \A d \in DigestCtx : ctx[d].from # c

\* EVP calls init for a new context, after a failed init, and again for one that
\* is in use (a new key or IV for the same cipher): then state->sp is just reset.
CipherInitGet(c) ==
    /\ Calls(c, {"free", "idle", "ready"})
    /\ c \in CipherCtx
    /\ \E key \in Keys, encrypt \in BOOLEAN, sp \in SP \cup {None} :
          /\ pk11_get_session("OP_CIPHER", sp)
          /\ ctx' = [ctx EXCEPT ![c] =
                       IF sp = None THEN Idle(None)
                       ELSE [BlankContext EXCEPT !.pc = "got", !.local = sp, !.key = key,
                                                 !.encrypt = encrypt]]
    /\ UNCHANGED <<users, pid, restarts>>

\* Mutant: the cached key is taken for the wanted one.
CheckNewCipherKey_Hit(s, key) == s.cipher_key

\* check_new_cipher_key destroys the object of another key.
CheckNewCipherKey(s, key) ==
    IF s.key = key \/ s.pid # pid THEN s.cipher_key ELSE None

\* pk11_get_cipher_key: the session with a new key object and its value, or as it was.
GetCipherKey(s, key) ==
    {[s EXCEPT !.cipher_key = key, !.key = key]}
       \cup (IF "create" \in Failing THEN {s} ELSE {})

\* pk11_cipher_final: close the session and open another, or fail at either call.
CipherFinal(s) ==
    {[result |-> TRUE, s |-> [s EXCEPT !.op = None]]}
       \cup (IF "close" \in Failing THEN {[result |-> FALSE, s |-> s]} ELSE {})
       \cup (IF "reopen" \in Failing
             THEN {[result |-> FALSE, s |-> [s EXCEPT !.open = FALSE, !.op = None]]} ELSE {})

\* What pk11_cipher_final can do to a session: nothing but fail if it cannot be used.
CipherFinalOf(sp, s) == IF Usable(sp) THEN CipherFinal(s)
                        ELSE {[result |-> FALSE, s |-> s]}

\* cipher_init up to pk11_init_symmetric, for a session that holds the wanted key.
CipherCached(c, s) == s.cipher_key # None /\ s.encrypt = ctx[c].encrypt

\* The session with a key, and whether the other direction has been terminated.
PreparedSession(c, sp, s) ==
    LET withKey == IF s.cipher_key = None THEN GetCipherKey(s, ctx[c].key) ELSE {s}
        other == s.encrypt # ctx[c].encrypt /\ s.encrypt # None
        final(s1) == IF other THEN CipherFinalOf(sp, s1) ELSE {[result |-> TRUE, s |-> s1]}
    IN UNION {{[result |-> r.result /\ r.s.cipher_key # None, s |-> r.s] : r \in final(s1)} :
              s1 \in withKey}

CipherInitPrepare(c) ==
    LET sp == ctx[c].local
        cipher_key == CheckNewCipherKey(sess[sp], ctx[c].key) IN
    /\ Calls(c, {"got"})
    /\ c \in CipherCtx
    /\ \E s \in {[sess[sp] EXCEPT !.cipher_key = cipher_key], sess[sp]} :
          \* C_DestroyObject may fail, and its result is ignored
          /\ s.cipher_key = cipher_key \/ "destroy" \in Failing
          /\ \/ /\ CipherCached(c, s)
                /\ sess' = [sess EXCEPT ![sp] = s]
                /\ ctx' = [ctx EXCEPT ![c].sp = sp, ![c].pc = "set"]
                /\ UNCHANGED freelist
             \/ /\ ~CipherCached(c, s)
                /\ \E r \in PreparedSession(c, sp, s) :
                      /\ sess' = [sess EXCEPT ![sp] = r.s]
                      /\ IF r.result
                         THEN /\ ctx' = [ctx EXCEPT ![c].pc = "set"]
                              /\ UNCHANGED freelist
                         ELSE /\ ctx' = [ctx EXCEPT ![c] = Idle(None)]
                              /\ freelist' = Returned(sp, "OP_CIPHER")
          /\ unhandled' = (unhandled \/ s.cipher_key # cipher_key
                                     \/ (sess[sp].open /\ ~sess'[sp].open))
    /\ UNCHANGED <<process, last_pid, alive>>

\* C_EncryptInit and C_DecryptInit begin an operation.
BeginOperation(c, sp) ==
    [sess EXCEPT ![sp].encrypt = ctx[c].encrypt,
                 ![sp].op = [by |-> c, key |-> sess[sp].cipher_key,
                             encrypt |-> ctx[c].encrypt, n |-> 0]]

\* pk11_init_symmetric, and the assignments after it.
InitSymmetric(c) ==
    LET sp == ctx[c].local IN
    /\ Calls(c, {"set"})
    /\ Usable(sp) /\ sess[sp].op = None
    /\ sess' = BeginOperation(c, sp)
    /\ ctx' = [ctx EXCEPT ![c].pc = "ready", ![c].sp = sp, ![c].local = None]
    /\ UNCHANGED <<process, pool, unhandled>>

\* Mutant: state->sp is assigned before the outcome is known.
InitSymmetricFails_Assigned(c) ==
    LET sp == ctx[c].local IN
    /\ Calls(c, {"set"})
    /\ "init" \in Failing
    /\ freelist' = Returned(sp, "OP_CIPHER")
    /\ ctx' = [ctx EXCEPT ![c] = Idle(sp)]
    /\ UNCHANGED <<process, last_pid, alive, sess, unhandled>>

\* A failure gives the session back; state->sp is left as it is.
InitSymmetricFails(c) ==
    LET sp == ctx[c].local IN
    /\ Calls(c, {"set"})
    /\ \/ /\ ~Usable(sp) \/ sess[sp].op # None \/ (ctx[c].sp = None /\ "init" \in Failing)
          /\ UNCHANGED unhandled
       \/ ctx[c].sp # None /\ Unhandled("init_cached")
    /\ freelist' = Returned(sp, "OP_CIPHER")
    /\ ctx' = [ctx EXCEPT ![c] = Idle(ctx[c].sp)]
    /\ UNCHANGED <<process, last_pid, alive, sess>>

\* One more block of data goes through the session of context c.
Advance(c) ==
    LET sp == ctx[c].sp IN
    /\ sess' = [sess EXCEPT ![sp].op.n = (@ + 1) % Blocks]
    /\ ctx' = [ctx EXCEPT ![c].n = (@ + 1) % Blocks]

CanUpdate(c) == Usable(ctx[c].sp) /\ sess[ctx[c].sp].op # None

DoCipher(c) ==
    /\ Calls(c, {"ready"})
    /\ c \in CipherCtx
    /\ \/ CanUpdate(c) /\ Advance(c) /\ UNCHANGED unhandled
       \/ /\ CanUpdate(c) /\ Unhandled("update")     \* an error ends the operation
          /\ sess' = [sess EXCEPT ![ctx[c].sp].op = None]
          /\ UNCHANGED ctx
    /\ UNCHANGED <<process, pool>>

\* Nothing to clean up: the init that failed gave its session back.
CleanupNothing(c) ==
    /\ Calls(c, {"idle"})
    /\ ctx[c].sp = None
    /\ ctx' = [ctx EXCEPT ![c] = BlankContext]
    /\ UNCHANGED <<process, pool, sess, unhandled>>

FinalSucceeds(sp) == Usable(sp) /\ sess[sp].op # None

\* The session goes back in either case; after an error state->sp still points to it.
CipherCleanup(c) ==
    LET sp == ctx[c].sp IN
    /\ Calls(c, {"idle", "ready"})
    /\ c \in CipherCtx
    /\ sp # None
    /\ \/ /\ FinalSucceeds(sp)
          /\ ctx' = [ctx EXCEPT ![c] = BlankContext]
          /\ UNCHANGED unhandled
       \/ /\ ctx' = [ctx EXCEPT ![c] = Idle(sp)]
          /\ \/ ~FinalSucceeds(sp) /\ UNCHANGED unhandled
             \/ FinalSucceeds(sp) /\ Unhandled("final")
    /\ sess' = [sess EXCEPT ![sp].op = IF Usable(sp) THEN None ELSE @]
    /\ freelist' = Returned(sp, "OP_CIPHER")
    /\ UNCHANGED <<process, last_pid, alive>>

(***************************************************************************)
(* Digests                                                                 *)
(***************************************************************************)
DigestInitGet(c) ==
    /\ Calls(c, {"free", "idle", "ready"})
    /\ c \in DigestCtx
    /\ \E sp \in SP \cup {None} :
          /\ pk11_get_session("OP_DIGEST", sp)
          /\ ctx' = [ctx EXCEPT ![c] =
                       IF sp = None THEN Idle(None)
                       ELSE [BlankContext EXCEPT !.pc = "got", !.local = sp]]
    /\ UNCHANGED <<users, pid, restarts>>

\* EVP_MD_CTX_copy_ex makes the new context a copy of the old one, state->sp
\* included, before it calls pk11_digest_copy; pk11_digest_init resets it.
CopiedContext(d) == [BlankContext EXCEPT !.pc = "got", !.n = ctx[d].n, !.from = d]

DigestCopyGet(c, d) ==
    /\ Calls(c, {"free"}) /\ Calls(d, {"idle", "ready"})
    /\ {c, d} \subseteq DigestCtx
    /\ ctx[d].pc = "idle" => ctx[d].sp = None      \* finished, or never begun
    /\ \/ /\ ctx[d].sp = None
          /\ ctx' = [ctx EXCEPT ![c] = Idle(None)]
          /\ UNCHANGED <<library, pool, sess, unhandled>>
       \/ /\ ctx[d].sp # None
          /\ \E sp \in SP \cup {None} :
                /\ pk11_get_session("OP_DIGEST", sp)
                /\ ctx' = [ctx EXCEPT ![c] =
                             IF sp = None THEN Idle(None)
                             ELSE [CopiedContext(d) EXCEPT !.local = sp]]
    /\ UNCHANGED <<users, pid, restarts>>

\* C_DigestInit, and for a copy the step to C_GetOperationState.
DigestInitBegin(c) ==
    LET sp == ctx[c].local IN
    /\ pk11_library_initialized /\ c \in users \cap DigestCtx /\ ctx[c].pc = "got"
    /\ \/ /\ Usable(sp) /\ sess[sp].op = None
          /\ sess' = [sess EXCEPT ![sp].op = [by |-> c, key |-> None, encrypt |-> FALSE,
                                              n |-> 0]]
          /\ ctx' = [ctx EXCEPT ![c].sp = sp, ![c].local = None,
                                ![c].pc = IF ctx[c].from = None THEN "ready" ELSE "set"]
          /\ UNCHANGED freelist
       \/ /\ "digest" \in Failing \/ ~Usable(sp) \/ sess[sp].op # None
          /\ ctx' = [ctx EXCEPT ![c] = Idle(None)]
          /\ freelist' = Returned(sp, "OP_DIGEST")
          /\ UNCHANGED sess
    /\ UNCHANGED <<process, last_pid, alive, unhandled>>

\* Mutant: C_SetOperationState is not called.
DigestCopyState_NotSet(c) ==
    /\ pk11_library_initialized /\ c \in users \cap DigestCtx /\ ctx[c].pc = "set"
    /\ ctx' = [ctx EXCEPT ![c].pc = "ready", ![c].from = None]
    /\ UNCHANGED <<process, pool, sess, unhandled>>

\* The state of the old session's operation is loaded into the new one; if that
\* fails the copy keeps its session, with an operation that has seen no data.
DigestCopyState(c) ==
    LET sp == ctx[c].sp
        from == ctx[c].from IN
    /\ pk11_library_initialized /\ c \in users \cap DigestCtx /\ ctx[c].pc = "set"
    /\ \/ /\ CanUpdate(from)
          /\ sess' = [sess EXCEPT ![sp].op = [sess[ctx[from].sp].op EXCEPT !.by = c]]
          /\ ctx' = [ctx EXCEPT ![c].pc = "ready", ![c].from = None]
       \/ /\ "state" \in Failing \/ ~CanUpdate(from)
          /\ ctx' = [ctx EXCEPT ![c] = Idle(sp)]
          /\ UNCHANGED sess
    /\ UNCHANGED <<process, pool, unhandled>>

DigestUpdate(c) ==
    LET sp == ctx[c].sp IN
    /\ Calls(c, {"ready"})
    /\ c \in DigestCtx
    /\ \/ CanUpdate(c) /\ Advance(c) /\ UNCHANGED freelist
       \/ /\ "digest" \in Failing \/ ~CanUpdate(c)
          /\ sess' = [sess EXCEPT ![sp].op = IF Usable(sp) THEN None ELSE @]
          /\ ctx' = [ctx EXCEPT ![c] = Idle(None)]
          /\ freelist' = Returned(sp, "OP_DIGEST")
    /\ UNCHANGED <<process, last_pid, alive, unhandled>>

\* pk11_digest_final gives the session back unless the length is wrong.
DigestFinalOf(c, after) ==
    LET sp == ctx[c].sp IN
    /\ sess' = [sess EXCEPT ![sp].op = IF Usable(sp) THEN None ELSE @]
    /\ ctx' = [ctx EXCEPT ![c] = after]
    /\ \/ freelist' = Returned(sp, "OP_DIGEST") /\ after.sp = None
       \/ /\ "length" \in Failing /\ FinalSucceeds(sp)
          /\ after.pc = "idle" => after.sp = sp
          /\ UNCHANGED freelist
    /\ UNCHANGED <<process, last_pid, alive, unhandled>>

DigestFinal(c) ==
    /\ Calls(c, {"ready"})
    /\ c \in DigestCtx
    /\ \E sp \in {None, ctx[c].sp} :
          DigestFinalOf(c, Idle(sp))

\* EVP ignores the result of pk11_digest_cleanup and frees the state.
DigestCleanup(c) ==
    /\ Calls(c, {"idle", "ready"})
    /\ c \in DigestCtx
    /\ ctx[c].sp # None
    /\ DigestFinalOf(c, BlankContext)

(***************************************************************************)
(* Random numbers: pk11_rand_bytes, pk11_rand_add                          *)
(***************************************************************************)
\* Mutant: the session is used without a test for NULL.
RandGet_Unchecked(c) ==
    /\ Calls(c, {"free"})
    /\ c \in RandUsers
    /\ \E sp \in SP \cup {None} :
          /\ pk11_get_session("OP_RAND", sp)
          /\ ctx' = [ctx EXCEPT ![c].pc = "got", ![c].local = sp]
    /\ UNCHANGED <<users, pid, restarts>>

RandGet(c) ==
    /\ Calls(c, {"free"})
    /\ c \in RandUsers
    /\ \E sp \in SP \cup {None} :
          /\ pk11_get_session("OP_RAND", sp)
          /\ ctx' = [ctx EXCEPT ![c].pc = IF sp = None THEN "free" ELSE "got",
                                ![c].local = sp]
    /\ UNCHANGED <<users, pid, restarts>>

RandReturn(c) ==
    /\ Calls(c, {"got"})
    /\ c \in RandUsers
    /\ freelist' = Returned(ctx[c].local, "OP_RAND")
    /\ ctx' = [ctx EXCEPT ![c] = BlankContext]
    /\ UNCHANGED <<process, last_pid, alive, sess, unhandled>>

(***************************************************************************)
(* The library: fork, finish, initialisation                               *)
(***************************************************************************)
\* The child goes on with the memory of the parent.  Calls that other threads had
\* begun do not go on: their threads do not exist in the child.
Fork ==
    /\ pid <= MaxForks
    /\ pid' = pid + 1
    /\ ctx' = [c \in Ctx |->
                 IF ctx[c].pc \in {"got", "set"}
                 THEN IF c \in RandUsers THEN BlankContext ELSE Idle(ctx[c].sp)
                 ELSE ctx[c]]
    /\ UNCHANGED <<users, pk11_pid, pk11_library_initialized, restarts, pool, sess, unhandled>>

\* libcrypto calls init and finish when the last functional reference is gone.
NoReference == \A c \in Ctx : ctx[c].pc = "free"

\* All free sessions are closed and freed.  The lists keep their heads, and if a
\* session cannot be closed the library stays initialised.
pk11_finish ==
    /\ pk11_library_initialized /\ NoReference
    /\ restarts < MaxRestarts
    /\ restarts' = restarts + 1
    /\ LET all == UNION {freelist[t] : t \in OpTypes}
       IN alive' = alive \ all /\ sess' = Freed(all)
    /\ \/ pk11_library_initialized' = FALSE /\ pk11_pid' = 0 /\ UNCHANGED unhandled
       \/ Unhandled("close_all") /\ UNCHANGED <<pk11_library_initialized, pk11_pid>>
    /\ UNCHANGED <<users, pid, last_pid, freelist, ctx>>

pk11_library_init ==
    /\ ~pk11_library_initialized \/ pk11_pid # pid
    /\ NoReference
    /\ (InitLibrary /\ UNCHANGED unhandled) \/ InitLibraryFailsLate
    /\ UNCHANGED <<users, pid, restarts, last_pid, alive, sess, ctx>>

(***************************************************************************)
(* Specification                                                           *)
(***************************************************************************)
CipherStep(c) == \/ CipherInitGet(c) \/ CipherInitPrepare(c)
                 \/ InitSymmetric(c) \/ InitSymmetricFails(c)
                 \/ DoCipher(c) \/ CipherCleanup(c)

DigestStep(c) == \/ DigestInitGet(c) \/ DigestInitBegin(c) \/ DigestUpdate(c)
                 \/ (\E d \in DigestCtx \ {c} : DigestCopyGet(c, d))
                 \/ DigestCopyState(c) \/ DigestFinal(c) \/ DigestCleanup(c)

Next == \/ \E c \in CipherCtx : CipherStep(c)
        \/ \E c \in DigestCtx : DigestStep(c)
        \/ \E c \in RandUsers : RandGet(c) \/ RandReturn(c)
        \/ \E c \in CipherCtx \cup DigestCtx : CleanupNothing(c)
        \/ Fork \/ pk11_finish \/ pk11_library_init

Spec == Init /\ [][Next]_vars

(***************************************************************************)
(* Properties                                                              *)
(***************************************************************************)
Holds(c) == {ctx[c].sp, ctx[c].local} \ {None}

\* The properties are about an initialised library and PKCS#11 calls that have
\* failed only where the error path is right.
Sane == pk11_library_initialized /\ ~unhandled

\* A PK11_SESSION structure that a context or a call holds is held by no other and
\* is on no free list, and no structure is on two lists: nothing is returned twice.
ExclusiveSession ==
    Sane => /\ \A c, d \in users : c # d => Holds(c) \cap Holds(d) = {}
            /\ \A c \in users, t \in OpTypes : Holds(c) \cap freelist[t] = {}
            /\ \A t, u \in OpTypes : t # u => freelist[t] \cap freelist[u] = {}

\* The operation in the session of context c is the one c asked for.
OwnOperation(c) ==
    ctx[c].pc = "ready" /\ sess[ctx[c].sp].pid = pid =>
       sess[ctx[c].sp].op = [by |-> c, key |-> ctx[c].key,
                             encrypt |-> ctx[c].encrypt, n |-> ctx[c].n]

\* The operation that is active in the session of a cipher context was begun by
\* that context, with its key and direction, and has seen exactly its data, whatever
\* key the session had cached and whatever else uses the pool.
CipherUsesItsKey == Sane => \A c \in CipherCtx : OwnOperation(c)

\* The same for digests: updates and copies of other contexts do not show in the
\* digest of this one.
DigestSeesItsData == Sane => \A c \in DigestCtx : OwnOperation(c)

\* What is on a free list can be used: it is allocated, and if this process opened
\* it, its handle is open and no operation is active, so that the next init succeeds.
PooledIsReusable ==
    Sane => \A t \in OpTypes : \A sp \in freelist[t] :
               /\ sp \in alive
               /\ sess[sp].pid = pid => sess[sp].open /\ sess[sp].op = None

\* A free list never holds sessions of two processes: a child that got rid of its
\* parent's sessions does not get one back from a context that outlived the fork.
PoolOfOneProcess ==
    Sane => \A t \in OpTypes : \A sp1, sp2 \in freelist[t] : sess[sp1].pid = sess[sp2].pid

\* "Every process must have its own freelist of PK11_SESSION structures"
\* (e_pk11.c:1507-1508): what pk11_get_session hands out was opened by the process
\* that asks.
SessionsOfThisProcess ==
    \A c \in Ctx : ctx[c].pc = "got" => sess[ctx[c].local].pid = pid

=============================================================================
