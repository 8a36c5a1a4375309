----------------------------- MODULE PolicyKeys -----------------------------
(***************************************************************************)
(* The signing keys of the policy steward (internal/policy/keys, used by   *)
(* internal/policy/steward).  Rows of policy_signing_keys are append-only; *)
(* every process signs and verifies against its own cached snapshot, which *)
(* a refresh goroutine reloads.  A key retires one overlap after its       *)
(* successor enters service, so how stale a cache may be decides whether a *)
(* signature made in one process is accepted in another.                   *)
(*                                                                         *)
(* Time is a shared clock of ticks.  Key ids are numbers compared the way  *)
(* uuidCompare does; a new key takes any unused one.                       *)
(***************************************************************************)
EXTENDS Naturals, FiniteSets

CONSTANTS
    KeyProcs,    \* processes with a keys.Manager
    Minters,     \* those started with MintFirstKeyIfEmpty
    KeyIds,
    Overlap,     \* Config.Overlap
    Staleness,   \* the refresh goroutine keeps a cache at most this old
    RotateTime,  \* a rotation takes at most this long
    MaxClock,    \* bound of the clock
    MaxSigs      \* bound on signatures

ASSUME KeysAssumption ==
    /\ Minters \subseteq KeyProcs
    /\ KeyIds \subseteq Nat
    /\ {Overlap, Staleness, RotateTime, MaxClock} \subseteq Nat

VARIABLES
    clock,
    keyRows,   \* keyRows: function from the inserted key ids to their valid_from
    keyUp,     \* processes whose Bootstrap has returned
    keyCache,  \* Manager.cache: the ids a process has loaded
    asOf,      \* when the rows in the cache were read
    rotation,  \* rotation[p]: the rotate that holds the write lock of p, or NoRotation
    loading,   \* loading[p]: the rows a refresh has read and not stored yet, or NoLoad
    sigs       \* policy signatures: the key and the time it was chosen

keyVars == <<clock, keyRows, keyUp, keyCache, asOf, rotation, loading, sigs>>

NoRotation == [pc |-> "none"]
NoLoad == [pc |-> "none"]

KeysInit ==
    /\ clock = 0
    /\ keyRows = [k \in {} |-> 0]
    /\ keyUp = {}
    /\ keyCache = [p \in KeyProcs |-> {}]
    /\ asOf = [p \in KeyProcs |-> 0]
    /\ rotation = [p \in KeyProcs |-> NoRotation]
    /\ loading = [p \in KeyProcs |-> NoLoad]
    /\ sigs = {}

-----------------------------------------------------------------------------
(* What a Manager computes from its cache *)

Stored == DOMAIN keyRows

\* sortRecords, and ORDER BY valid_from, key_id.
Before(a, b) == keyRows[a] < keyRows[b] \/ (keyRows[a] = keyRows[b] /\ a < b)

\* The key that follows k in a cache, as a set.
Successor(cache, k) ==
    {s \in cache : Before(k, s) /\ ~\E t \in cache : Before(k, t) /\ Before(t, s)}

\* Mutant: a key retires as soon as its successor enters service.
RetiresAtOnce(cache, k, t) == \A s \in Successor(cache, k) : t < keyRows[s]

\* Mutant: the newest key expires as well.
NewestExpires(cache, k, t) ==
    \A s \in Successor(cache, k) \cup (IF Successor(cache, k) = {} THEN {k} ELSE {}) :
        t < keyRows[s] + Overlap

\* computeValidUntil: t lies before valid_until, which is the successor's valid_from
\* plus the overlap, or the sentinel when there is no successor.
BeforeValidUntil(cache, k, t) == \A s \in Successor(cache, k) : t < keyRows[s] + Overlap

\* ListActive, and the keys Verify and VerifyAny consider: [valid_from, valid_until).
ListActive(p) == {k \in keyCache[p] : keyRows[k] <= clock /\ BeforeValidUntil(keyCache[p], k, clock)}

\* VerifyAny and Verify of a genuine signature by key k.
VerifyAny(p, k) == k \in ListActive(p)

\* signingKey: the newest key in service, whatever its valid_until; {} when none.
SigningKey(p) ==
    LET inService == {k \in keyCache[p] : keyRows[k] <= clock}
    IN {k \in inService : ~\E j \in inService : Before(k, j)}

-----------------------------------------------------------------------------

\* Bootstrap: ping, Load, and mint the first key by a forced rotation when the store
\* was empty.  The Load and the rotation are separate statements.
Bootstrap(p) ==
    /\ p \notin keyUp
    /\ rotation[p] = NoRotation
    /\ keyCache' = [keyCache EXCEPT ![p] = Stored]
    /\ asOf' = [asOf EXCEPT ![p] = clock]
    /\ IF Stored = {} /\ p \in Minters
       THEN /\ rotation' = [rotation EXCEPT ![p] = [pc |-> "insert", at |-> clock]]
            /\ UNCHANGED keyUp
       ELSE /\ keyUp' = keyUp \cup {p}
            /\ UNCHANGED rotation
    /\ UNCHANGED <<clock, keyRows, loading, sigs>>

\* ErrRotationTooSoon is returned on the cache of this process.
TooSoon(p) == \E k \in keyCache[p] : /\ ~\E j \in keyCache[p] : Before(k, j)
                                     /\ clock < keyRows[k] + Overlap

\* rotate takes the write lock and the time; force skips the guard.
Rotate(p, force) ==
    /\ p \in keyUp
    /\ rotation[p] = NoRotation
    /\ force \/ ~TooSoon(p)
    /\ rotation' = [rotation EXCEPT ![p] = [pc |-> "insert", at |-> clock]]
    /\ UNCHANGED <<clock, keyRows, keyUp, keyCache, asOf, loading, sigs>>

\* kms.Generate and store.Insert.
RotateInsert(p) ==
    /\ rotation[p].pc = "insert"
    /\ \E k \in KeyIds \ Stored :
          keyRows' = [j \in Stored \cup {k} |-> IF j = k THEN rotation[p].at ELSE keyRows[j]]
    /\ rotation' = [rotation EXCEPT ![p].pc = "list"]
    /\ UNCHANGED <<clock, keyUp, keyCache, asOf, loading, sigs>>

\* store.List after the insert fills the cache; the lock is released.
RotateList(p) ==
    /\ rotation[p].pc = "list"
    /\ keyCache' = [keyCache EXCEPT ![p] = Stored]
    /\ asOf' = [asOf EXCEPT ![p] = clock]
    /\ rotation' = [rotation EXCEPT ![p] = NoRotation]
    /\ keyUp' = keyUp \cup {p}
    /\ UNCHANGED <<clock, keyRows, loading, sigs>>

\* Generate, Insert or List fails: an inserted row stays, the cache is as it was, and
\* a Bootstrap that was minting ends the process.
RotateFail(p) ==
    /\ rotation[p] # NoRotation
    /\ rotation' = [rotation EXCEPT ![p] = NoRotation]
    /\ keyCache' = IF p \in keyUp THEN keyCache ELSE [keyCache EXCEPT ![p] = {}]
    /\ UNCHANGED <<clock, keyRows, keyUp, asOf, loading, sigs>>

\* Load, called by the refresh goroutine: the rows are read without the lock ...
LoadList(p) ==
    /\ p \in keyUp
    /\ loading[p] = NoLoad
    /\ loading' = [loading EXCEPT ![p] = [pc |-> "store", rows |-> Stored, at |-> clock]]
    /\ UNCHANGED <<clock, keyRows, keyUp, keyCache, asOf, rotation, sigs>>

\* ... and replace the cache under it, even when a rotation has refreshed it since.
LoadStore(p) ==
    /\ loading[p] # NoLoad
    /\ rotation[p] = NoRotation
    /\ keyCache' = [keyCache EXCEPT ![p] = loading[p].rows]
    /\ asOf' = [asOf EXCEPT ![p] = loading[p].at]
    /\ loading' = [loading EXCEPT ![p] = NoLoad]
    /\ UNCHANGED <<clock, keyRows, keyUp, rotation, sigs>>

\* Steward.Publish: checkSigningKey, then Sign on the cache and the clock of now.
Publish(p) ==
    /\ p \in keyUp
    /\ rotation[p] = NoRotation
    /\ Cardinality(sigs) < MaxSigs
    /\ ListActive(p) # {}
    /\ \E k \in SigningKey(p) : sigs' = sigs \cup {[key |-> k, at |-> clock]}
    /\ UNCHANGED <<clock, keyRows, keyUp, keyCache, asOf, rotation, loading>>

\* A process ends and takes its cache with it.
KeyCrash(p) ==
    /\ p \in keyUp \/ rotation[p] # NoRotation
    /\ keyUp' = keyUp \ {p}
    /\ keyCache' = [keyCache EXCEPT ![p] = {}]
    /\ asOf' = [asOf EXCEPT ![p] = 0]
    /\ rotation' = [rotation EXCEPT ![p] = NoRotation]
    /\ loading' = [loading EXCEPT ![p] = NoLoad]
    /\ UNCHANGED <<clock, keyRows, sigs>>

\* Time passes while every refresh keeps its interval and no rotation overruns.
Tick ==
    /\ clock < MaxClock
    /\ \A p \in keyUp : clock < asOf[p] + Staleness
    /\ \A p \in KeyProcs : rotation[p] # NoRotation => clock < rotation[p].at + RotateTime
    /\ \A p \in KeyProcs : loading[p] # NoLoad => clock < loading[p].at + Staleness
    /\ clock' = clock + 1
    /\ UNCHANGED <<keyRows, keyUp, keyCache, asOf, rotation, loading, sigs>>

KeysNext ==
    \/ Tick
    \/ \E p \in KeyProcs :
          \/ Bootstrap(p) \/ RotateInsert(p) \/ RotateList(p) \/ RotateFail(p)
          \/ LoadList(p) \/ LoadStore(p) \/ Publish(p) \/ KeyCrash(p)
          \/ \E force \in BOOLEAN : Rotate(p, force)

KeysSpec == KeysInit /\ [][KeysNext]_keyVars

-----------------------------------------------------------------------------
(* Properties *)

\* Type invariant of the store, the caches and the operations under way.
KeysTypeOK ==
    /\ clock \in 0 .. MaxClock
    /\ Stored \subseteq KeyIds /\ \A k \in Stored : keyRows[k] \in 0 .. clock
    /\ keyUp \subseteq KeyProcs
    /\ keyCache \in [KeyProcs -> SUBSET Stored]
    /\ asOf \in [KeyProcs -> 0 .. clock]
    /\ \A s \in sigs : s.key \in Stored /\ s.at \in 0 .. clock

\* A signature is accepted by every running process from one refresh after it was made
\* until an overlap after it, less what a cache may be behind and a rotation may take.
SignatureAccepted ==
    \A s \in sigs, p \in keyUp :
        (/\ clock > s.at + Staleness
         /\ clock + Staleness + RotateTime < s.at + Overlap) => VerifyAny(p, s.key)

\* Once an overlap has passed since its successor entered service, and caches have
\* caught up, nobody accepts a key.
KeyRetires ==
    \A k \in Stored, p \in keyUp : \A s \in Successor(Stored, k) :
        (/\ clock >= keyRows[s] + Overlap
         /\ clock > keyRows[s] + RotateTime + Staleness) => ~VerifyAny(p, k)

\* "The 24h overlap guarantees both keys remain valid for long enough that the refresh
\* races safely" (StartRefresh), and a forced rotation does retire a compromised key:
\* whatever the caches of the processes hold, a key is accepted throughout its window
\* and not beyond it, give or take one refresh and one rotation.
AcceptedInItsWindow == SignatureAccepted /\ KeyRetires

\* The signing_key_cache health gate: a process that has had an active key keeps one
\* through rotations, refreshes and their races until it stops.  (A refresh that read
\* the store while it was still empty may overwrite the first key for one interval.)
NeverWithoutKey ==
    [][\A p \in keyUp : (/\ ListActive(p) # {} /\ p \in keyUp'
                         /\ loading[p] # NoLoad => loading[p].rows # {}) => ListActive(p)' # {}]_keyVars
=============================================================================
