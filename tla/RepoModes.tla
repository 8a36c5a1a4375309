------------------------------ MODULE RepoModes ------------------------------
(***************************************************************************)
(* A repo's row in the catalog (management.PGRepoStore: register_repo and  *)
(* set_mode), and the in-memory coordinator through which scans and mode   *)
(* flips of the metric-ingestor process meet (isolation.ModeCoordinator).  *)
(*                                                                         *)
(* All registrations are of one URL.  The coordinator's state is that of   *)
(* the first repo row.  Every critical section under repoState.mu is one   *)
(* step, and so is every transaction of the store that starts by locking   *)
(* its row; a call is between two of its steps when it has no lock.        *)
(***************************************************************************)
EXTENDS Naturals, Sequences, FiniteSets

CONSTANTS
    Registrars,   \* calls of mgmt.register_repo
    Scanners,     \* calls of BeginScan
    Setters,      \* calls of mgmt.set_mode, one after another
    MaxSetModes   \* bound on the set_mode calls

\* A process has finitely many calls in hand, and a call is a scan or a set_mode.
ASSUME CallsAssumption ==
    /\ IsFiniteSet(Scanners)
    /\ IsFiniteSet(Setters)
    /\ Scanners \cap Setters = {}
    /\ MaxSetModes \in Nat

Modes == {"embedded", "linked"}
NoMode == "none"

VARIABLES
    repo,         \* the rows of clean_code.repo with the URL: their modes
    events,       \* clean_code.repo_event
    registrar,    \* where a RegisterRepo transaction stands
    cached,       \* repoState.mode, NoMode while unhydrated
    flipping,     \* repoState.flipping
    waiters,      \* repoState.waiters: the calls parked on an open channel
    op,           \* where a BeginScan .. EndScan or a SetMode stands
    setModes      \* how many set_mode calls there were

modeVars == <<repo, events, registrar, cached, flipping, waiters, op, setModes>>
storeVars == <<repo, events, registrar>>

IdleCall == [pc |-> "idle", mode |-> NoMode, read |-> NoMode]

ModesInit ==
    /\ repo = <<>>
    /\ events = <<>>
    /\ registrar = [g \in Registrars |-> "idle"]
    /\ cached = NoMode
    /\ flipping = FALSE
    /\ waiters = {}
    /\ op = [c \in Scanners \cup Setters |-> IdleCall]
    /\ setModes = 0

\* What the calls hold: a scan's mode is that of its token, a setter's is its target.
InFlight == {s \in Scanners : op[s].pc = "scanning"}

-----------------------------------------------------------------------------
(* PGRepoStore.RegisterRepo *)

\* Mutant: no advisory lock.
UrlLockUnused == TRUE

\* pg_advisory_xact_lock(hashtext(url)) is not held by another registration.
UrlLockFree == \A g \in Registrars : registrar[g] # "inserting"

\* BEGIN, the advisory lock and the lookup; a known URL is answered with its row.
LookUpUrl(g) ==
    /\ registrar[g] = "idle"
    /\ UrlLockFree
    /\ registrar' = [registrar EXCEPT ![g] = IF repo = <<>> THEN "inserting" ELSE "done"]
    /\ UNCHANGED <<repo, events, cached, flipping, waiters, op, setModes>>

\* The INSERTs of the row and of its event, and COMMIT; or an error, and ROLLBACK.
InsertRepo(g) ==
    /\ registrar[g] = "inserting"
    /\ \/ \E m \in Modes : /\ repo' = Append(repo, m)
                           /\ events' = Append(events, [kind |-> "registered", mode |-> m])
       \/ UNCHANGED <<repo, events>>
    /\ registrar' = [registrar EXCEPT ![g] = "done"]
    /\ UNCHANGED <<cached, flipping, waiters, op, setModes>>

-----------------------------------------------------------------------------
(* Hydration, shared by BeginScan and SetMode *)

At(c, pc) == op[c].pc = pc
Move(c, pc) == op' = [op EXCEPT ![c].pc = pc]
Return(c) == op' = [op EXCEPT ![c] = IdleCall]

\* The step at which a call goes on once the repo is hydrated.
Hydrated(c) == IF c \in Scanners THEN "admit" ELSE "decide"

\* A scan of the directory source begins, or set_mode asks for a mode.  The repo is one
\* the caller knows the id of.
BeginScan(s) ==
    /\ At(s, "idle") /\ repo # <<>>
    /\ Move(s, IF cached = NoMode THEN "hydrate" ELSE Hydrated(s))
    /\ UNCHANGED <<storeVars, cached, flipping, waiters, setModes>>

SetMode(t, target) ==
    /\ At(t, "idle") /\ repo # <<>>
    /\ setModes < MaxSetModes
    /\ setModes' = setModes + 1
    /\ op' = [op EXCEPT ![t].pc = IF cached = NoMode THEN "hydrate" ELSE Hydrated(t),
                            ![t].mode = target]
    /\ UNCHANGED <<storeVars, cached, flipping, waiters>>

\* ReadRepoMode, outside the lock; an error ends the call.
ReadRepoMode(c) ==
    /\ At(c, "hydrate")
    /\ \/ op' = [op EXCEPT ![c].pc = "read", ![c].read = repo[1]]
       \/ Return(c)
    /\ UNCHANGED <<storeVars, cached, flipping, waiters, setModes>>

\* Mutant: the mode read is stored whoever hydrated or flipped meanwhile.
LastReadWins(mode) == mode

\* The hydrated-only-if-still-unhydrated double check.
FirstReadWins(mode) == IF cached = NoMode /\ ~flipping THEN mode ELSE cached

Hydrate(c) ==
    /\ At(c, "read")
    /\ cached' = FirstReadWins(op[c].read)
    /\ IF cached' = NoMode THEN Return(c)
       ELSE op' = [op EXCEPT ![c].pc = Hydrated(c), ![c].read = NoMode]
    /\ UNCHANGED <<storeVars, flipping, waiters, setModes>>

-----------------------------------------------------------------------------
(* Admission and drain *)

Running(c) == c \notin waiters
Park(c) == waiters' = waiters \cup {c} /\ UNCHANGED op

\* BeginScan admits a scan iff no flip is in progress.
Admits == ~flipping

AdmitScan(s) ==
    /\ At(s, "admit") /\ Running(s)
    /\ \/ Admits /\ op' = [op EXCEPT ![s].pc = "scanning", ![s].mode = cached] /\ UNCHANGED waiters
       \/ ~Admits /\ Park(s)
    /\ UNCHANGED <<storeVars, cached, flipping, setModes>>

\* Mutant: only the end of a flip wakes the waiters.
WakeNobody == waiters

\* EndScan's signalAll when the last scan ends.
WakeAtZero == IF Cardinality(InFlight) = 1 THEN {} ELSE waiters

EndScan(s) ==
    /\ At(s, "scanning")
    /\ Return(s)
    /\ waiters' = WakeAtZero
    /\ UNCHANGED <<storeVars, cached, flipping, setModes>>

\* SetMode's fast path when the mode is the cached one and no flip runs.
Decide(t) ==
    /\ At(t, "decide")
    /\ Move(t, IF ~flipping /\ cached = op[t].mode THEN "applySame" ELSE "acquire")
    /\ UNCHANGED <<storeVars, cached, flipping, waiters, setModes>>

AcquireFlipLock(t) ==
    /\ At(t, "acquire") /\ Running(t)
    /\ \/ ~flipping /\ flipping' = TRUE /\ Move(t, "drain") /\ UNCHANGED waiters
       \/ flipping /\ Park(t) /\ UNCHANGED flipping
    /\ UNCHANGED <<storeVars, cached, setModes>>

WaitForDrain(t) ==
    /\ At(t, "drain") /\ Running(t)
    /\ \/ InFlight = {} /\ Move(t, "apply") /\ UNCHANGED waiters
       \/ InFlight # {} /\ Park(t)
    /\ UNCHANGED <<storeVars, cached, flipping, setModes>>

ReleaseFlipLock(t) ==
    /\ flipping' = FALSE
    /\ waiters' = {}
    /\ Return(t)

\* The context ends while the call is parked; a drain lets go of the flip lock.
Cancel(c) ==
    /\ c \in waiters
    /\ IF At(c, "drain") THEN ReleaseFlipLock(c)
       ELSE Return(c) /\ waiters' = waiters \ {c} /\ UNCHANGED flipping
    /\ UNCHANGED <<storeVars, cached, setModes>>

\* SetRepoMode's transaction: SELECT FOR UPDATE, and on a new mode UPDATE and the event.
SetRepoMode(mode) ==
    IF repo[1] = mode THEN UNCHANGED <<repo, events>>
    ELSE /\ repo' = [repo EXCEPT ![1] = mode]
         /\ events' = Append(events, [kind |-> "mode_changed", mode |-> mode])

\* applyFn on the fast path: it holds no lock of the coordinator's.
ApplySame(t) ==
    /\ At(t, "applySame")
    /\ SetRepoMode(op[t].mode) \/ UNCHANGED <<repo, events>>
    /\ Return(t)
    /\ UNCHANGED <<registrar, cached, flipping, waiters, setModes>>

\* applyFn in a flip.  When it fails its COMMIT may have reached the server all the same.
Apply(t) ==
    /\ At(t, "apply")
    /\ \/ SetRepoMode(op[t].mode) /\ Move(t, "swap") /\ UNCHANGED <<flipping, waiters>>
       \/ ReleaseFlipLock(t) /\ (UNCHANGED <<repo, events>> \/ SetRepoMode(op[t].mode))
    /\ UNCHANGED <<registrar, cached, setModes>>

\* The swap of the cached mode, together with the end of the flip.
Swap(t) ==
    /\ At(t, "swap")
    /\ cached' = op[t].mode
    /\ ReleaseFlipLock(t)
    /\ UNCHANGED <<storeVars, setModes>>

ModesNext ==
    \/ \E g \in Registrars : LookUpUrl(g) \/ InsertRepo(g)
    \/ \E s \in Scanners : BeginScan(s) \/ AdmitScan(s) \/ EndScan(s)
    \/ \E t \in Setters : \/ \E m \in Modes : SetMode(t, m)
                          \/ Decide(t) \/ AcquireFlipLock(t) \/ WaitForDrain(t)
                          \/ ApplySame(t) \/ Apply(t) \/ Swap(t)
    \/ \E c \in Scanners \cup Setters : ReadRepoMode(c) \/ Hydrate(c) \/ Cancel(c)

ModesSpec == ModesInit /\ [][ModesNext]_modeVars

-----------------------------------------------------------------------------
(* Properties *)

\* Type invariant of the catalog rows and the coordinator.
ModesTypeOK ==
    /\ repo \in Seq(Modes)
    /\ \A i \in DOMAIN events : events[i].kind \in {"registered", "mode_changed"}
    /\ registrar \in [Registrars -> {"idle", "inserting", "done"}]
    /\ cached \in Modes \cup {NoMode}
    /\ flipping \in BOOLEAN
    /\ waiters \subseteq Scanners \cup Setters
    /\ \A c \in Scanners \cup Setters : {op[c].mode, op[c].read} \subseteq Modes \cup {NoMode}
    /\ setModes \in 0 .. MaxSetModes

\* A call sleeps only while what it waits for is still to come: a scan or a flip while
\* a flip is in progress, a drain while scans are.  A sleeper whose event has passed
\* would never be woken, and behind a sleeping flip no scan of the repo is admitted.
NoLostWakeup ==
    \A c \in waiters : CASE At(c, "admit") \/ At(c, "acquire") -> flipping
                         [] At(c, "drain") -> InFlight # {}
                         [] OTHER -> FALSE

\* Scans keep the mode they were admitted under for as long as they run, flips take
\* turns, and a flip changes the catalog and the cached mode only with no scan in flight,
\* whichever hydration, failed flip or cancelled drain came before.
FlipsAreDrained ==
    /\ \A s \in InFlight : op[s].mode = cached
    /\ LET flips == {t \in Setters : op[t].pc \in {"drain", "apply", "swap"}}
       IN  Cardinality(flips) = (IF flipping THEN 1 ELSE 0)
    /\ \A t \in Setters : op[t].pc \in {"apply", "swap"} => InFlight = {}

\* However many registrations of a URL race, the repo is one row with one 'registered'
\* event, and from then on the events tell its modes: the last one names the mode of
\* the row and no event repeats the one before.
OneRowOneHistory ==
    /\ Len(repo) <= 1
    /\ repo # <<>> => events[Len(events)].mode = repo[1]
    /\ \A i \in DOMAIN events : (events[i].kind = "registered") = (i = 1)
    /\ \A i \in 2 .. Len(events) : events[i].mode # events[i - 1].mode
=============================================================================
