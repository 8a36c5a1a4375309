---------------------------- MODULE IngestUploads ----------------------------
(***************************************************************************)
(* Uploads to /v1/ingest/{verb}: the webhook router with its two levels of *)
(* idempotency (internal/ingest/webhook), the four verb handlers, and the  *)
(* durable run of an upload (metric_ingestor.PGExternalScanRunStore).      *)
(*                                                                         *)
(* A payload is a (verb, sha256 of the canonical request) pair.  A request *)
(* that fails method, size, signature, media type or metadata checks       *)
(* changes nothing and is left out.  Replicas share the database; the      *)
(* response cache is per replica and lost with it.                         *)
(***************************************************************************)
EXTENDS Naturals, Sequences, FiniteSets

CONSTANTS
    Requests,    \* HTTP requests being served
    Replicas,
    Payloads,
    Fenced,      \* payloads whose verb writes metric samples, hence behind the fence
    MaxEntries,  \* InMemoryIdempotencyStore.maxEntries, 0 for no eviction
    MaxPosts     \* bound on requests posted

ASSUME UploadsAssumption == MaxEntries \in Nat /\ MaxPosts \in Nat

VARIABLES
    uploads,     \* uploads[p]: the scan_run row with payload_hash p, or NoUpload
    batches,     \* batches[p]: how often the samples or events of p were committed
    handled,     \* handled[p]: how often Handle was entered for p
    inflight,    \* inflight[r]: claimed slots of replica r
    answered,    \* answered[r]: committed records of replica r, oldest first
    request,     \* request[q]: where a request stands
    posts

uploadVars == <<uploads, batches, handled, inflight, answered, request, posts>>

NoUpload == "none"
NoRequest == [pc |-> "idle"]

UploadsInit ==
    /\ uploads = [p \in Payloads |-> NoUpload]
    /\ batches = [p \in Payloads |-> 0]
    /\ handled = [p \in Payloads |-> 0]
    /\ inflight = [r \in Replicas |-> {}]
    /\ answered = [r \in Replicas |-> <<>>]
    /\ request = [q \in Requests |-> NoRequest]
    /\ posts = 0

-----------------------------------------------------------------------------

\* Requests that hold their claim.
Claiming(q) == request[q].pc \in {"open", "handle", "succeed", "fail", "commit"}

\* Abort, and the release inside Commit.
Release(r, p) == [inflight EXCEPT ![r] = @ \ {p}]

\* How a request ends: its answer, "error" for any status other than 200.
Answer(q, out) == [request EXCEPT ![q] = [pc |-> "done", rep |-> @.rep, payload |-> @.payload,
                                           out |-> out]]

\* A request reaches serveAfterAuth and passes its checks.
Post(q) ==
    /\ request[q].pc \in {"idle", "done"}
    /\ posts < MaxPosts
    /\ \E r \in Replicas, p \in Payloads :
          request' = [request EXCEPT ![q] = [pc |-> "claim", rep |-> r, payload |-> p]]
    /\ posts' = posts + 1
    /\ UNCHANGED <<uploads, batches, handled, inflight, answered>>

\* Claim: a committed record is replayed; a busy slot is waited for; a free one is taken.
Claim(q) ==
    LET r == request[q].rep
        p == request[q].payload
    IN /\ request[q].pc = "claim"
       /\ IF \E i \in DOMAIN answered[r] : answered[r][i] = p
          THEN request' = Answer(q, "replayed") /\ UNCHANGED inflight
          ELSE /\ p \notin inflight[r]
               /\ inflight' = [inflight EXCEPT ![r] = @ \cup {p}]
               /\ request' = [request EXCEPT ![q].pc = "open"]
       /\ UNCHANGED <<uploads, batches, handled, answered, posts>>

\* evictLocked: the oldest records beyond maxEntries go.
Evict(order) == IF MaxEntries > 0 /\ Len(order) > MaxEntries
                THEN SubSeq(order, Len(order) - MaxEntries + 1, Len(order)) ELSE order

\* Mutant: the row is taken over when the earlier request did not succeed.
ReopenFailed(p) == uploads[p] \in {NoUpload, "failed"}

\* The INSERT ... ON CONFLICT DO NOTHING of OpenExternalScanRun returns a row.
Inserted(p) == uploads[p] = NoUpload

\* OpenExternal.  A fresh row goes on to Handle; an existing one, whatever its status,
\* is answered 200 with replayed=true, and recorded in the cache.
OpenExternal(q) ==
    LET r == request[q].rep
        p == request[q].payload
    IN /\ request[q].pc = "open"
       /\ IF Inserted(p)
          THEN /\ uploads' = [uploads EXCEPT ![p] = "running"]
               /\ request' = [request EXCEPT ![q].pc = "handle"]
               /\ UNCHANGED <<inflight, answered>>
          ELSE /\ request' = Answer(q, "replayed")
               /\ answered' = [answered EXCEPT ![r] = Evict(Append(@, p))]
               /\ inflight' = Release(r, p)
               /\ UNCHANGED uploads
       /\ UNCHANGED <<batches, handled, posts>>

\* The database refuses OpenExternal, or the client has gone: 500 and Abort.
OpenFails(q) ==
    /\ request[q].pc = "open"
    /\ request' = Answer(q, "error")
    /\ inflight' = Release(request[q].rep, request[q].payload)
    /\ UNCHANGED <<uploads, batches, handled, answered, posts>>

\* The rows of an upload are written in one transaction.  Sample writers look at the
\* run under FOR SHARE and refuse when it no longer runs; churn events are not fenced.
Writable(p) == p \in Fenced => uploads[p] = "running"

\* Handle of the verb: decode, validate, resolve scopes, write one batch.  It may fail
\* before the batch, or after it when COMMIT reports an error.
Handle(q) ==
    LET p == request[q].payload
    IN /\ request[q].pc = "handle"
       /\ handled' = [handled EXCEPT ![p] = @ + 1]
       /\ \/ /\ Writable(p)
             /\ batches' = [batches EXCEPT ![p] = @ + 1]
             /\ \E next \in {"succeed", "fail"} : request' = [request EXCEPT ![q].pc = next]
          \/ /\ request' = [request EXCEPT ![q].pc = "fail"]
             /\ UNCHANGED batches
       /\ UNCHANGED <<uploads, inflight, answered, posts>>

\* FinalizeExternalScanRun updates a row only while it is running.
Finalizes(p) == uploads[p] = "running"

\* Finalize 'succeeded'; then the record is committed.  A row that is terminal already
\* (the sweep was faster), a database error or a cancelled request context give 500,
\* and the slot is released.
FinalizeSucceeded(q) ==
    LET p == request[q].payload
    IN /\ request[q].pc = "succeed"
       /\ \/ /\ Finalizes(p)
             /\ uploads' = [uploads EXCEPT ![p] = "succeeded"]
             /\ request' = [request EXCEPT ![q].pc = "commit"]
             /\ UNCHANGED inflight
          \/ /\ request' = Answer(q, "error")
             /\ inflight' = Release(request[q].rep, p)
             /\ UNCHANGED uploads
       /\ UNCHANGED <<batches, handled, answered, posts>>

\* Finalize 'failed' after a handler error; its own failure is only logged.
FinalizeFailed(q) ==
    LET p == request[q].payload
    IN /\ request[q].pc = "fail"
       /\ \/ Finalizes(p) /\ uploads' = [uploads EXCEPT ![p] = "failed"]
          \/ UNCHANGED uploads
       /\ request' = Answer(q, "error")
       /\ inflight' = Release(request[q].rep, p)
       /\ UNCHANGED <<batches, handled, answered, posts>>

\* store.Commit and the 200 answer.
CommitRecord(q) ==
    LET r == request[q].rep
        p == request[q].payload
    IN /\ request[q].pc = "commit"
       /\ answered' = [answered EXCEPT ![r] = Evict(Append(@, p))]
       /\ inflight' = Release(r, p)
       /\ request' = Answer(q, "accepted")
       /\ UNCHANGED <<uploads, batches, handled, posts>>

\* The client of a waiting request goes away: waitWithCtx returns its error.
Abandon(q) ==
    /\ request[q].pc = "claim"
    /\ request' = Answer(q, "error")
    /\ UNCHANGED <<uploads, batches, handled, inflight, answered, posts>>

\* The guard of the sweep's UPDATE, which runs some time after its SELECT.
StaleRunning(p) == uploads[p] = "running"

\* The stale sweep fails a run that has been running too long.
SweepUpload(p) ==
    /\ StaleRunning(p)
    /\ uploads' = [uploads EXCEPT ![p] = "failed"]
    /\ UNCHANGED <<batches, handled, inflight, answered, request, posts>>

\* A replica dies with its requests and its cache.
CrashReplica(r) ==
    /\ \/ answered[r] # <<>>
       \/ \E q \in Requests : request[q].pc \notin {"idle", "done"} /\ request[q].rep = r
    /\ request' = [q \in Requests |->
                     IF request[q].pc \notin {"idle", "done"} /\ request[q].rep = r
                     THEN NoRequest ELSE request[q]]
    /\ inflight' = [inflight EXCEPT ![r] = {}]
    /\ answered' = [answered EXCEPT ![r] = <<>>]
    /\ UNCHANGED <<uploads, batches, handled, posts>>

UploadsNext ==
    \/ \E q \in Requests :
          \/ Post(q) \/ Claim(q) \/ OpenExternal(q) \/ OpenFails(q) \/ Handle(q)
          \/ FinalizeSucceeded(q) \/ FinalizeFailed(q) \/ CommitRecord(q) \/ Abandon(q)
    \/ \E p \in Payloads : SweepUpload(p)
    \/ \E r \in Replicas : CrashReplica(r)

UploadsSpec == UploadsInit /\ [][UploadsNext]_uploadVars

-----------------------------------------------------------------------------
(* Properties *)

\* Type invariant of the run rows, the caches and the requests.
UploadsTypeOK ==
    /\ uploads \in [Payloads -> {NoUpload, "running", "succeeded", "failed"}]
    /\ batches \in [Payloads -> Nat] /\ handled \in [Payloads -> Nat]
    /\ inflight \in [Replicas -> SUBSET Payloads]
    /\ answered \in [Replicas -> Seq(Payloads)]
    /\ posts \in 0 .. MaxPosts

\* A slot of the in-process store is claimed exactly while one live request of the
\* replica works on it, so that nobody waits in Claim for a request that has ended.
ClaimsAreHeld ==
    \A r \in Replicas, p \in Payloads :
        Cardinality({q \in Requests : /\ Claiming(q) /\ request[q].rep = r
                                      /\ request[q].payload = p})
        = IF p \in inflight[r] THEN 1 ELSE 0

\* Runbook, "exactly one execution under concurrent retries": across replicas, restarts,
\* evicted records, failures and sweeps, a payload is handled and written at most once,
\* and a 200 that is not a replay is final: the run has succeeded, its rows are there,
\* and no sweep or late request moves it again.
ExecutedOnce ==
    /\ \A p \in Payloads : handled[p] <= 1 /\ batches[p] <= 1
    /\ \A q \in Requests : (request[q].pc = "done" /\ request[q].out = "accepted") =>
          uploads[request[q].payload] = "succeeded" /\ batches[request[q].payload] = 1

\* Both: each payload is executed once, and nobody waits for an execution that ended.
UploadsRunOnce == ExecutedOnce /\ ClaimsAreHeld

\* docs/rollout.md tells publishers to treat any replayed=true in the 200 envelope as
\* success: a replayed payload has its rows written, or a request is still at it.
ReplayedIsSuccess ==
    \A q \in Requests : (request[q].pc = "done" /\ request[q].out = "replayed") =>
        LET p == request[q].payload
        IN \/ uploads[p] = "succeeded"
           \/ \E o \in Requests : Claiming(o) /\ request[o].payload = p
=============================================================================
