------------------------------ MODULE AuditLog ------------------------------
(***************************************************************************)
(* What the Audit write-ahead log promises its clients, without files,     *)
(* frames, partitions or transactions.  A log of rows has a durable part   *)
(* and a readable one; a batch of rows is accepted when all of them are    *)
(* durable, only accepted batches reach the tables, and a process that     *)
(* starts with a signer copies every sealed row it can read before it      *)
(* serves.  AuditWal implements it.                                        *)
(***************************************************************************)
CONSTANTS
    Batches,       \* batches of rows
    BatchRows(_),  \* the rows of a batch
    NeedsRow(_)    \* the rows a row references

VARIABLES
    durable,   \* rows a machine crash cannot take
    readable,  \* rows a reader of the log sees
    sealed,    \* readable rows whose signature verifies
    accepted,  \* batches whose writer was told they are safe
    table,     \* rows in the audit tables
    phase      \* "down", "replay" or "serve"

logVars == <<durable, readable, sealed, accepted, table, phase>>

LogInit ==
    /\ durable = {} /\ readable = {} /\ sealed = {}
    /\ accepted = {} /\ table = {}
    /\ phase = "down"

\* Rows of one batch become readable, perhaps not all of them.
LogWrite ==
    /\ phase = "serve"
    /\ \E b \in Batches : readable' \subseteq readable \cup BatchRows(b)
    /\ readable \subseteq readable'
    /\ sealed \subseteq sealed' /\ sealed' \subseteq sealed \cup (readable' \ readable)
    /\ UNCHANGED <<durable, accepted, table, phase>>

\* Readable rows become durable; a batch may be accepted once all of its rows are.
LogSync ==
    /\ durable \subseteq durable' /\ durable' \subseteq readable
    /\ \/ UNCHANGED accepted
       \/ \E b \in Batches : accepted' = accepted \cup {b} /\ BatchRows(b) \subseteq durable'
    /\ UNCHANGED <<readable, sealed, table, phase>>

\* The rows of an accepted batch reach the tables together.
LogCommit ==
    /\ \E b \in accepted : table' = table \cup BatchRows(b)
    /\ UNCHANGED <<durable, readable, sealed, accepted, phase>>

\* A process starts, with a replay or, in scaffold mode, without.
LogStart ==
    /\ phase = "down"
    /\ phase' \in {"replay", "serve"}
    /\ UNCHANGED <<durable, readable, sealed, accepted, table>>

\* A missing sealed row is put into its table, after the row it references.
LogReplay ==
    /\ phase = "replay"
    /\ \E r \in sealed : NeedsRow(r) \subseteq table /\ table' = table \cup {r}
    /\ UNCHANGED <<durable, readable, sealed, accepted, phase>>

\* The replay is complete.
LogServe ==
    /\ phase = "replay"
    /\ sealed \subseteq table
    /\ phase' = "serve"
    /\ UNCHANGED <<durable, readable, sealed, accepted, table>>

\* The process stops; with the machine, rows that were only readable may go, and those
\* that remain are durable.
LogCrash ==
    /\ phase' = "down"
    /\ durable \subseteq durable' /\ durable' \subseteq readable'
    /\ readable' \subseteq readable
    /\ sealed' = sealed \cap readable'
    /\ UNCHANGED <<accepted, table>>

LogNext ==
    \/ LogWrite \/ LogSync \/ LogCommit
    \/ LogStart \/ LogReplay \/ LogServe \/ LogCrash

LogSpec == LogInit /\ [][LogNext]_logVars
=============================================================================
