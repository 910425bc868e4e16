--------------------------- MODULE EvidenceIngest ---------------------------
(***************************************************************************)
(* Evidence on its way into the platform store                             *)
(* (src/crates/platform-store/src/lib.rs): processes connect, which builds *)
(* a pool and applies the migrations under the advisory lock, and read one *)
(* append-only JSONL file in passes while its writer goes on appending and *)
(* may be killed in the middle of a line.  A pass is made of batches, each *)
(* one INSERT; a batch the database refuses is retried line by line.       *)
(***************************************************************************)
EXTENDS Integers, Sequences, FiniteSets, SequencesExt

CONSTANTS Processes,   \* processes that connect to the store and ingest
          Storable,    \* lines jsonb can hold, with every key
          Unstorable,  \* lines serde_json reads and jsonb refuses (class 22)
          Anonymous,   \* storable lines without a request_id
          Torn,        \* a line that is not a record
          NoLine,      \* nothing is half-written
          NoProcess,   \* nobody holds the schema lock
          INGEST_BATCH_LINES,
          Versions,    \* the schema versions a store may have, 0 when empty
          MaxLines,    \* bound: lines in the file
          MaxPasses    \* bound: passes over the file

ASSUME IngestAssumption ==
    /\ IsFiniteSet(Processes)
    /\ INGEST_BATCH_LINES \in Nat \ {0} /\ MaxLines \in Nat /\ MaxPasses \in Nat
    /\ Versions \subseteq Nat /\ NoProcess \notin Processes
    /\ {NoLine, Torn} \cap (Storable \cup Unstorable \cup Anonymous) = {}

VARIABLES stream,   \* which EvidenceStream the file is: its table and its rule
          file,     \* the terminated lines of the file
          half,     \* the record whose first half ends the file, if any
          version,  \* platform_schema_version, 0 when the table is absent
          tables,   \* the migrations whose tables exist
          lock,     \* who holds SCHEMA_LOCK_KEY
          rows,     \* the lines the stream's table holds, by their digest
          pc,       \* where each process is
          found,    \* the schema version its transaction read
          text,     \* the contents its pass was given
          at,       \* how many lines of them it is past
          batch,    \* the lines of its current batch, not yet accounted for
          summary,  \* its IngestSummary
          passes,   \* passes begun (bound)
          reported, \* rows that finished passes said they stored (history)
          aborted   \* whether a pass has failed (history)

fileVars  == <<file, half>>
storeVars == <<version, tables, lock, rows>>
passVars  == <<text, at, batch, summary, passes, reported, aborted>>
vars == <<stream, fileVars, storeVars, passVars, pc, found>>
-----------------------------------------------------------------------------
Lines == Storable \cup Unstorable \cup Anonymous
Count(stored, present, unreadable) ==
    [stored |-> stored, already_present |-> present, unreadable |-> unreadable]
NoCount == Count(0, 0, 0)
Summaries == [stored : Nat, already_present : Nat, unreadable : Nat]
PLATFORM_SCHEMA_VERSION == 2
Places == {"off", "misconfigured", "migrate", "apply", "collided", "unsupported",
           "ready", "scan", "fallback", "done"}
Modes == {"disable", "prefer", "require"}

\* evidence_keys: a JSON object with a finite ts and a request_id, which only a
\* receipt may lack.
HasKeys(line) ==
    /\ line \in Lines
    /\ line \in Anonymous => stream = "ReplicaReceipt"

\* What `contents.lines()` may yield: a half-written end is a line too, and all of
\* the record when only its newline is missing.
Contents == IF half = NoLine THEN {file} ELSE {Append(file, end) : end \in {Torn, half}}

Init ==
    /\ stream \in {"GatewayUsage", "ReplicaReceipt"}
    /\ file = <<>> /\ half = NoLine
    /\ version \in Versions /\ tables = 1..version /\ lock = NoProcess
    /\ rows = {}
    /\ pc = [i \in Processes |-> "off"] /\ found = [i \in Processes |-> 0]
    /\ text = [i \in Processes |-> <<>>] /\ at = [i \in Processes |-> 0]
    /\ batch = [i \in Processes |-> <<>>]
    /\ summary = [i \in Processes |-> NoCount]
    /\ passes = 0 /\ reported = 0 /\ aborted = FALSE

Goto(i, label) == pc' = [pc EXCEPT ![i] = label]
-----------------------------------------------------------------------------
(* The file's writer *)

\* The first bytes of a record reach the end of the file.  Behind a torn record
\* they continue its line.
WriteHalf(l) ==
    /\ half = NoLine /\ Len(file) < MaxLines
    /\ half' = l
    /\ UNCHANGED <<stream, file, storeVars, passVars, pc, found>>

WriteRest ==
    /\ half \in Lines
    /\ file' = Append(file, half) /\ half' = NoLine
    /\ UNCHANGED <<stream, storeVars, passVars, pc, found>>

\* The writer is killed, or the disk is full, with half a record written; what is
\* appended next, here a whole record, ends that line.
TearThenAppend ==
    /\ half \in Lines
    /\ file' = Append(file, Torn) /\ half' = NoLine
    /\ UNCHANGED <<stream, storeVars, passVars, pc, found>>
-----------------------------------------------------------------------------
(* PlatformStore::connect *)

\* build_pool: whether the connection is encrypted is the certificate
\* authority's doing, and a URL that asks for the opposite is refused.
BuildPool(i) ==
    /\ pc[i] = "off"
    /\ \E requested \in Modes, ca_file \in BOOLEAN :
        Goto(i, IF (requested = "disable" /\ ca_file) \/ (requested = "require" /\ ~ca_file)
                THEN "misconfigured" ELSE "migrate")
    /\ UNCHANGED <<stream, fileVars, storeVars, passVars, found>>

TakeLock_Late(i) ==
    /\ pc[i] = "migrate"
    /\ found' = [found EXCEPT ![i] = version]
    /\ lock' = lock
    /\ Goto(i, "apply")
    /\ UNCHANGED <<stream, fileVars, version, tables, rows, passVars>>

\* pg_advisory_xact_lock, and the version is read under it.
TakeLock(i) ==
    /\ pc[i] = "migrate" /\ lock = NoProcess
    /\ found' = [found EXCEPT ![i] = version]
    /\ lock' = i
    /\ Goto(i, "apply")
    /\ UNCHANGED <<stream, fileVars, version, tables, rows, passVars>>

Unlock(i) == lock' = IF lock = i THEN NoProcess ELSE lock

Steps(from) == (from + 1)..PLATFORM_SCHEMA_VERSION

\* SCHEMA_V1 and SCHEMA_V2, whichever are missing, and the commit; all of them
\* land or none.  CREATE TABLE fails on a table that exists.
Migrate(i) ==
    /\ pc[i] = "apply" /\ found[i] <= PLATFORM_SCHEMA_VERSION
    /\ IF Steps(found[i]) \cap tables = {}
       THEN /\ version' = PLATFORM_SCHEMA_VERSION
            /\ tables' = tables \cup Steps(found[i])
            /\ Goto(i, "ready")
       ELSE Goto(i, "collided") /\ UNCHANGED <<version, tables>>
    /\ Unlock(i)
    /\ found' = [found EXCEPT ![i] = 0]
    /\ UNCHANGED <<stream, fileVars, rows, passVars>>

\* UnsupportedSchemaVersion: a newer gateway's store is left alone.
RefuseNewer(i) ==
    /\ pc[i] = "apply" /\ found[i] > PLATFORM_SCHEMA_VERSION
    /\ Unlock(i)
    /\ found' = [found EXCEPT ![i] = 0]
    /\ Goto(i, "unsupported")
    /\ UNCHANGED <<stream, fileVars, version, tables, rows, passVars>>

\* The process dies inside its transaction: rolled back, and the lock is free.
DieMigrating(i) ==
    /\ pc[i] = "apply"
    /\ Unlock(i)
    /\ found' = [found EXCEPT ![i] = 0]
    /\ Goto(i, "off")
    /\ UNCHANGED <<stream, fileVars, version, tables, rows, passVars>>
-----------------------------------------------------------------------------
(* ingest_evidence *)

StartPass(i) ==
    /\ pc[i] \in {"ready", "done"} /\ passes < MaxPasses
    /\ \E contents \in Contents : text' = [text EXCEPT ![i] = contents]
    /\ at' = [at EXCEPT ![i] = 0]
    /\ batch' = [batch EXCEPT ![i] = <<>>]
    /\ summary' = [summary EXCEPT ![i] = NoCount]
    /\ passes' = passes + 1
    /\ Goto(i, "scan")
    /\ UNCHANGED <<stream, fileVars, storeVars, reported, aborted, found>>

\* One line: into the batch, or counted as unreadable.
Scan(i) ==
    /\ pc[i] = "scan" /\ at[i] < Len(text[i]) /\ Len(batch[i]) < INGEST_BATCH_LINES
    /\ LET line == text[i][at[i] + 1]
       IN IF HasKeys(line)
          THEN /\ batch' = [batch EXCEPT ![i] = Append(@, line)]
               /\ UNCHANGED summary
          ELSE /\ summary' = [summary EXCEPT ![i].unreadable = @ + 1]
               /\ UNCHANGED batch
    /\ at' = [at EXCEPT ![i] = @ + 1]
    /\ UNCHANGED <<stream, fileVars, storeVars, text, passes, reported, aborted, pc, found>>

BatchIsDue_FullOnly(i) == Len(batch[i]) = INGEST_BATCH_LINES

\* The batch is full, or the file has ended and left one.
BatchIsDue(i) ==
    \/ Len(batch[i]) = INGEST_BATCH_LINES
    \/ at[i] = Len(text[i]) /\ batch[i] # <<>>

\* INSERT ... ON CONFLICT (line_sha256) DO NOTHING: the rows it affects.
NewRows(lines) == lines \ rows

InsertBatch_CountsLines(i) ==
    /\ pc[i] = "scan" /\ BatchIsDue(i)
    /\ ToSet(batch[i]) \cap Unstorable = {}
    /\ rows' = rows \cup ToSet(batch[i])
    /\ summary' = [summary EXCEPT ![i].stored = @ + Len(batch[i])]
    /\ batch' = [batch EXCEPT ![i] = <<>>]
    /\ UNCHANGED <<stream, fileVars, version, tables, lock, text, at, passes, reported, aborted, pc, found>>

\* One INSERT for the batch, ON CONFLICT DO NOTHING: rows affected are stored, the
\* rest of the batch was there, an earlier line of the same batch included.
InsertBatch(i) ==
    /\ pc[i] = "scan" /\ BatchIsDue(i)
    /\ ToSet(batch[i]) \cap Unstorable = {}
    /\ LET stored == Cardinality(NewRows(ToSet(batch[i])))
       IN summary' = [summary EXCEPT ![i].stored = @ + stored,
                                     ![i].already_present = @ + Len(batch[i]) - stored]
    /\ rows' = rows \cup ToSet(batch[i])
    /\ batch' = [batch EXCEPT ![i] = <<>>]
    /\ UNCHANGED <<stream, fileVars, version, tables, lock, text, at, passes, reported, aborted, pc, found>>

BatchRefused_Skips(i) ==
    /\ pc[i] = "scan" /\ BatchIsDue(i)
    /\ ToSet(batch[i]) \cap Unstorable # {}
    /\ batch' = [batch EXCEPT ![i] = <<>>]
    /\ summary' = [summary EXCEPT ![i].unreadable = @ + Len(batch[i])]
    /\ UNCHANGED <<stream, fileVars, storeVars, text, at, passes, reported, aborted, pc, found>>

\* is_unstorable_record: the statement stored nothing; its lines go one by one.
BatchRefused(i) ==
    /\ pc[i] = "scan" /\ BatchIsDue(i)
    /\ ToSet(batch[i]) \cap Unstorable # {}
    /\ Goto(i, "fallback")
    /\ UNCHANGED <<stream, fileVars, storeVars, passVars, found>>

Verdict(line) ==
    CASE line \in Unstorable -> Count(0, 0, 1)
      [] line \in rows -> Count(0, 1, 0)
      [] OTHER -> Count(1, 0, 0)

\* insert_evidence, the next line of a refused batch.
InsertEvidence(i) ==
    /\ pc[i] = "fallback"
    /\ LET line    == Head(batch[i])
           verdict == Verdict(line)
       IN /\ rows' = rows \cup (NewRows({line}) \ Unstorable)
          /\ summary' = [summary EXCEPT ![i].stored = @ + verdict.stored,
                                        ![i].already_present = @ + verdict.already_present,
                                        ![i].unreadable = @ + verdict.unreadable]
    /\ batch' = [batch EXCEPT ![i] = Tail(@)]
    /\ Goto(i, IF Len(batch[i]) = 1 THEN "scan" ELSE "fallback")
    /\ UNCHANGED <<stream, fileVars, version, tables, lock, text, at, passes, reported, aborted, found>>

\* Any other error ends the pass; what it stored stays, and the failing statement
\* may have been committed before its answer was lost.
PassFails(i) ==
    /\ pc[i] = "fallback" \/ (pc[i] = "scan" /\ BatchIsDue(i))
    /\ LET lines == IF pc[i] = "fallback" THEN {Head(batch[i])} ELSE ToSet(batch[i])
       IN \/ UNCHANGED rows
          \/ lines \cap Unstorable = {} /\ rows' = rows \cup lines
    /\ aborted' = TRUE
    /\ Goto(i, "ready")
    /\ UNCHANGED <<stream, fileVars, version, tables, lock, text, at, batch, summary,
                   passes, reported, found>>

\* Ok(summary)
FinishPass(i) ==
    /\ pc[i] = "scan" /\ at[i] = Len(text[i]) /\ ~BatchIsDue(i)
    /\ reported' = reported + summary[i].stored
    /\ Goto(i, "done")
    /\ UNCHANGED <<stream, fileVars, storeVars, text, at, batch, summary, passes, aborted, found>>

Connecting(i) ==
    BuildPool(i) \/ TakeLock(i) \/ Migrate(i) \/ RefuseNewer(i) \/ DieMigrating(i)
Ingesting(i) ==
    \/ StartPass(i) \/ Scan(i) \/ InsertBatch(i) \/ BatchRefused(i)
    \/ InsertEvidence(i) \/ PassFails(i) \/ FinishPass(i)
Writing == WriteRest \/ TearThenAppend \/ \E l \in Lines : WriteHalf(l)

Next == Writing \/ \E i \in Processes : Connecting(i) \/ Ingesting(i)
Spec == Init /\ [][Next]_vars
-----------------------------------------------------------------------------
(* Properties *)

TypeOK ==
    /\ stream \in {"GatewayUsage", "ReplicaReceipt"}
    /\ file \in Seq(Lines \cup {Torn}) /\ half \in Lines \cup {NoLine}
    /\ version \in Nat /\ tables \subseteq Nat /\ lock \in Processes \cup {NoProcess}
    /\ rows \subseteq Lines \ Unstorable
    /\ pc \in [Processes -> Places]
    /\ found \in [Processes -> Nat]
    /\ text \in [Processes -> Seq(Lines \cup {Torn})] /\ at \in [Processes -> Nat]
    /\ batch \in [Processes -> Seq(Lines)]
    /\ summary \in [Processes -> Summaries]
    /\ passes \in Nat /\ reported \in Nat /\ aborted \in BOOLEAN

Keepable(line) == HasKeys(line) /\ line \notin Unstorable
Keepables(lines) == {k \in DOMAIN lines : Keepable(lines[k])}

\* A pass that ends, however its batches were refused, retried or overtaken by
\* another process ingesting the same file, has every storable line of what it was
\* given in the table, has counted each line once, and has called unreadable
\* exactly those that can never be stored (ingest_evidence, ingest_batch).
FinishedPassIsComplete ==
    \A i \in Processes : pc[i] = "done" =>
        /\ \A k \in Keepables(text[i]) : text[i][k] \in rows
        /\ summary[i].unreadable = Cardinality(DOMAIN text[i] \ Keepables(text[i]))
        /\ summary[i].stored + summary[i].already_present = Cardinality(Keepables(text[i]))

\* What the passes under way will say they stored, a pair for each row.
InFlight == [i \in Processes |-> IF pc[i] \in {"scan", "fallback"} THEN summary[i].stored ELSE 0]
Claims(amounts) == UNION {{i} \X (1..amounts[i]) : i \in Processes}
Claimed == reported + Cardinality(Claims(InFlight))

\* However often and by however many processes a growing and torn file is read, no
\* row is claimed as stored by two passes, and unless a pass failed none goes
\* unclaimed (ON CONFLICT DO NOTHING, rows affected).
EachRowIsClaimedOnce ==
    /\ Claimed <= Cardinality(rows)
    /\ ~aborted => Claimed = Cardinality(rows)

\* Processes that migrate together, die inside it or meet a store of any version
\* neither collide on a table nor skip a step, and only a newer store is refused
\* (migrate).
UpgradesAreSerial ==
    /\ \A i \in Processes : pc[i] # "collided"
    /\ \A i \in Processes : pc[i] = "unsupported" => version > PLATFORM_SCHEMA_VERSION
    /\ tables = 1..version
    /\ \A i \in Processes : pc[i] \in {"ready", "scan", "fallback", "done"} =>
           version = PLATFORM_SCHEMA_VERSION
=============================================================================
