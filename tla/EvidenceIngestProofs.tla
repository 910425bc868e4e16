------------------------ MODULE EvidenceIngestProofs ------------------------
(***************************************************************************)
(* What EvidenceIngest guarantees for any processes, lines, batch size and *)
(* stored schema version: upgrades are serial, a finished pass has stored  *)
(* and counted every line it was given, and no row is claimed twice.       *)
(***************************************************************************)
EXTENDS EvidenceIngest, FiniteSetTheorems, SequenceTheorems, TLAPS

(* The schema *)

\* Whoever is inside the migration holds the lock, so what it read is still true.
LockInv ==
    \A i \in Processes :
        /\ lock = i <=> pc[i] = "apply"
        /\ pc[i] = "apply" => found[i] = version

SchemaInv == TypeOK /\ LockInv /\ UpgradesAreSerial

(* One pass *)

\* Each line a pass is past is stored or still in its batch, and is counted or
\* still in its batch, on the side its kind says.
Progress(label, contents, past, lines, amounts, kept) ==
    label \in {"scan", "fallback", "done"} =>
        /\ past <= Len(contents)
        /\ \A b \in DOMAIN lines : HasKeys(lines[b])
        /\ \A k \in (1..past) \cap Keepables(contents) : contents[k] \in kept \cup ToSet(lines)
        /\ amounts.stored + amounts.already_present + Cardinality(Keepables(lines))
               = Cardinality((1..past) \cap Keepables(contents))
        /\ amounts.unreadable + Cardinality(DOMAIN lines \ Keepables(lines))
               = Cardinality((1..past) \ Keepables(contents))
        /\ label = "fallback" => lines # <<>>
        /\ label = "done" => past = Len(contents) /\ lines = <<>>

PassInv(i) == Progress(pc[i], text[i], at[i], batch[i], summary[i], rows)

PassesInv == \A i \in Processes : PassInv(i)

ClaimInv == IsFiniteSet(rows) /\ EachRowIsClaimedOnce

IngestInv == SchemaInv /\ PassesInv /\ ClaimInv
-----------------------------------------------------------------------------
(* Types *)

LEMMA IngestFacts ==
    /\ IsFiniteSet(Processes) /\ NoProcess \notin Processes
    /\ INGEST_BATCH_LINES \in Nat \ {0} /\ Versions \subseteq Nat
    /\ NoLine \notin Lines /\ Torn \notin Lines
    BY IngestAssumption DEF IngestAssumption, Lines

LEMMA CountsAreSummaries ==
    ASSUME NEW a \in Nat, NEW b \in Nat, NEW c \in Nat PROVE Count(a, b, c) \in Summaries
    BY DEF Count, Summaries

LEMMA SummaryOfAmounts ==
    ASSUME NEW s \in Summaries, NEW a \in Nat, NEW b \in Nat, NEW c \in Nat
    PROVE  [s EXCEPT !.stored = a, !.already_present = b, !.unreadable = c] \in Summaries
    BY DEF Summaries

LEMMA InSequence ==
    ASSUME NEW S, NEW s \in Seq(S)
    PROVE  /\ Len(s) \in Nat /\ DOMAIN s = 1..Len(s)
           /\ \A k \in 1..Len(s) : s[k] \in S
           /\ ToSet(s) \subseteq S
           /\ s # <<>> => Head(s) \in S /\ Tail(s) \in Seq(S) /\ Len(s) > 0
    <1>1. /\ Len(s) \in Nat /\ DOMAIN s = 1..Len(s)
          /\ \A k \in 1..Len(s) : s[k] \in S
        OBVIOUS
    <1>2. ToSet(s) \subseteq S
        BY <1>1 DEF ToSet
    <1>3. s # <<>> => Head(s) \in S /\ Tail(s) \in Seq(S) /\ Len(s) > 0
        BY HeadTailProperties, EmptySeq
    <1>4. QED
        BY <1>1, <1>2, <1>3

LEMMA DistinctLines ==
    ASSUME NEW S, NEW s \in Seq(S)
    PROVE  /\ IsFiniteSet(ToSet(s))
           /\ Cardinality(ToSet(s)) \in Nat /\ Cardinality(ToSet(s)) <= Len(s)
    <1>1. s \in Surjection(1..Len(s), ToSet(s))
        BY DEF Surjection, ToSet
    <1>2. IsFiniteSet(1..Len(s)) /\ Cardinality(1..Len(s)) = Len(s)
        <2>1. 1 \in Int /\ Len(s) \in Int /\ Len(s) >= 0
            OBVIOUS
        <2>2. /\ IsFiniteSet(1..Len(s))
              /\ Cardinality(1..Len(s)) = IF 1 > Len(s) THEN 0 ELSE Len(s) - 1 + 1
            BY <2>1, FS_Interval
        <2>3. QED
            BY <2>1, <2>2
    <1>3. IsFiniteSet(ToSet(s)) /\ Cardinality(ToSet(s)) <= Len(s)
        BY <1>1, <1>2, FS_Surjection
    <1>4. QED
        BY <1>3, FS_CardinalityType

\* What one INSERT stores of a batch is no more than the batch.
LEMMA NewRowsOfBatch ==
    ASSUME NEW S, NEW s \in Seq(S)
    PROVE  /\ IsFiniteSet(NewRows(ToSet(s)))
           /\ Cardinality(NewRows(ToSet(s))) \in 0..Len(s)
    <1>1. IsFiniteSet(ToSet(s)) /\ Cardinality(ToSet(s)) <= Len(s) /\ Len(s) \in Nat
          /\ Cardinality(ToSet(s)) \in Nat
        BY DistinctLines
    <1>2. NewRows(ToSet(s)) \in SUBSET ToSet(s)
        BY DEF NewRows
    <1>3. /\ IsFiniteSet(NewRows(ToSet(s)))
          /\ Cardinality(NewRows(ToSet(s))) <= Cardinality(ToSet(s))
        BY <1>1, <1>2, FS_Subset
    <1>4. Cardinality(NewRows(ToSet(s))) \in Nat
        BY <1>3, FS_CardinalityType
    <1>5. QED
        BY <1>1, <1>3, <1>4

\* The verdict on one line: exactly one of the three amounts is one.
LEMMA OneVerdict ==
    ASSUME TypeOK, NEW line
    PROVE  /\ Verdict(line).stored = (IF line \in rows \cup Unstorable THEN 0 ELSE 1)
           /\ Verdict(line).already_present = (IF line \in rows \ Unstorable THEN 1 ELSE 0)
           /\ Verdict(line).unreadable = (IF line \in Unstorable THEN 1 ELSE 0)
    <1>1. CASE line \in Unstorable
        <2>1. Verdict(line) = Count(0, 0, 1)
            BY <1>1 DEF Verdict, TypeOK
        <2>2. QED
            BY <1>1, <2>1 DEF Count
    <1>2. CASE line \notin Unstorable /\ line \in rows
        <2>1. Verdict(line) = Count(0, 1, 0)
            BY <1>2 DEF Verdict
        <2>2. QED
            BY <1>2, <2>1 DEF Count
    <1>3. CASE line \notin Unstorable /\ line \notin rows
        <2>1. Verdict(line) = Count(1, 0, 0)
            BY <1>3 DEF Verdict
        <2>2. QED
            BY <1>3, <2>1 DEF Count
    <1>4. QED
        BY <1>1, <1>2, <1>3

LEMMA TypeInit == Init => TypeOK
    <1> SUFFICES ASSUME Init PROVE TypeOK
        OBVIOUS
    <1>1. summary \in [Processes -> Summaries]
        BY CountsAreSummaries DEF Init, NoCount
    <1>2. version \in Nat /\ tables \subseteq Nat
        BY IngestFacts DEF Init
    <1>3. /\ text \in [Processes -> Seq(Lines \cup {Torn})]
          /\ batch \in [Processes -> Seq(Lines)]
          /\ file \in Seq(Lines \cup {Torn})
        BY DEF Init
    <1>4. QED
        BY <1>1, <1>2, <1>3 DEF Init, Places, TypeOK

LEMMA TypeStep == TypeOK /\ PassesInv /\ [Next]_vars => TypeOK'
    <1> SUFFICES ASSUME TypeOK, PassesInv, [Next]_vars PROVE TypeOK'
        OBVIOUS
    <1> USE IngestFacts
    <1>1. CASE Writing
        <2>1. CASE WriteRest \/ TearThenAppend
            <3>1. file \in Seq(Lines \cup {Torn}) /\ half \in Lines \cup {Torn}
                BY <2>1 DEF TypeOK, WriteRest, TearThenAppend
            <3>2. Append(file, half) \in Seq(Lines \cup {Torn})
                BY <3>1
            <3>3. Append(file, Torn) \in Seq(Lines \cup {Torn})
                BY <3>1
            <3>4. file' \in Seq(Lines \cup {Torn}) /\ half' \in Lines \cup {NoLine}
                BY <2>1, <3>2, <3>3 DEF WriteRest, TearThenAppend
            <3>5. UNCHANGED <<stream, storeVars, passVars, pc, found>>
                BY <2>1 DEF WriteRest, TearThenAppend
            <3>6. QED
                BY <3>4, <3>5 DEF TypeOK, storeVars, passVars
        <2>2. ASSUME NEW l \in Lines, WriteHalf(l) PROVE TypeOK'
            BY <2>2 DEF WriteHalf, TypeOK, storeVars, passVars
        <2>3. QED
            BY <1>1, <2>1, <2>2 DEF Writing
    <1>2. ASSUME NEW i \in Processes, Connecting(i) PROVE TypeOK'
        <2>1. CASE BuildPool(i)
            BY <2>1 DEF BuildPool, Goto, Places, TypeOK, fileVars, storeVars, passVars
        <2>2. CASE TakeLock(i)
            BY <2>2 DEF TakeLock, Goto, Places, TypeOK, fileVars, passVars
        <2>3. CASE Migrate(i)
            <3>1. Steps(found[i]) \subseteq Nat /\ PLATFORM_SCHEMA_VERSION \in Nat
                BY DEF Steps, PLATFORM_SCHEMA_VERSION, TypeOK
            <3>2. version' \in Nat /\ tables' \subseteq Nat
                BY <2>3, <3>1 DEF Migrate, TypeOK
            <3>3. QED
                BY <2>3, <3>2 DEF Migrate, Unlock, Goto, Places, TypeOK, fileVars, passVars
        <2>4. CASE RefuseNewer(i)
            BY <2>4 DEF RefuseNewer, Unlock, Goto, Places, TypeOK, fileVars, passVars
        <2>5. CASE DieMigrating(i)
            BY <2>5 DEF DieMigrating, Unlock, Goto, Places, TypeOK, fileVars, passVars
        <2>6. QED
            BY <1>2, <2>1, <2>2, <2>3, <2>4, <2>5 DEF Connecting
    <1>3. ASSUME NEW i \in Processes, StartPass(i) PROVE TypeOK'
        <2>1. PICK contents \in Contents : text' = [text EXCEPT ![i] = contents]
            BY <1>3 DEF StartPass
        <2>2. contents \in Seq(Lines \cup {Torn})
            <3>1. CASE half = NoLine
                BY <3>1 DEF Contents, TypeOK
            <3>2. CASE half # NoLine
                <4>1. PICK end \in {Torn, half} : contents = Append(file, end)
                    BY <3>2 DEF Contents
                <4>2. end \in Lines \cup {Torn} /\ file \in Seq(Lines \cup {Torn})
                    BY <3>2 DEF TypeOK
                <4>3. QED
                    BY <4>1, <4>2
            <3>3. QED
                BY <3>1, <3>2
        <2>3. summary' \in [Processes -> Summaries]
            BY <1>3, CountsAreSummaries DEF StartPass, NoCount, TypeOK
        <2>4. text' \in [Processes -> Seq(Lines \cup {Torn})]
            BY <2>1, <2>2 DEF TypeOK
        <2>5. batch' \in [Processes -> Seq(Lines)] /\ at' \in [Processes -> Nat]
            BY <1>3 DEF StartPass, TypeOK
        <2>6. /\ pc' = [pc EXCEPT ![i] = "scan"] /\ passes' = passes + 1
              /\ UNCHANGED <<stream, file, half, version, tables, lock, rows, reported,
                             aborted, found>>
            BY <1>3 DEF StartPass, Goto, fileVars, storeVars
        <2>7. pc' \in [Processes -> Places] /\ passes' \in Nat
            BY <2>6 DEF TypeOK, Places
        <2>8. QED
            BY <2>3, <2>4, <2>5, <2>6, <2>7 DEF TypeOK
    <1>4. ASSUME NEW i \in Processes, Scan(i) PROVE TypeOK'
        <2> DEFINE line == text[i][at[i] + 1]
        <2>1. /\ at' = [at EXCEPT ![i] = @ + 1]
              /\ UNCHANGED <<stream, file, half, version, tables, lock, rows, text, passes,
                             reported, aborted, pc, found>>
            BY <1>4 DEF Scan, fileVars, storeVars
        <2>2. batch' \in [Processes -> Seq(Lines)]
            <3>1. CASE HasKeys(line)
                <4>1. line \in Lines /\ batch[i] \in Seq(Lines)
                    BY <3>1 DEF HasKeys, TypeOK
                <4>2. Append(batch[i], line) \in Seq(Lines)
                    BY <4>1
                <4>3. batch' = [batch EXCEPT ![i] = Append(batch[i], line)]
                    BY <1>4, <3>1 DEF Scan
                <4>4. QED
                    BY <4>2, <4>3 DEF TypeOK
            <3>2. CASE ~HasKeys(line)
                BY <1>4, <3>2 DEF Scan, TypeOK
            <3>3. QED
                BY <3>1, <3>2
        <2>3. summary' \in [Processes -> Summaries]
            <3>1. summary \in [Processes -> Summaries]
                BY DEF TypeOK
            <3>2. [summary[i] EXCEPT !.unreadable = @ + 1] \in Summaries
                BY <3>1 DEF Summaries
            <3>3. \/ summary' = summary
                  \/ summary' = [summary EXCEPT ![i] = [summary[i] EXCEPT !.unreadable = @ + 1]]
                BY <1>4 DEF Scan
            <3>4. QED
                BY <3>1, <3>2, <3>3
        <2>4. at' \in [Processes -> Nat]
            BY <2>1 DEF TypeOK
        <2>5. QED
            BY <2>1, <2>2, <2>3, <2>4 DEF TypeOK
    <1>5. ASSUME NEW i \in Processes, InsertBatch(i) PROVE TypeOK'
        <2> DEFINE n == Cardinality(NewRows(ToSet(batch[i])))
                   counted == [summary[i] EXCEPT !.stored = @ + n,
                                                 !.already_present = @ + Len(batch[i]) - n]
        <2>1. /\ batch[i] \in Seq(Lines) /\ ToSet(batch[i]) \subseteq Lines
              /\ Len(batch[i]) \in Nat /\ n \in 0..Len(batch[i])
            BY InSequence, NewRowsOfBatch DEF TypeOK
        <2>2. summary' = [summary EXCEPT ![i] = counted]
            BY <1>5 DEF InsertBatch
        <2>3. counted \in Summaries
            <3> HIDE DEF n
            <3>1. summary[i] \in Summaries
                BY DEF TypeOK
            <3>2. summary[i].stored \in Nat /\ summary[i].already_present \in Nat
                BY <3>1 DEF Summaries
            <3>3. /\ summary[i].stored + n \in Nat
                  /\ summary[i].already_present + Len(batch[i]) - n \in Nat
                BY <2>1, <3>2
            <3>4. QED
                BY <3>1, <3>3 DEF Summaries
        <2>4. summary' \in [Processes -> Summaries]
            <3> HIDE DEF counted
            <3>1. QED
                BY <2>2, <2>3 DEF TypeOK
        <2>5. rows' \subseteq Lines \ Unstorable
            BY <1>5, <2>1 DEF InsertBatch, TypeOK
        <2>6. batch' \in [Processes -> Seq(Lines)]
            BY <1>5 DEF InsertBatch, TypeOK
        <2>7. UNCHANGED <<stream, file, half, version, tables, lock, text, at, passes, reported,
                          aborted, pc, found>>
            BY <1>5 DEF InsertBatch, fileVars
        <2>8. QED
            BY <2>4, <2>5, <2>6, <2>7 DEF TypeOK
    <1>6. ASSUME NEW i \in Processes, BatchRefused(i) \/ FinishPass(i) PROVE TypeOK'
        <2>1. CASE BatchRefused(i)
            BY <2>1 DEF BatchRefused, Goto, Places, TypeOK, fileVars, storeVars, passVars
        <2>2. CASE FinishPass(i)
            <3>1. summary[i].stored \in Nat
                BY DEF TypeOK, Summaries
            <3>2. QED
                BY <2>2, <3>1 DEF FinishPass, Goto, Places, TypeOK, fileVars, storeVars
        <2>3. QED
            BY <1>6, <2>1, <2>2
    <1>7. ASSUME NEW i \in Processes, InsertEvidence(i) PROVE TypeOK'
        <2> DEFINE line == Head(batch[i])
                   v == Verdict(line)
                   counted == [summary[i] EXCEPT !.stored = @ + v.stored,
                                                 !.already_present = @ + v.already_present,
                                                 !.unreadable = @ + v.unreadable]
        <2>1. batch[i] \in Seq(Lines) /\ batch[i] # <<>>
            BY <1>7 DEF InsertEvidence, TypeOK, PassesInv, PassInv, Progress
        <2>2. line \in Lines /\ Tail(batch[i]) \in Seq(Lines)
            BY <2>1, InSequence
        <2>3. v.stored \in Nat /\ v.already_present \in Nat /\ v.unreadable \in Nat
            BY OneVerdict
        <2>4. counted \in Summaries
            <3> HIDE DEF v
            <3>1. summary[i] \in Summaries
                BY DEF TypeOK
            <3>2. /\ summary[i].stored \in Nat /\ summary[i].already_present \in Nat
                  /\ summary[i].unreadable \in Nat
                BY <3>1 DEF Summaries
            <3>3. /\ summary[i].stored + v.stored \in Nat
                  /\ summary[i].already_present + v.already_present \in Nat
                  /\ summary[i].unreadable + v.unreadable \in Nat
                BY <2>3, <3>2
            <3>4. QED
                BY <3>1, <3>3, SummaryOfAmounts
        <2>5. summary' = [summary EXCEPT ![i] = counted]
            BY <1>7 DEF InsertEvidence
        <2>6. summary' \in [Processes -> Summaries]
            <3> HIDE DEF counted
            <3>1. QED
                BY <2>4, <2>5 DEF TypeOK
        <2>7. rows' \subseteq Lines \ Unstorable
            BY <1>7, <2>2 DEF InsertEvidence, NewRows, TypeOK
        <2>8. batch' \in [Processes -> Seq(Lines)]
            BY <1>7, <2>2 DEF InsertEvidence, TypeOK
        <2>9. pc' \in [Processes -> Places]
            BY <1>7 DEF InsertEvidence, Goto, TypeOK, Places
        <2>10. UNCHANGED <<stream, file, half, version, tables, lock, text, at, passes,
                           reported, aborted, found>>
            BY <1>7 DEF InsertEvidence, fileVars
        <2>11. QED
            BY <2>6, <2>7, <2>8, <2>9, <2>10 DEF TypeOK
    <1>8. ASSUME NEW i \in Processes, PassFails(i) PROVE TypeOK'
        <2> DEFINE lines == IF pc[i] = "fallback" THEN {Head(batch[i])} ELSE ToSet(batch[i])
        <2>1. batch[i] \in Seq(Lines) /\ (pc[i] = "fallback" => batch[i] # <<>>)
            BY DEF TypeOK, PassesInv, PassInv, Progress
        <2>2. lines \subseteq Lines
            BY <2>1, InSequence
        <2>3. \/ rows' = rows
              \/ lines \cap Unstorable = {} /\ rows' = rows \cup lines
            BY <1>8 DEF PassFails
        <2>4. rows' \subseteq Lines \ Unstorable
            BY <2>2, <2>3 DEF TypeOK
        <2>5. pc' \in [Processes -> Places] /\ aborted' = TRUE
            BY <1>8 DEF PassFails, Goto, TypeOK, Places
        <2>6. UNCHANGED <<stream, file, half, version, tables, lock, text, at, batch, summary,
                          passes, reported, found>>
            BY <1>8 DEF PassFails, fileVars
        <2>7. QED
            BY <2>4, <2>5, <2>6 DEF TypeOK
    <1>9. CASE UNCHANGED vars
        BY <1>9 DEF TypeOK, vars, fileVars, storeVars, passVars
    <1>10. QED
        BY <1>1, <1>2, <1>3, <1>4, <1>5, <1>6, <1>7, <1>8, <1>9 DEF Next, Ingesting
-----------------------------------------------------------------------------
(* Upgrades *)

LEMMA SchemaInit == Init => LockInv /\ UpgradesAreSerial
    BY IngestFacts DEF Init, LockInv, UpgradesAreSerial

\* No step but a migration's touches the schema, and none but those of connecting
\* moves a process out of or into the places the schema vouches for.
LEMMA SchemaKept ==
    ASSUME SchemaInv, UNCHANGED <<version, tables, lock, found>>,
           \A i \in Processes :
               \/ pc'[i] = pc[i]
               \/ /\ pc[i] \in {"ready", "scan", "fallback", "done"}
                  /\ pc'[i] \in {"ready", "scan", "fallback", "done"}
    PROVE  LockInv' /\ UpgradesAreSerial'
    BY DEF SchemaInv, LockInv, UpgradesAreSerial

LEMMA SchemaStep == SchemaInv /\ [Next]_vars => LockInv' /\ UpgradesAreSerial'
    <1> SUFFICES ASSUME SchemaInv, [Next]_vars PROVE LockInv' /\ UpgradesAreSerial'
        OBVIOUS
    <1>0. pc \in [Processes -> Places] /\ found \in [Processes -> Nat] /\ version \in Nat
        BY DEF SchemaInv, TypeOK
    <1>1. CASE Writing
        <2>1. UNCHANGED <<version, tables, lock, found, pc>>
            BY <1>1 DEF Writing, WriteRest, TearThenAppend, WriteHalf, storeVars
        <2>2. QED
            BY <2>1, SchemaKept
    <1>2. ASSUME NEW i \in Processes, BuildPool(i) PROVE LockInv' /\ UpgradesAreSerial'
        <2>1. PICK label \in {"misconfigured", "migrate"} : pc' = [pc EXCEPT ![i] = label]
            BY <1>2 DEF BuildPool, Goto
        <2>2. pc[i] = "off" /\ UNCHANGED <<version, tables, lock, found>>
            BY <1>2 DEF BuildPool, storeVars
        <2>3. QED
            BY <1>0, <2>1, <2>2 DEF SchemaInv, LockInv, UpgradesAreSerial
    <1>3. ASSUME NEW i \in Processes, TakeLock(i) PROVE LockInv' /\ UpgradesAreSerial'
        <2>1. /\ pc[i] = "migrate" /\ pc' = [pc EXCEPT ![i] = "apply"]
              /\ lock = NoProcess /\ lock' = i /\ found' = [found EXCEPT ![i] = version]
              /\ UNCHANGED <<version, tables>>
            BY <1>3 DEF TakeLock, Goto
        <2>2. QED
            BY <1>0, <2>1, IngestFacts DEF SchemaInv, LockInv, UpgradesAreSerial
    <1>4. ASSUME NEW i \in Processes, Migrate(i) PROVE LockInv' /\ UpgradesAreSerial'
        <2>1. /\ pc[i] = "apply" /\ lock = i /\ found[i] = version /\ version <= 2
              /\ tables = 1..version
            BY <1>4 DEF Migrate, SchemaInv, LockInv, UpgradesAreSerial, PLATFORM_SCHEMA_VERSION
        <2>2. Steps(found[i]) = (version + 1)..2 /\ Steps(found[i]) \cap tables = {}
            BY <1>0, <2>1 DEF Steps, PLATFORM_SCHEMA_VERSION
        <2>3. /\ version' = 2 /\ tables' = tables \cup Steps(found[i]) /\ lock' = NoProcess
              /\ pc' = [pc EXCEPT ![i] = "ready"] /\ found' = [found EXCEPT ![i] = 0]
            BY <1>4, <2>1, <2>2 DEF Migrate, Unlock, Goto, PLATFORM_SCHEMA_VERSION
        <2>4. tables' = 1..version'
            BY <1>0, <2>1, <2>2, <2>3
        <2>5. LockInv'
            BY <1>0, <2>1, <2>3, IngestFacts DEF SchemaInv, LockInv
        <2>6. UpgradesAreSerial'
            BY <1>0, <2>1, <2>3, <2>4
               DEF SchemaInv, UpgradesAreSerial, PLATFORM_SCHEMA_VERSION
        <2>7. QED
            BY <2>5, <2>6
    <1>5. ASSUME NEW i \in Processes, RefuseNewer(i) PROVE LockInv' /\ UpgradesAreSerial'
        <2>1. /\ pc[i] = "apply" /\ found[i] > 2 /\ UNCHANGED <<version, tables>>
              /\ pc' = [pc EXCEPT ![i] = "unsupported"] /\ found' = [found EXCEPT ![i] = 0]
            BY <1>5 DEF RefuseNewer, Goto, PLATFORM_SCHEMA_VERSION
        <2>2. lock = i /\ lock' = NoProcess /\ version > 2
            BY <1>5, <2>1 DEF RefuseNewer, Unlock, SchemaInv, LockInv
        <2>3. LockInv'
            BY <1>0, <2>1, <2>2, IngestFacts DEF SchemaInv, LockInv
        <2>4. UpgradesAreSerial'
            BY <1>0, <2>1, <2>2 DEF SchemaInv, UpgradesAreSerial, PLATFORM_SCHEMA_VERSION
        <2>5. QED
            BY <2>3, <2>4
    <1>6. ASSUME NEW i \in Processes, DieMigrating(i) PROVE LockInv' /\ UpgradesAreSerial'
        <2>1. /\ pc[i] = "apply" /\ UNCHANGED <<version, tables>>
              /\ pc' = [pc EXCEPT ![i] = "off"] /\ found' = [found EXCEPT ![i] = 0]
            BY <1>6 DEF DieMigrating, Goto
        <2>2. lock = i /\ lock' = NoProcess
            BY <1>6, <2>1 DEF DieMigrating, Unlock, SchemaInv, LockInv
        <2>3. QED
            BY <1>0, <2>1, <2>2, IngestFacts DEF SchemaInv, LockInv, UpgradesAreSerial
    <1>7. ASSUME NEW i \in Processes, Ingesting(i) PROVE LockInv' /\ UpgradesAreSerial'
        <2>1. UNCHANGED <<version, tables, lock, found>>
            BY <1>7 DEF Ingesting, StartPass, Scan, InsertBatch, BatchRefused, InsertEvidence,
                        PassFails, FinishPass, storeVars
        <2>2. pc[i] \in {"ready", "scan", "fallback", "done"}
            BY <1>7 DEF Ingesting, StartPass, Scan, InsertBatch, BatchRefused, InsertEvidence,
                        PassFails, FinishPass
        <2>3. \/ pc' = pc
              \/ \E label \in {"ready", "scan", "fallback", "done"} : pc' = [pc EXCEPT ![i] = label]
            BY <1>7 DEF Ingesting, StartPass, Scan, InsertBatch, BatchRefused, InsertEvidence,
                        PassFails, FinishPass, Goto
        <2>4. QED
            BY <1>0, <2>1, <2>2, <2>3, SchemaKept
    <1>8. CASE UNCHANGED vars
        BY <1>8, SchemaKept DEF vars, storeVars
    <1>9. QED
        BY <1>1, <1>2, <1>3, <1>4, <1>5, <1>6, <1>7, <1>8 DEF Next, Connecting
-----------------------------------------------------------------------------
(* One pass.  What a step does to its amounts is arithmetic on one pass alone. *)

Carried == Seq(Lines \cup {Torn})

LEMMA KeepablesOf ==
    ASSUME NEW S, NEW s \in Seq(S)
    PROVE  /\ Keepables(s) \subseteq 1..Len(s) /\ DOMAIN s = 1..Len(s)
           /\ IsFiniteSet(Keepables(s)) /\ IsFiniteSet(DOMAIN s \ Keepables(s))
           /\ Cardinality(Keepables(s)) \in Nat /\ Cardinality(DOMAIN s \ Keepables(s)) \in Nat
    <1>1. Keepables(s) \in SUBSET (1..Len(s)) /\ DOMAIN s = 1..Len(s) /\ Len(s) \in Int
        BY DEF Keepables
    <1>2. IsFiniteSet(1..Len(s))
        BY <1>1, FS_Interval
    <1>3. IsFiniteSet(Keepables(s)) /\ IsFiniteSet(DOMAIN s \ Keepables(s))
        BY <1>1, <1>2, FS_Subset, FS_Difference
    <1>4. QED
        BY <1>1, <1>3, FS_CardinalityType

\* The lines a pass is past, with one more.
LEMMA OneMoreLine ==
    ASSUME NEW contents \in Carried, NEW n \in Nat, n < Len(contents)
    PROVE  LET kept == (1..n) \cap Keepables(contents)
               lost == (1..n) \ Keepables(contents)
           IN  /\ Cardinality(kept) \in Nat /\ Cardinality(lost) \in Nat
               /\ Keepable(contents[n + 1]) =>
                      /\ (1..(n + 1)) \cap Keepables(contents) = kept \cup {n + 1}
                      /\ Cardinality((1..(n + 1)) \cap Keepables(contents)) = Cardinality(kept) + 1
                      /\ (1..(n + 1)) \ Keepables(contents) = lost
               /\ ~Keepable(contents[n + 1]) =>
                      /\ (1..(n + 1)) \cap Keepables(contents) = kept
                      /\ Cardinality((1..(n + 1)) \ Keepables(contents)) = Cardinality(lost) + 1
    <1> DEFINE kept == (1..n) \cap Keepables(contents)
               lost == (1..n) \ Keepables(contents)
    <1>1. n \in Int /\ 1 \in Int /\ n + 1 \in DOMAIN contents
        BY DEF Carried
    <1>2. IsFiniteSet(1..n)
        BY <1>1, FS_Interval
    <1>3. IsFiniteSet(kept) /\ IsFiniteSet(lost)
        BY <1>2, FS_Intersection, FS_Difference
    <1>4. n + 1 \in Keepables(contents) <=> Keepable(contents[n + 1])
        BY <1>1 DEF Keepables
    <1>5. n + 1 \notin kept /\ n + 1 \notin lost
        OBVIOUS
    <1>6. ASSUME Keepable(contents[n + 1])
          PROVE  /\ (1..(n + 1)) \cap Keepables(contents) = kept \cup {n + 1}
                 /\ (1..(n + 1)) \ Keepables(contents) = lost
        BY <1>4, <1>6
    <1>7. ASSUME ~Keepable(contents[n + 1])
          PROVE  /\ (1..(n + 1)) \cap Keepables(contents) = kept
                 /\ (1..(n + 1)) \ Keepables(contents) = lost \cup {n + 1}
        BY <1>4, <1>7
    <1>8. /\ Cardinality(kept \cup {n + 1}) = Cardinality(kept) + 1
          /\ Cardinality(lost \cup {n + 1}) = Cardinality(lost) + 1
        BY <1>3, <1>5, FS_AddElement
    <1>9. Cardinality(kept) \in Nat /\ Cardinality(lost) \in Nat
        BY <1>3, FS_CardinalityType
    <1>10. QED
        BY <1>6, <1>7, <1>8, <1>9

\* A batch with one more line at its end.
LEMMA BatchGrows ==
    ASSUME NEW s \in Seq(Lines), NEW line \in Lines
    PROVE  LET longer == Append(s, line)
           IN  /\ ToSet(longer) = ToSet(s) \cup {line}
               /\ Keepable(line) =>
                      /\ Cardinality(Keepables(longer)) = Cardinality(Keepables(s)) + 1
                      /\ DOMAIN longer \ Keepables(longer) = DOMAIN s \ Keepables(s)
               /\ ~Keepable(line) =>
                      /\ Keepables(longer) = Keepables(s)
                      /\ Cardinality(DOMAIN longer \ Keepables(longer))
                             = Cardinality(DOMAIN s \ Keepables(s)) + 1
    <1> DEFINE longer == Append(s, line)
               n == Len(s) + 1
    <1>1. /\ DOMAIN s = 1..Len(s) /\ DOMAIN longer = 1..n /\ Len(s) \in Nat
          /\ longer[n] = line /\ \A k \in 1..Len(s) : longer[k] = s[k]
        OBVIOUS
    <1> HIDE DEF longer
    <1>2. ToSet(longer) = ToSet(s) \cup {line}
        <2>1. \A k \in DOMAIN longer : k = n \/ (k \in DOMAIN s /\ longer[k] = s[k])
            BY <1>1
        <2>2. \A k \in DOMAIN s : k \in DOMAIN longer /\ longer[k] = s[k]
            BY <1>1
        <2>3. n \in DOMAIN longer /\ longer[n] = line
            BY <1>1
        <2>4. QED
            BY <2>1, <2>2, <2>3 DEF ToSet
    <1>3. Keepables(longer) = IF Keepable(line) THEN Keepables(s) \cup {n} ELSE Keepables(s)
        BY <1>1 DEF Keepables
    <1>4. n \notin Keepables(s) /\ n \notin DOMAIN s \ Keepables(s)
        BY <1>1 DEF Keepables
    <1>5. IsFiniteSet(Keepables(s)) /\ IsFiniteSet(DOMAIN s \ Keepables(s))
        BY KeepablesOf
    <1>6. DOMAIN longer \ Keepables(longer)
              = IF Keepable(line) THEN DOMAIN s \ Keepables(s)
                ELSE (DOMAIN s \ Keepables(s)) \cup {n}
        BY <1>1, <1>3, <1>4
    <1>7. /\ Cardinality(Keepables(s) \cup {n}) = Cardinality(Keepables(s)) + 1
          /\ Cardinality((DOMAIN s \ Keepables(s)) \cup {n})
                 = Cardinality(DOMAIN s \ Keepables(s)) + 1
        BY <1>4, <1>5, FS_AddElement
    <1>8. QED
        BY <1>2, <1>3, <1>6, <1>7 DEF longer
LEMMA Shifted ==
    ASSUME NEW n \in Nat, NEW Q \in SUBSET (1..n)
    PROVE  LET up == {k + 1 : k \in Q}
           IN  IsFiniteSet(up) /\ Cardinality(up) = Cardinality(Q) /\ 1 \notin up
    <1> DEFINE up == {k + 1 : k \in Q}
               f == [k \in Q |-> k + 1]
    <1>1. n \in Int /\ 1 \in Int
        OBVIOUS
    <1>2. IsFiniteSet(Q)
        BY <1>1, FS_Interval, FS_Subset
    <1>3. f \in Bijection(Q, up)
        <2>0. \A k \in Q : k + 1 \in up /\ f[k] = k + 1
            OBVIOUS
        <2>1. f \in [Q -> up] /\ \A y \in up : \E k \in Q : f[k] = y
            <3>1. f \in [Q -> up]
                BY <2>0
            <3>2. ASSUME NEW y \in up PROVE \E k \in Q : f[k] = y
                <4>1. PICK k \in Q : y = k + 1
                    OBVIOUS
                <4>2. QED
                    BY <2>0, <4>1
            <3>3. QED
                BY <3>1, <3>2
        <2>2. \A j, k \in Q : f[j] = f[k] => j = k
            BY <1>1
        <2> HIDE DEF f, up
        <2>3. QED
            <3>1. f \in Injection(Q, up)
                BY <2>1, <2>2, Zenon DEF Injection, IsInjective
            <3>2. f \in Surjection(Q, up)
                BY <2>1, Zenon DEF Surjection
            <3>3. QED
                BY <3>1, <3>2, Zenon DEF Bijection
    <1>4. ExistsBijection(Q, up)
        BY <1>3 DEF ExistsBijection
    <1>5. 1 \notin up
        OBVIOUS
    <1>6. QED
        BY <1>2, <1>4, <1>5, FS_Bijection

\* A batch without its first line.
LEMMA BatchShrinks ==
    ASSUME NEW s \in Seq(Lines), s # <<>>
    PROVE  /\ ToSet(s) = ToSet(Tail(s)) \cup {Head(s)}
           /\ \A b \in DOMAIN Tail(s) : b + 1 \in DOMAIN s /\ Tail(s)[b] = s[b + 1]
           /\ Keepable(Head(s)) =>
                  /\ Cardinality(Keepables(s)) = Cardinality(Keepables(Tail(s))) + 1
                  /\ Cardinality(DOMAIN s \ Keepables(s))
                         = Cardinality(DOMAIN Tail(s) \ Keepables(Tail(s)))
           /\ ~Keepable(Head(s)) =>
                  /\ Cardinality(Keepables(s)) = Cardinality(Keepables(Tail(s)))
                  /\ Cardinality(DOMAIN s \ Keepables(s))
                         = Cardinality(DOMAIN Tail(s) \ Keepables(Tail(s))) + 1
    <1> DEFINE rest == Tail(s)
               m == Len(rest)
               in == Keepables(rest)
               out == DOMAIN rest \ Keepables(rest)
               inUp == {k + 1 : k \in in}
               outUp == {k + 1 : k \in out}
    <1>1. /\ rest \in Seq(Lines) /\ Len(s) = m + 1 /\ m \in Nat /\ Head(s) = s[1]
          /\ DOMAIN s = 1..(m + 1) /\ DOMAIN rest = 1..m
          /\ \A k \in 1..m : rest[k] = s[k + 1]
        BY HeadTailProperties
    <1> HIDE DEF rest, m
    <1>2. in \in SUBSET (1..m) /\ out \in SUBSET (1..m)
        BY <1>1 DEF Keepables
    <1>3. \A k \in 1..(m + 1) : k = 1 \/ \E j \in 1..m : k = j + 1
        <2> SUFFICES ASSUME NEW k \in 1..(m + 1), k # 1 PROVE k - 1 \in 1..m /\ k = (k - 1) + 1
            OBVIOUS
        <2>1. QED
            BY <1>1
    <1>4. ToSet(s) = ToSet(rest) \cup {Head(s)}
        <2>1. ASSUME NEW k \in DOMAIN s PROVE s[k] \in ToSet(rest) \cup {Head(s)}
            <3>1. k = 1 \/ \E j \in DOMAIN rest : k = j + 1
                BY <1>1, <1>3
            <3>2. CASE k = 1
                BY <1>1, <3>2
            <3>3. ASSUME NEW j \in DOMAIN rest, k = j + 1 PROVE s[k] \in ToSet(rest)
                <4>1. s[k] = rest[j]
                    BY <1>1, <3>3
                <4>2. QED
                    BY <4>1 DEF ToSet
            <3>4. QED
                BY <3>1, <3>2, <3>3
        <2>2. ASSUME NEW j \in DOMAIN rest PROVE rest[j] \in ToSet(s)
            <3>1. j + 1 \in DOMAIN s /\ rest[j] = s[j + 1]
                BY <1>1
            <3>2. QED
                BY <3>1 DEF ToSet
        <2>3. Head(s) \in ToSet(s)
            <3>1. 1 \in DOMAIN s
                BY <1>1
            <3>2. QED
                BY <1>1, <3>1 DEF ToSet
        <2>4. ToSet(s) \subseteq ToSet(rest) \cup {Head(s)}
            BY <2>1 DEF ToSet
        <2>5. ToSet(rest) \subseteq ToSet(s)
            BY <2>2 DEF ToSet
        <2>6. QED
            BY <2>3, <2>4, <2>5
    <1>5. \A k \in 1..m : (k + 1 \in Keepables(s) <=> k \in in) /\ k + 1 \in DOMAIN s
        BY <1>1 DEF Keepables
    <1>6. 1 \in Keepables(s) <=> Keepable(Head(s))
        BY <1>1 DEF Keepables
    <1>7. Keepables(s) \subseteq 1..(m + 1)
        BY <1>1 DEF Keepables
    <1>8. Keepables(s) = IF Keepable(Head(s)) THEN inUp \cup {1} ELSE inUp
        BY <1>2, <1>3, <1>5, <1>6, <1>7
    <1>9. DOMAIN s \ Keepables(s) = IF Keepable(Head(s)) THEN outUp ELSE outUp \cup {1}
        <2>1. \A k \in 1..m : k + 1 \in DOMAIN s \ Keepables(s) <=> k \in out
            BY <1>1, <1>5
        <2>2. 1 \in DOMAIN s \ Keepables(s) <=> ~Keepable(Head(s))
            BY <1>1, <1>6
        <2>3. DOMAIN s \ Keepables(s) \subseteq 1..(m + 1)
            BY <1>1
        <2> DEFINE left == DOMAIN s \ Keepables(s)
        <2> HIDE DEF left, out
        <2>4. QED
            BY <1>2, <1>3, <2>1, <2>2, <2>3 DEF left
    <1>10. IsFiniteSet(inUp) /\ 1 \notin inUp /\ Cardinality(inUp) = Cardinality(in)
        BY <1>1, <1>2, Shifted
    <1>11. IsFiniteSet(outUp) /\ 1 \notin outUp /\ Cardinality(outUp) = Cardinality(out)
        BY <1>1, <1>2, Shifted
    <1> HIDE DEF inUp, outUp
    <1>12. /\ Cardinality(inUp \cup {1}) = Cardinality(in) + 1
           /\ Cardinality(outUp \cup {1}) = Cardinality(out) + 1
        <2>1. Cardinality(inUp \cup {1}) = Cardinality(inUp) + 1
            BY <1>10, FS_AddElement
        <2>2. Cardinality(outUp \cup {1}) = Cardinality(outUp) + 1
            BY <1>11, FS_AddElement
        <2>3. QED
            BY <1>10, <1>11, <2>1, <2>2
    <1>13. ASSUME Keepable(Head(s))
           PROVE  /\ Cardinality(Keepables(s)) = Cardinality(in) + 1
                  /\ Cardinality(DOMAIN s \ Keepables(s)) = Cardinality(out)
        BY <1>8, <1>9, <1>11, <1>12, <1>13
    <1>14. ASSUME ~Keepable(Head(s))
           PROVE  /\ Cardinality(Keepables(s)) = Cardinality(in)
                  /\ Cardinality(DOMAIN s \ Keepables(s)) = Cardinality(out) + 1
        BY <1>8, <1>9, <1>10, <1>12, <1>14
    <1>15. QED
        BY <1>1, <1>4, <1>13, <1>14 DEF rest
\* What leaves the batch is added to the amounts.
LEMMA CarriedOver ==
    ASSUME NEW s \in Nat, NEW p \in Nat, NEW a \in Nat, NEW b \in Nat, NEW x \in Nat, NEW y,
           NEW total, y = x + (a + b), s + p + y = total
    PROVE  (s + a) + (p + b) + x = total
    OBVIOUS

LEMMA CarriedOverOne ==
    ASSUME NEW s \in Nat, NEW a \in Nat, NEW x \in Nat, NEW y, NEW total, y = x + a, s + y = total
    PROVE  (s + a) + x = total
    OBVIOUS

\* Others only add rows.
LEMMA ProgressKept ==
    ASSUME NEW label, NEW contents, NEW past, NEW lines, NEW amounts, NEW kept, NEW more,
           Progress(label, contents, past, lines, amounts, kept), kept \subseteq more
    PROVE  Progress(label, contents, past, lines, amounts, more)
    BY DEF Progress

LEMMA ProgressStarts ==
    ASSUME NEW contents \in Carried, NEW kept
    PROVE  Progress("scan", contents, 0, <<>>, NoCount, kept)
    <1>1. 0 <= Len(contents) /\ (1..0) = {} /\ DOMAIN <<>> = {}
        BY DEF Carried
    <1>2. Keepables(<<>>) = {} /\ DOMAIN <<>> \ Keepables(<<>>) = {}
        BY <1>1 DEF Keepables
    <1>3. /\ (1..0) \cap Keepables(contents) = {} /\ (1..0) \ Keepables(contents) = {}
          /\ Cardinality({}) = 0
        BY <1>1, FS_EmptySet
    <1>4. NoCount.stored = 0 /\ NoCount.already_present = 0 /\ NoCount.unreadable = 0
        BY DEF NoCount, Count
    <1>5. /\ Cardinality(Keepables(<<>>)) = 0
          /\ Cardinality(DOMAIN <<>> \ Keepables(<<>>)) = 0
          /\ Cardinality((1..0) \cap Keepables(contents)) = 0
          /\ Cardinality((1..0) \ Keepables(contents)) = 0
        BY <1>2, <1>3
    <1>6. QED
        BY <1>1, <1>3, <1>4, <1>5 DEF Progress

LEMMA ProgressScans ==
    ASSUME NEW contents \in Carried, NEW past \in Nat, past < Len(contents),
           NEW lines \in Seq(Lines), NEW amounts \in Summaries, NEW kept,
           Progress("scan", contents, past, lines, amounts, kept)
    PROVE  LET line == contents[past + 1]
           IN  /\ HasKeys(line) =>
                      Progress("scan", contents, past + 1, Append(lines, line), amounts, kept)
               /\ ~HasKeys(line) =>
                      Progress("scan", contents, past + 1, lines,
                               [amounts EXCEPT !.unreadable = @ + 1], kept)
    <1> DEFINE line == contents[past + 1]
               in == (1..past) \cap Keepables(contents)
               out == (1..past) \ Keepables(contents)
               more == (1..(past + 1)) \cap Keepables(contents)
               lost == (1..(past + 1)) \ Keepables(contents)
               longer == Append(lines, line)
               noted == [amounts EXCEPT !.unreadable = @ + 1]
    <1>1. /\ \A b \in DOMAIN lines : HasKeys(lines[b])
          /\ \A k \in in : contents[k] \in kept \cup ToSet(lines)
          /\ amounts.stored + amounts.already_present + Cardinality(Keepables(lines))
                 = Cardinality(in)
          /\ amounts.unreadable + Cardinality(DOMAIN lines \ Keepables(lines)) = Cardinality(out)
          /\ past + 1 <= Len(contents)
        BY DEF Progress, Carried
    <1>2. /\ Cardinality(in) \in Nat /\ Cardinality(out) \in Nat
          /\ Keepable(line) =>
                 /\ more = in \cup {past + 1} /\ Cardinality(more) = Cardinality(in) + 1
                 /\ lost = out
          /\ ~Keepable(line) => more = in /\ Cardinality(lost) = Cardinality(out) + 1
        BY OneMoreLine
    <1>3. /\ Cardinality(Keepables(lines)) \in Nat
          /\ Cardinality(DOMAIN lines \ Keepables(lines)) \in Nat
        BY KeepablesOf
    <1>4. amounts.stored \in Nat /\ amounts.already_present \in Nat /\ amounts.unreadable \in Nat
        BY DEF Summaries
    <1>5. ASSUME HasKeys(line)
          PROVE  Progress("scan", contents, past + 1, longer, amounts, kept)
        <2>1. line \in Lines
            BY <1>5 DEF HasKeys
        <2>2. /\ ToSet(longer) = ToSet(lines) \cup {line}
              /\ Keepable(line) =>
                     /\ Cardinality(Keepables(longer)) = Cardinality(Keepables(lines)) + 1
                     /\ DOMAIN longer \ Keepables(longer) = DOMAIN lines \ Keepables(lines)
              /\ ~Keepable(line) =>
                     /\ Keepables(longer) = Keepables(lines)
                     /\ Cardinality(DOMAIN longer \ Keepables(longer))
                            = Cardinality(DOMAIN lines \ Keepables(lines)) + 1
            BY <2>1, BatchGrows
        <2>3. \A b \in DOMAIN longer : HasKeys(longer[b])
            BY <1>1, <1>5, <2>1
        <2> HIDE DEF in, out, more, lost, longer, line
        <2>4. \A k \in more : contents[k] \in kept \cup ToSet(longer)
            BY <1>1, <1>2, <2>2 DEF line
        <2>5. amounts.stored + amounts.already_present + Cardinality(Keepables(longer))
                  = Cardinality(more)
            BY <1>1, <1>2, <1>3, <1>4, <2>2
        <2>6. amounts.unreadable + Cardinality(DOMAIN longer \ Keepables(longer))
                  = Cardinality(lost)
            <3>1. CASE Keepable(line)
                <4>1. DOMAIN longer \ Keepables(longer) = DOMAIN lines \ Keepables(lines)
                    BY <2>2, <3>1
                <4>2. lost = out
                    BY <1>2, <3>1
                <4>3. QED
                    BY <1>1, <4>1, <4>2
            <3>2. CASE ~Keepable(line)
                BY <1>1, <1>2, <1>3, <1>4, <2>2, <3>2
            <3>3. QED
                BY <3>1, <3>2
        <2>7. QED
            BY <1>1, <2>3, <2>4, <2>5, <2>6 DEF Progress, more, lost
    <1>6. ASSUME ~HasKeys(line)
          PROVE  Progress("scan", contents, past + 1, lines, noted, kept)
        <2>1. ~Keepable(line)
            BY <1>6 DEF Keepable
        <2>2. /\ noted.stored = amounts.stored /\ noted.already_present = amounts.already_present
              /\ noted.unreadable = amounts.unreadable + 1
            BY DEF Summaries
        <2> HIDE DEF in, out, more, lost, noted, line
        <2>3. \A k \in more : contents[k] \in kept \cup ToSet(lines)
            BY <1>1, <1>2, <2>1
        <2>4. noted.stored + noted.already_present + Cardinality(Keepables(lines))
                  = Cardinality(more)
            BY <1>1, <1>2, <2>1, <2>2
        <2>5. noted.unreadable + Cardinality(DOMAIN lines \ Keepables(lines)) = Cardinality(lost)
            BY <1>1, <1>2, <1>3, <1>4, <2>1, <2>2
        <2>6. QED
            BY <1>1, <2>3, <2>4, <2>5 DEF Progress, more, lost
    <1>7. QED
        BY <1>5, <1>6

\* One INSERT, for a batch without a line the database refuses.
LEMMA ProgressInserts ==
    ASSUME NEW contents \in Carried, NEW past \in Nat, NEW lines \in Seq(Lines),
           NEW amounts \in Summaries, NEW kept, NEW n \in 0..Len(lines),
           ToSet(lines) \cap Unstorable = {},
           Progress("scan", contents, past, lines, amounts, kept)
    PROVE  Progress("scan", contents, past, <<>>,
                    [amounts EXCEPT !.stored = @ + n, !.already_present = @ + Len(lines) - n],
                    kept \cup ToSet(lines))
    <1> DEFINE in == (1..past) \cap Keepables(contents)
               out == (1..past) \ Keepables(contents)
               counted == [amounts EXCEPT !.stored = @ + n,
                                          !.already_present = @ + Len(lines) - n]
    <1>1. /\ \A b \in DOMAIN lines : HasKeys(lines[b])
          /\ \A k \in in : contents[k] \in kept \cup ToSet(lines)
          /\ amounts.stored + amounts.already_present + Cardinality(Keepables(lines))
                 = Cardinality(in)
          /\ amounts.unreadable + Cardinality(DOMAIN lines \ Keepables(lines)) = Cardinality(out)
          /\ past <= Len(contents)
        BY DEF Progress
    <1>2. Keepables(lines) = DOMAIN lines
        BY <1>1 DEF Keepables, Keepable, ToSet
    <1>3. Cardinality(Keepables(lines)) = Len(lines)
        <2>1. Len(lines) \in Int /\ 1 \in Int /\ Len(lines) >= 0 /\ DOMAIN lines = 1..Len(lines)
            OBVIOUS
        <2>2. Cardinality(1..Len(lines)) = IF 1 > Len(lines) THEN 0 ELSE Len(lines) - 1 + 1
            BY <2>1, FS_Interval
        <2>3. QED
            BY <1>2, <2>1, <2>2
    <1>4. Cardinality(DOMAIN lines \ Keepables(lines)) = 0
        BY <1>2, FS_EmptySet
    <1>5. amounts.stored \in Nat /\ amounts.already_present \in Nat /\ amounts.unreadable \in Nat
        BY DEF Summaries
    <1>6. /\ counted.stored = amounts.stored + n
          /\ counted.already_present = amounts.already_present + Len(lines) - n
          /\ counted.unreadable = amounts.unreadable
        BY DEF Summaries
    <1>7. DOMAIN <<>> = {} /\ Keepables(<<>>) = {} /\ Cardinality({}) = 0
        BY FS_EmptySet DEF Keepables
    <1> HIDE DEF counted, in, out
    <1>8. Len(lines) \in Nat
        OBVIOUS
    <1>9. counted.stored + counted.already_present + Cardinality(Keepables(<<>>))
              = Cardinality(in)
        <2>1. amounts.stored + amounts.already_present + Len(lines) = Cardinality(in)
            BY <1>1, <1>3
        <2>2. Cardinality(Keepables(<<>>)) = 0
            BY <1>7
        <2>3. (amounts.stored + n) + (amounts.already_present + Len(lines) - n) + 0
                  = amounts.stored + amounts.already_present + Len(lines)
            BY <1>5, <1>8
        <2>4. QED
            BY <1>6, <2>1, <2>2, <2>3
    <1>10. counted.unreadable + Cardinality(DOMAIN <<>> \ Keepables(<<>>)) = Cardinality(out)
        <2>1. DOMAIN <<>> \ Keepables(<<>>) = {}
            BY <1>7
        <2>2. Cardinality(DOMAIN <<>> \ Keepables(<<>>)) = 0
            BY <1>7, <2>1
        <2>3. amounts.unreadable + 0 = Cardinality(out)
            BY <1>1, <1>4
        <2>4. QED
            BY <1>6, <2>2, <2>3
    <1>11. \A b \in DOMAIN <<>> : HasKeys(<<>>[b])
        BY <1>7
    <1>12. \A k \in in : contents[k] \in (kept \cup ToSet(lines)) \cup ToSet(<<>>)
        BY <1>1
    <1>13. Progress("scan", contents, past, <<>>, counted, kept \cup ToSet(lines))
        BY <1>1, <1>9, <1>10, <1>11, <1>12 DEF Progress, in, out
    <1>14. QED
        BY <1>13 DEF counted

\* One line of a refused batch.
LEMMA ProgressRetries ==
    ASSUME NEW contents \in Carried, NEW past \in Nat, NEW lines \in Seq(Lines), lines # <<>>,
           NEW amounts \in Summaries, NEW kept,
           NEW a \in Nat, NEW b \in Nat, NEW c \in Nat,
           a + b = (IF Head(lines) \in Unstorable THEN 0 ELSE 1),
           c = (IF Head(lines) \in Unstorable THEN 1 ELSE 0),
           Progress("fallback", contents, past, lines, amounts, kept)
    PROVE  Progress(IF Len(lines) = 1 THEN "scan" ELSE "fallback", contents, past, Tail(lines),
                    [amounts EXCEPT !.stored = @ + a, !.already_present = @ + b,
                                    !.unreadable = @ + c],
                    kept \cup ({Head(lines)} \ Unstorable))
    <1> DEFINE in == (1..past) \cap Keepables(contents)
               out == (1..past) \ Keepables(contents)
               line == Head(lines)
               rest == Tail(lines)
               counted == [amounts EXCEPT !.stored = @ + a, !.already_present = @ + b,
                                          !.unreadable = @ + c]
               more == kept \cup ({line} \ Unstorable)
    <1>1. /\ \A k \in DOMAIN lines : HasKeys(lines[k])
          /\ \A k \in in : contents[k] \in kept \cup ToSet(lines)
          /\ amounts.stored + amounts.already_present + Cardinality(Keepables(lines))
                 = Cardinality(in)
          /\ amounts.unreadable + Cardinality(DOMAIN lines \ Keepables(lines)) = Cardinality(out)
          /\ past <= Len(contents)
        BY DEF Progress
    <1>2. /\ ToSet(lines) = ToSet(rest) \cup {line}
          /\ \A k \in DOMAIN rest : k + 1 \in DOMAIN lines /\ rest[k] = lines[k + 1]
          /\ Keepable(line) =>
                 /\ Cardinality(Keepables(lines)) = Cardinality(Keepables(rest)) + 1
                 /\ Cardinality(DOMAIN lines \ Keepables(lines))
                        = Cardinality(DOMAIN rest \ Keepables(rest))
          /\ ~Keepable(line) =>
                 /\ Cardinality(Keepables(lines)) = Cardinality(Keepables(rest))
                 /\ Cardinality(DOMAIN lines \ Keepables(lines))
                        = Cardinality(DOMAIN rest \ Keepables(rest)) + 1
        BY BatchShrinks
    <1>3. rest \in Seq(Lines) /\ Len(lines) = Len(rest) + 1 /\ Len(rest) \in Nat
        BY HeadTailProperties
    <1>4. /\ Cardinality(Keepables(rest)) \in Nat
          /\ Cardinality(DOMAIN rest \ Keepables(rest)) \in Nat
        BY <1>3, KeepablesOf
    <1>5. amounts.stored \in Nat /\ amounts.already_present \in Nat /\ amounts.unreadable \in Nat
        BY DEF Summaries
    <1>6. /\ counted.stored = amounts.stored + a
          /\ counted.already_present = amounts.already_present + b
          /\ counted.unreadable = amounts.unreadable + c
        BY DEF Summaries
    <1>7. HasKeys(line)
        <2>1. 1 \in DOMAIN lines /\ line = lines[1]
            BY <1>3
        <2>2. QED
            BY <1>1, <2>1
    <1>8. Keepable(line) <=> line \notin Unstorable
        BY <1>7 DEF Keepable
    <1>9. \A k \in DOMAIN rest : HasKeys(rest[k])
        BY <1>1, <1>2
    <1>10. \A k \in in : Keepable(contents[k])
        BY DEF Keepables
    <1> HIDE DEF counted, in, out, line, rest, more
    <1>11. \A k \in in : contents[k] \in more \cup ToSet(rest)
        BY <1>1, <1>2, <1>8, <1>10 DEF more
    <1>12. counted.stored + counted.already_present + Cardinality(Keepables(rest))
               = Cardinality(in)
        <2>1. Cardinality(Keepables(lines)) = Cardinality(Keepables(rest)) + (a + b)
            <3>1. CASE Keepable(line)
                <4>1. a + b = 1
                    BY <1>8, <3>1 DEF line
                <4>2. QED
                    BY <1>2, <3>1, <4>1
            <3>2. CASE ~Keepable(line)
                <4>1. a + b = 0
                    BY <1>8, <3>2 DEF line
                <4>2. Cardinality(Keepables(lines)) = Cardinality(Keepables(rest))
                    BY <1>2, <3>2
                <4>3. QED
                    BY <1>4, <4>1, <4>2
            <3>3. QED
                BY <3>1, <3>2
        <2>2. (amounts.stored + a) + (amounts.already_present + b) + Cardinality(Keepables(rest))
                  = Cardinality(in)
            BY <1>1, <1>4, <1>5, <2>1, CarriedOver
        <2>3. QED
            BY <1>6, <2>2
    <1>13. counted.unreadable + Cardinality(DOMAIN rest \ Keepables(rest)) = Cardinality(out)
        <2>1. Cardinality(DOMAIN lines \ Keepables(lines))
                  = Cardinality(DOMAIN rest \ Keepables(rest)) + c
            <3>1. CASE Keepable(line)
                <4>1. c = 0
                    BY <1>8, <3>1 DEF line
                <4>2. Cardinality(DOMAIN lines \ Keepables(lines))
                          = Cardinality(DOMAIN rest \ Keepables(rest))
                    BY <1>2, <3>1
                <4>3. QED
                    BY <1>4, <4>1, <4>2
            <3>2. CASE ~Keepable(line)
                <4>1. c = 1
                    BY <1>8, <3>2 DEF line
                <4>2. QED
                    BY <1>2, <3>2, <4>1
            <3>3. QED
                BY <3>1, <3>2
        <2>2. (amounts.unreadable + c) + Cardinality(DOMAIN rest \ Keepables(rest))
                  = Cardinality(out)
            BY <1>1, <1>4, <1>5, <2>1, CarriedOverOne
        <2>3. QED
            BY <1>6, <2>2
    <1>14. Len(lines) # 1 => rest # <<>>
        BY <1>3
    <1>15. QED
        BY <1>1, <1>9, <1>11, <1>12, <1>13, <1>14 DEF Progress, in, out, rest, line, more, counted
-----------------------------------------------------------------------------
(* Passes *)

LEMMA PassNext ==
    ASSUME NEW j, stream' = stream,
           Progress(pc'[j], text'[j], at'[j], batch'[j], summary'[j], rows')
    PROVE  PassInv(j)'
    BY DEF PassInv, Progress, Keepables, Keepable, HasKeys

LEMMA PassKept ==
    ASSUME NEW j, PassInv(j), stream' = stream, rows \subseteq rows',
           pc'[j] = pc[j], text'[j] = text[j], at'[j] = at[j], batch'[j] = batch[j],
           summary'[j] = summary[j]
    PROVE  PassInv(j)'
    <1>1. Progress(pc[j], text[j], at[j], batch[j], summary[j], rows')
        BY ProgressKept DEF PassInv
    <1>2. QED
        BY <1>1, PassNext

\* A process outside its passes owes nothing.
LEMMA PassOver ==
    ASSUME NEW j, pc'[j] \notin {"scan", "fallback", "done"} PROVE PassInv(j)'
    BY DEF PassInv, Progress

LEMMA PassesInit == Init => PassesInv
    BY DEF Init, PassesInv, PassInv, Progress

LEMMA IngestingStep ==
    ASSUME TypeOK, PassesInv, NEW i \in Processes, Ingesting(i)
    PROVE  PassInv(i)'
    <1>0. /\ pc \in [Processes -> Places] /\ text \in [Processes -> Carried]
          /\ at \in [Processes -> Nat] /\ batch \in [Processes -> Seq(Lines)]
          /\ summary \in [Processes -> Summaries]
          /\ text[i] \in Carried /\ at[i] \in Nat /\ batch[i] \in Seq(Lines)
          /\ summary[i] \in Summaries /\ Len(batch[i]) \in Nat /\ Len(text[i]) \in Nat
        BY DEF TypeOK, Carried
    <1>1. stream' = stream
        BY DEF Ingesting, StartPass, Scan, InsertBatch, BatchRefused, InsertEvidence, PassFails,
               FinishPass
    <1>2. Progress(pc[i], text[i], at[i], batch[i], summary[i], rows)
        BY DEF PassesInv, PassInv
    <1>3. CASE StartPass(i)
        <2>1. PICK contents \in Contents : text' = [text EXCEPT ![i] = contents]
            BY <1>3 DEF StartPass
        <2>2. contents \in Carried
            <3>1. CASE half = NoLine
                BY <3>1 DEF Contents, TypeOK, Carried
            <3>2. CASE half # NoLine
                <4>1. PICK end \in {Torn, half} : contents = Append(file, end)
                    BY <3>2 DEF Contents
                <4>2. end \in Lines \cup {Torn} /\ file \in Seq(Lines \cup {Torn})
                    BY <3>2 DEF TypeOK
                <4>3. QED
                    BY <4>1, <4>2 DEF Carried
            <3>3. QED
                BY <3>1, <3>2
        <2>3. /\ pc'[i] = "scan" /\ text'[i] = contents /\ at'[i] = 0 /\ batch'[i] = <<>>
              /\ summary'[i] = NoCount
            BY <1>0, <1>3, <2>1 DEF StartPass, Goto
        <2>4. Progress("scan", contents, 0, <<>>, NoCount, rows')
            BY <2>2, ProgressStarts
        <2>5. QED
            BY <1>1, <2>3, <2>4, PassNext
    <1>4. CASE Scan(i)
        <2> DEFINE line == text[i][at[i] + 1]
                   noted == [summary[i] EXCEPT !.unreadable = @ + 1]
        <2>1. /\ pc[i] = "scan" /\ at[i] < Len(text[i]) /\ pc'[i] = "scan" /\ rows' = rows
              /\ text'[i] = text[i] /\ at'[i] = at[i] + 1
            BY <1>0, <1>4 DEF Scan, storeVars
        <2>2. /\ HasKeys(line) =>
                     Progress("scan", text[i], at[i] + 1, Append(batch[i], line), summary[i], rows)
              /\ ~HasKeys(line) =>
                     Progress("scan", text[i], at[i] + 1, batch[i], noted, rows)
            <3>1. Progress("scan", text[i], at[i], batch[i], summary[i], rows)
                BY <1>2, <2>1
            <3>2. QED
                BY <1>0, <2>1, <3>1, ProgressScans
        <2>3. CASE HasKeys(line)
            <3>1. batch'[i] = Append(batch[i], line) /\ summary'[i] = summary[i]
                BY <1>0, <1>4, <2>3 DEF Scan
            <3>2. QED
                BY <1>1, <2>1, <2>2, <2>3, <3>1, PassNext
        <2>4. CASE ~HasKeys(line)
            <3>1. batch'[i] = batch[i] /\ summary'[i] = noted
                BY <1>0, <1>4, <2>4 DEF Scan
            <3>2. QED
                BY <1>1, <2>1, <2>2, <2>4, <3>1, PassNext
        <2>5. QED
            BY <2>3, <2>4
    <1>5. CASE InsertBatch(i)
        <2> DEFINE n == Cardinality(NewRows(ToSet(batch[i])))
                   counted == [summary[i] EXCEPT !.stored = @ + n,
                                                 !.already_present = @ + Len(batch[i]) - n]
        <2>1. /\ pc[i] = "scan" /\ pc'[i] = "scan" /\ rows' = rows \cup ToSet(batch[i])
              /\ ToSet(batch[i]) \cap Unstorable = {}
              /\ text'[i] = text[i] /\ at'[i] = at[i] /\ batch'[i] = <<>>
              /\ summary'[i] = counted
            BY <1>0, <1>5 DEF InsertBatch
        <2>2. n \in 0..Len(batch[i])
            BY <1>0, NewRowsOfBatch
        <2>3. Progress("scan", text[i], at[i], batch[i], summary[i], rows)
            BY <1>2, <2>1
        <2> HIDE DEF n
        <2>4. Progress("scan", text[i], at[i], <<>>, counted, rows \cup ToSet(batch[i]))
            BY <1>0, <2>1, <2>2, <2>3, ProgressInserts
        <2>5. QED
            BY <1>1, <2>1, <2>4, PassNext
    <1>6. CASE BatchRefused(i)
        <2>1. /\ pc[i] = "scan" /\ pc'[i] = "fallback" /\ rows' = rows /\ batch[i] # <<>>
              /\ text'[i] = text[i] /\ at'[i] = at[i] /\ batch'[i] = batch[i]
              /\ summary'[i] = summary[i]
            BY <1>0, <1>6, IngestFacts
               DEF BatchRefused, BatchIsDue, Goto, storeVars, passVars
        <2>2. Progress("fallback", text[i], at[i], batch[i], summary[i], rows)
            BY <1>2, <2>1 DEF Progress
        <2>3. QED
            BY <1>1, <2>1, <2>2, PassNext
    <1>7. CASE InsertEvidence(i)
        <2> DEFINE line == Head(batch[i])
                   v == Verdict(line)
                   counted == [summary[i] EXCEPT !.stored = @ + v.stored,
                                                 !.already_present = @ + v.already_present,
                                                 !.unreadable = @ + v.unreadable]
                   label == IF Len(batch[i]) = 1 THEN "scan" ELSE "fallback"
        <2>1. /\ pc[i] = "fallback" /\ pc'[i] = label
              /\ rows' = rows \cup ({line} \ Unstorable)
              /\ text'[i] = text[i] /\ at'[i] = at[i] /\ batch'[i] = Tail(batch[i])
              /\ summary'[i] = counted
            BY <1>0, <1>7 DEF InsertEvidence, Goto, NewRows
        <2>2. /\ v.stored \in Nat /\ v.already_present \in Nat /\ v.unreadable \in Nat
              /\ v.stored + v.already_present = (IF line \in Unstorable THEN 0 ELSE 1)
              /\ v.unreadable = (IF line \in Unstorable THEN 1 ELSE 0)
            <3>1. line \in rows => line \notin Unstorable
                BY DEF TypeOK
            <3>2. QED
                BY <3>1, OneVerdict
        <2>3. Progress("fallback", text[i], at[i], batch[i], summary[i], rows) /\ batch[i] # <<>>
            BY <1>2, <2>1 DEF Progress
        <2> HIDE DEF v
        <2>4. Progress(label, text[i], at[i], Tail(batch[i]), counted,
                       rows \cup ({line} \ Unstorable))
            BY <1>0, <2>2, <2>3, ProgressRetries
        <2>5. QED
            BY <1>1, <2>1, <2>4, PassNext
    <1>8. CASE PassFails(i)
        <2>1. pc'[i] = "ready"
            BY <1>0, <1>8 DEF PassFails, Goto
        <2>2. QED
            BY <2>1, PassOver
    <1>9. CASE FinishPass(i)
        <2>1. /\ pc[i] = "scan" /\ pc'[i] = "done" /\ rows' = rows
              /\ at[i] = Len(text[i]) /\ batch[i] = <<>>
              /\ text'[i] = text[i] /\ at'[i] = at[i] /\ batch'[i] = batch[i]
              /\ summary'[i] = summary[i]
            BY <1>0, <1>9 DEF FinishPass, BatchIsDue, Goto, storeVars
        <2>2. Progress("done", text[i], at[i], batch[i], summary[i], rows)
            BY <1>2, <2>1 DEF Progress
        <2>3. QED
            BY <1>1, <2>1, <2>2, PassNext
    <1>10. QED
        BY <1>3, <1>4, <1>5, <1>6, <1>7, <1>8, <1>9 DEF Ingesting

LEMMA PassesStep == TypeOK /\ PassesInv /\ [Next]_vars => PassesInv'
    <1> SUFFICES ASSUME TypeOK, PassesInv, [Next]_vars PROVE PassesInv'
        OBVIOUS
    <1>0. /\ pc \in [Processes -> Places]
          /\ \A j \in Processes : PassInv(j)
        BY DEF TypeOK, PassesInv
    <1>1. CASE Writing
        <2>1. UNCHANGED <<stream, rows, pc, text, at, batch, summary>>
            BY <1>1 DEF Writing, WriteRest, TearThenAppend, WriteHalf, storeVars, passVars
        <2>2. QED
            BY <1>0, <2>1, PassKept DEF PassesInv
    <1>2. ASSUME NEW i \in Processes, Connecting(i) PROVE PassesInv'
        <2>1. UNCHANGED <<stream, rows, text, at, batch, summary>>
            BY <1>2 DEF Connecting, BuildPool, TakeLock, Migrate, RefuseNewer, DieMigrating,
                        storeVars, passVars
        <2>2. \E label \in Places \ {"scan", "fallback", "done"} : pc' = [pc EXCEPT ![i] = label]
            BY <1>2 DEF Connecting, BuildPool, TakeLock, Migrate, RefuseNewer, DieMigrating,
                        Goto, Places
        <2>3. ASSUME NEW j \in Processes PROVE PassInv(j)'
            <3>1. CASE j = i
                BY <1>0, <2>2, <3>1, PassOver
            <3>2. CASE j # i
                BY <1>0, <2>1, <2>2, <3>2, PassKept
            <3>3. QED
                BY <3>1, <3>2
        <2>4. QED
            BY <2>3 DEF PassesInv
    <1>3. ASSUME NEW i \in Processes, Ingesting(i) PROVE PassesInv'
        <2>1. stream' = stream /\ rows \subseteq rows'
            BY <1>3 DEF Ingesting, StartPass, Scan, InsertBatch, BatchRefused, InsertEvidence,
                        PassFails, FinishPass, storeVars
        <2>2. ASSUME NEW j \in Processes, j # i
              PROVE  /\ pc'[j] = pc[j] /\ text'[j] = text[j] /\ at'[j] = at[j]
                     /\ batch'[j] = batch[j] /\ summary'[j] = summary[j]
            <3>1. pc'[j] = pc[j]
                BY <1>0, <1>3, <2>2 DEF Ingesting, StartPass, Scan, InsertBatch, BatchRefused,
                   InsertEvidence, PassFails, FinishPass, Goto
            <3>2. text'[j] = text[j] /\ at'[j] = at[j]
                BY <1>3, <2>2 DEF Ingesting, StartPass, Scan, InsertBatch, BatchRefused,
                   InsertEvidence, PassFails, FinishPass, passVars, TypeOK
            <3>3. batch'[j] = batch[j]
                BY <1>3, <2>2 DEF Ingesting, StartPass, Scan, InsertBatch, BatchRefused,
                   InsertEvidence, PassFails, FinishPass, passVars, TypeOK
            <3>4. summary'[j] = summary[j]
                BY <1>3, <2>2 DEF Ingesting, StartPass, Scan, InsertBatch, BatchRefused,
                   InsertEvidence, PassFails, FinishPass, passVars, TypeOK
            <3>5. QED
                BY <3>1, <3>2, <3>3, <3>4
        <2>3. \A j \in Processes : j # i => PassInv(j)'
            BY <1>0, <2>1, <2>2, PassKept
        <2>4. PassInv(i)'
            BY <1>3, IngestingStep
        <2>5. QED
            BY <2>3, <2>4 DEF PassesInv
    <1>4. CASE UNCHANGED vars
        BY <1>0, <1>4, PassKept DEF PassesInv, vars, storeVars, passVars
    <1>5. QED
        BY <1>1, <1>2, <1>3, <1>4 DEF Next
-----------------------------------------------------------------------------
(* Claims *)

LEMMA ClaimsOfOne ==
    ASSUME NEW i, NEW n \in Nat
    PROVE  IsFiniteSet({i} \X (1..n)) /\ Cardinality({i} \X (1..n)) = n
    <1>1. IsFiniteSet({i}) /\ Cardinality({i}) = 1
        BY FS_Singleton
    <1>2. IsFiniteSet(1..n) /\ Cardinality(1..n) = n
        <2>1. 1 \in Int /\ n \in Int /\ n >= 0
            OBVIOUS
        <2>2. IsFiniteSet(1..n) /\ Cardinality(1..n) = IF 1 > n THEN 0 ELSE n - 1 + 1
            BY <2>1, FS_Interval
        <2>3. QED
            BY <2>1, <2>2
    <1>3. /\ IsFiniteSet({i} \X (1..n))
          /\ Cardinality({i} \X (1..n)) = Cardinality({i}) * Cardinality(1..n)
        BY <1>1, <1>2, FS_Product
    <1>4. 1 * n = n
        OBVIOUS
    <1>5. QED
        BY <1>1, <1>2, <1>3, <1>4

LEMMA ClaimsAreFinite ==
    ASSUME NEW f \in [Processes -> Nat]
    PROVE  IsFiniteSet(Claims(f)) /\ Cardinality(Claims(f)) \in Nat
    <1> DEFINE parts == {{i} \X (1..f[i]) : i \in Processes}
               g == [i \in Processes |-> {i} \X (1..f[i])]
    <1>1. g \in Surjection(Processes, parts)
        <2>1. g \in [Processes -> parts] /\ \A t \in parts : \E i \in Processes : g[i] = t
            BY Zenon
        <2>2. QED
            BY <2>1, Zenon DEF Surjection
    <1>2. IsFiniteSet(parts)
        BY <1>1, IngestFacts, FS_Surjection
    <1>3. \A t \in parts : IsFiniteSet(t)
        <2>1. ASSUME NEW i \in Processes PROVE IsFiniteSet({i} \X (1..f[i]))
            <3>1. f[i] \in Nat
                OBVIOUS
            <3>2. QED
                BY <3>1, ClaimsOfOne
        <2>2. QED
            BY <2>1, Zenon
    <1>4. IsFiniteSet(UNION parts)
        BY <1>2, <1>3, FS_UNION
    <1>5. IsFiniteSet(Claims(f))
        BY <1>4 DEF Claims
    <1>6. QED
        BY <1>5, FS_CardinalityType

LEMMA DisjointParts ==
    ASSUME NEW A, NEW B, IsFiniteSet(A), IsFiniteSet(B), A \cap B = {}
    PROVE  Cardinality(A \cup B) = Cardinality(A) + Cardinality(B)
    <1>1. /\ Cardinality(A \cup B) = Cardinality(A) + Cardinality(B) - Cardinality(A \cap B)
          /\ Cardinality(A) \in Nat /\ Cardinality(B) \in Nat
        BY FS_Union, FS_CardinalityType
    <1>2. Cardinality(A \cap B) = 0
        BY FS_EmptySet
    <1>3. QED
        BY <1>1, <1>2

\* The claims of all passes move with those of the one pass that moves.
LEMMA ClaimsMove ==
    ASSUME NEW f \in [Processes -> Nat], NEW g \in [Processes -> Nat], NEW i \in Processes,
           \A j \in Processes : j # i => g[j] = f[j]
    PROVE  Cardinality(Claims(f)) + g[i] = Cardinality(Claims(g)) + f[i]
    <1> DEFINE others == UNION {{j} \X (1..f[j]) : j \in Processes \ {i}}
               minef == {i} \X (1..f[i])
               mineg == {i} \X (1..g[i])
    <1>1. Claims(f) = others \cup minef
        BY DEF Claims
    <1>2. Claims(g) = others \cup mineg
        BY DEF Claims
    <1>3. others \cap minef = {} /\ others \cap mineg = {}
        OBVIOUS
    <1>4. IsFiniteSet(others)
        BY <1>1, ClaimsAreFinite, FS_Subset
    <1>5. /\ IsFiniteSet(minef) /\ Cardinality(minef) = f[i]
          /\ IsFiniteSet(mineg) /\ Cardinality(mineg) = g[i]
        BY ClaimsOfOne
    <1> HIDE DEF others, minef, mineg
    <1>6. Cardinality(others) \in Nat /\ Cardinality({}) = 0
        BY <1>4, FS_CardinalityType, FS_EmptySet
    <1>7. Cardinality(Claims(f)) = Cardinality(others) + f[i]
        BY <1>1, <1>3, <1>4, <1>5, DisjointParts
    <1>8. Cardinality(Claims(g)) = Cardinality(others) + g[i]
        BY <1>2, <1>3, <1>4, <1>5, DisjointParts
    <1>9. f[i] \in Nat /\ g[i] \in Nat
        OBVIOUS
    <1>10. QED
        BY <1>6, <1>7, <1>8, <1>9
LEMMA ClaimsInFlight ==
    /\ TypeOK => InFlight \in [Processes -> Nat]
    /\ TypeOK' => InFlight' \in [Processes -> Nat]
    BY DEF TypeOK, InFlight, Summaries

LEMMA ClaimInit == Init => ClaimInv
    <1> SUFFICES ASSUME Init PROVE ClaimInv
        OBVIOUS
    <1>1. IsFiniteSet({}) /\ Cardinality({}) = 0
        BY FS_EmptySet
    <1>2. InFlight = [i \in Processes |-> 0]
        BY DEF Init, InFlight
    <1>3. Claims(InFlight) = {}
        <2>1. \A i \in Processes : {i} \X (1..InFlight[i]) = {}
            BY <1>2
        <2>2. QED
            BY <2>1 DEF Claims
    <1>4. rows = {} /\ reported = 0
        BY DEF Init
    <1>5. Claimed = 0
        BY <1>1, <1>3, <1>4 DEF Claimed
    <1>6. QED
        BY <1>1, <1>4, <1>5 DEF ClaimInv, EachRowIsClaimedOnce

\* A pass claims the rows its step adds, none when the step adds none.
LEMMA ClaimsFollowRows ==
    ASSUME TypeOK, TypeOK', ClaimInv, NEW i \in Processes, NEW n \in Nat,
           \A j \in Processes : j # i => InFlight'[j] = InFlight[j],
           InFlight'[i] = InFlight[i] + n, reported' = reported, aborted' = aborted,
           IsFiniteSet(rows'), Cardinality(rows') = Cardinality(rows) + n
    PROVE  ClaimInv'
    <1> DEFINE before == Cardinality(Claims(InFlight))
               after == Cardinality(Claims(InFlight'))
    <1>1. InFlight \in [Processes -> Nat] /\ InFlight' \in [Processes -> Nat]
        BY ClaimsInFlight
    <1>2. before \in Nat /\ after \in Nat
        BY <1>1, ClaimsAreFinite
    <1>3. before + InFlight'[i] = after + InFlight[i]
        BY <1>1, ClaimsMove
    <1>4. InFlight[i] \in Nat /\ reported \in Nat /\ Cardinality(rows) \in Nat
        BY <1>1, FS_CardinalityType DEF TypeOK, ClaimInv
    <1>5. /\ reported + before <= Cardinality(rows)
          /\ ~aborted => reported + before = Cardinality(rows)
        BY DEF ClaimInv, EachRowIsClaimedOnce, Claimed
    <1>6. Claimed' = reported' + after
        BY DEF Claimed
    <1> HIDE DEF before, after
    <1>7. after = before + n
        BY <1>2, <1>3, <1>4
    <1>8. Claimed' <= Cardinality(rows') /\ (~aborted' => Claimed' = Cardinality(rows'))
        BY <1>2, <1>4, <1>5, <1>6, <1>7
    <1>9. QED
        BY <1>8 DEF ClaimInv, EachRowIsClaimedOnce

LEMMA ClaimsKept ==
    ASSUME TypeOK, TypeOK', ClaimInv, NEW i \in Processes,
           \A j \in Processes : InFlight'[j] = InFlight[j],
           UNCHANGED <<rows, reported, aborted>>
    PROVE  ClaimInv'
    <1>1. InFlight[i] \in Nat /\ Cardinality(rows) \in Nat /\ IsFiniteSet(rows)
        BY ClaimsInFlight, FS_CardinalityType DEF ClaimInv
    <1>2. InFlight'[i] = InFlight[i] + 0 /\ Cardinality(rows') = Cardinality(rows) + 0
        BY <1>1
    <1>3. QED
        BY <1>1, <1>2, ClaimsFollowRows

\* What a pass claimed as it went, it reports when it ends.
LEMMA ClaimsReported ==
    ASSUME TypeOK, TypeOK', ClaimInv, NEW i \in Processes,
           \A j \in Processes : j # i => InFlight'[j] = InFlight[j],
           InFlight'[i] = 0, reported' = reported + InFlight[i], UNCHANGED <<rows, aborted>>
    PROVE  ClaimInv'
    <1> DEFINE before == Cardinality(Claims(InFlight))
               after == Cardinality(Claims(InFlight'))
    <1>1. InFlight \in [Processes -> Nat] /\ InFlight' \in [Processes -> Nat]
        BY ClaimsInFlight
    <1>2. before \in Nat /\ after \in Nat
        BY <1>1, ClaimsAreFinite
    <1>3. before + InFlight'[i] = after + InFlight[i]
        BY <1>1, ClaimsMove
    <1>4. InFlight[i] \in Nat /\ reported \in Nat
        BY <1>1 DEF TypeOK
    <1>5. Claimed = reported + before /\ Claimed' = reported' + after
        BY DEF Claimed
    <1> HIDE DEF before, after
    <1>6. Claimed' = Claimed
        BY <1>2, <1>3, <1>4, <1>5
    <1>7. QED
        BY <1>6 DEF ClaimInv, EachRowIsClaimedOnce

\* A failed pass claims nothing; rows it stored stay unclaimed.
LEMMA ClaimsDropped ==
    ASSUME TypeOK, TypeOK', ClaimInv, NEW i \in Processes,
           \A j \in Processes : j # i => InFlight'[j] = InFlight[j],
           InFlight'[i] = 0, reported' = reported, aborted',
           IsFiniteSet(rows'), rows \subseteq rows'
    PROVE  ClaimInv'
    <1> DEFINE before == Cardinality(Claims(InFlight))
               after == Cardinality(Claims(InFlight'))
    <1>1. InFlight \in [Processes -> Nat] /\ InFlight' \in [Processes -> Nat]
        BY ClaimsInFlight
    <1>2. before \in Nat /\ after \in Nat
        BY <1>1, ClaimsAreFinite
    <1>3. before + InFlight'[i] = after + InFlight[i]
        BY <1>1, ClaimsMove
    <1>4. InFlight[i] \in Nat /\ reported \in Nat
        BY <1>1 DEF TypeOK
    <1>5. /\ Cardinality(rows) <= Cardinality(rows')
          /\ Cardinality(rows) \in Nat /\ Cardinality(rows') \in Nat
        BY FS_Subset, FS_CardinalityType DEF ClaimInv
    <1>6. reported + before <= Cardinality(rows)
        BY DEF ClaimInv, EachRowIsClaimedOnce, Claimed
    <1>7. Claimed' = reported' + after
        BY DEF Claimed
    <1> HIDE DEF before, after
    <1>8. Claimed' <= Cardinality(rows')
        BY <1>2, <1>3, <1>4, <1>5, <1>6, <1>7
    <1>9. QED
        BY <1>8 DEF ClaimInv, EachRowIsClaimedOnce
LEMMA FlightIs ==
    ASSUME TypeOK, TypeOK', NEW i \in Processes
    PROVE  /\ InFlight[i] = IF pc[i] \in {"scan", "fallback"} THEN summary[i].stored ELSE 0
           /\ InFlight'[i] = IF pc'[i] \in {"scan", "fallback"} THEN summary'[i].stored ELSE 0
    BY DEF InFlight

LEMMA ClaimsOfIngesting ==
    ASSUME TypeOK, TypeOK', PassesInv, ClaimInv, NEW i \in Processes, Ingesting(i)
    PROVE  ClaimInv'
    <1>0. /\ pc \in [Processes -> Places] /\ summary \in [Processes -> Summaries]
          /\ batch[i] \in Seq(Lines) /\ Len(batch[i]) \in Nat
          /\ summary[i].stored \in Nat
          /\ IsFiniteSet(rows) /\ Cardinality(rows) \in Nat
        <2>1. /\ pc \in [Processes -> Places] /\ summary \in [Processes -> Summaries]
              /\ batch[i] \in Seq(Lines)
            BY DEF TypeOK
        <2>2. summary[i].stored \in Nat
            BY <2>1 DEF Summaries
        <2>3. IsFiniteSet(rows)
            BY DEF ClaimInv
        <2>4. QED
            BY <2>1, <2>2, <2>3, FS_CardinalityType
    <1>1. \A j \in Processes : j # i => InFlight'[j] = InFlight[j]
        <2> SUFFICES ASSUME NEW j \in Processes, j # i PROVE InFlight'[j] = InFlight[j]
            OBVIOUS
        <2>1. pc'[j] = pc[j]
            BY <1>0 DEF Ingesting, StartPass, Scan, InsertBatch, BatchRefused, InsertEvidence,
                        PassFails, FinishPass, Goto
        <2>2. summary'[j] = summary[j]
            BY DEF Ingesting, StartPass, Scan, InsertBatch, BatchRefused, InsertEvidence,
                   PassFails, FinishPass, passVars, TypeOK
        <2>3. QED
            BY <2>1, <2>2, FlightIs
    <1>2. CASE StartPass(i) \/ Scan(i) \/ BatchRefused(i)
        <2>1. UNCHANGED <<rows, reported, aborted>>
            BY <1>2 DEF StartPass, Scan, BatchRefused, storeVars, passVars
        <2>2. InFlight'[i] = InFlight[i]
            <3>1. CASE StartPass(i)
                <4>1. pc[i] \in {"ready", "done"} /\ pc'[i] = "scan" /\ summary'[i] = NoCount
                    BY <1>0, <3>1 DEF StartPass, Goto
                <4>2. NoCount.stored = 0
                    BY DEF NoCount, Count
                <4>3. QED
                    BY <4>1, <4>2, FlightIs
            <3>2. CASE Scan(i)
                <4>1. pc[i] = "scan" /\ pc'[i] = "scan"
                    BY <3>2 DEF Scan
                <4>2. summary'[i].stored = summary[i].stored
                    BY <1>0, <3>2 DEF Scan, Summaries
                <4>3. QED
                    BY <4>1, <4>2, FlightIs
            <3>3. CASE BatchRefused(i)
                <4>1. pc[i] = "scan" /\ pc'[i] = "fallback" /\ summary'[i] = summary[i]
                    BY <1>0, <3>3 DEF BatchRefused, Goto, passVars
                <4>2. QED
                    BY <4>1, FlightIs
            <3>4. QED
                BY <1>2, <3>1, <3>2, <3>3
        <2>3. QED
            BY <1>1, <2>1, <2>2, ClaimsKept
    <1>3. CASE InsertBatch(i)
        <2> DEFINE new == NewRows(ToSet(batch[i]))
                   n == Cardinality(new)
        <2>1. /\ pc[i] = "scan" /\ pc'[i] = "scan" /\ rows' = rows \cup new
              /\ reported' = reported /\ aborted' = aborted
            BY <1>3 DEF InsertBatch, NewRows
        <2>2. summary'[i].stored = summary[i].stored + n
            BY <1>0, <1>3 DEF InsertBatch, Summaries
        <2>3. IsFiniteSet(new) /\ n \in Nat
            BY <1>0, NewRowsOfBatch
        <2>4. rows \cap new = {}
            BY DEF NewRows
        <2> HIDE DEF new
        <2>5. IsFiniteSet(rows') /\ Cardinality(rows') = Cardinality(rows) + n
            BY <1>0, <2>1, <2>3, <2>4, DisjointParts, FS_Union
        <2>6. InFlight'[i] = InFlight[i] + n
            BY <2>1, <2>2, FlightIs
        <2>7. QED
            BY <1>1, <2>1, <2>3, <2>5, <2>6, ClaimsFollowRows
    <1>4. CASE InsertEvidence(i)
        <2> DEFINE line == Head(batch[i])
                   n == IF line \in rows \cup Unstorable THEN 0 ELSE 1
                   new == {line} \ (rows \cup Unstorable)
        <2>1. /\ pc[i] = "fallback" /\ pc'[i] \in {"scan", "fallback"}
              /\ rows' = rows \cup new
              /\ reported' = reported /\ aborted' = aborted
            BY <1>0, <1>4 DEF InsertEvidence, Goto, NewRows
        <2>2. summary'[i].stored = summary[i].stored + Verdict(line).stored
            BY <1>0, <1>4 DEF InsertEvidence, Summaries
        <2>3. Verdict(line).stored = n
            BY OneVerdict
        <2>4. IsFiniteSet(new) /\ Cardinality(new) = n /\ rows \cap new = {} /\ n \in Nat
            <3>1. IsFiniteSet({line}) /\ Cardinality({line}) = 1
                BY FS_Singleton
            <3>2. IsFiniteSet({}) /\ Cardinality({}) = 0
                BY FS_EmptySet
            <3>3. new = IF line \in rows \cup Unstorable THEN {} ELSE {line}
                OBVIOUS
            <3>4. rows \cap new = {} /\ n \in Nat
                OBVIOUS
            <3> HIDE DEF new, line
            <3>5. QED
                BY <3>1, <3>2, <3>3, <3>4
        <2> HIDE DEF new, n, line
        <2>5. IsFiniteSet(rows') /\ Cardinality(rows') = Cardinality(rows) + n
            BY <1>0, <2>1, <2>4, DisjointParts, FS_Union
        <2>6. InFlight'[i] = InFlight[i] + n
            BY <2>1, <2>2, <2>3, FlightIs
        <2>7. QED
            BY <1>1, <2>1, <2>4, <2>5, <2>6, ClaimsFollowRows
    <1>5. CASE PassFails(i)
        <2>1. pc'[i] = "ready" /\ reported' = reported /\ aborted'
            BY <1>0, <1>5 DEF PassFails, Goto
        <2>2. InFlight'[i] = 0
            BY <2>1, FlightIs
        <2>3. rows' = rows \/ rows' = rows \cup {Head(batch[i])} \/ rows' = rows \cup ToSet(batch[i])
            BY <1>5 DEF PassFails
        <2>4. IsFiniteSet(ToSet(batch[i])) /\ IsFiniteSet({Head(batch[i])})
            BY <1>0, DistinctLines, FS_Singleton
        <2>5. IsFiniteSet(rows') /\ rows \subseteq rows'
            BY <1>0, <2>3, <2>4, FS_Union
        <2>6. QED
            BY <1>1, <2>1, <2>2, <2>5, ClaimsDropped
    <1>6. CASE FinishPass(i)
        <2>1. /\ pc[i] = "scan" /\ pc'[i] = "done" /\ reported' = reported + summary[i].stored
              /\ UNCHANGED <<rows, aborted>>
            BY <1>0, <1>6 DEF FinishPass, Goto, storeVars
        <2>2. InFlight'[i] = 0 /\ InFlight[i] = summary[i].stored
            BY <2>1, FlightIs
        <2>3. QED
            BY <1>1, <2>1, <2>2, ClaimsReported
    <1>7. QED
        BY <1>2, <1>3, <1>4, <1>5, <1>6 DEF Ingesting
LEMMA ClaimStep == TypeOK /\ TypeOK' /\ PassesInv /\ ClaimInv /\ [Next]_vars => ClaimInv'
    <1> SUFFICES ASSUME TypeOK, TypeOK', PassesInv, ClaimInv, [Next]_vars PROVE ClaimInv'
        OBVIOUS
    <1>0. pc \in [Processes -> Places]
        BY DEF TypeOK
    <1>1. CASE Writing \/ UNCHANGED vars
        <2>1. UNCHANGED <<rows, reported, aborted, pc, summary>>
            BY <1>1 DEF Writing, WriteRest, TearThenAppend, WriteHalf, storeVars, passVars, vars
        <2>2. Claimed' = Claimed
            BY <2>1 DEF Claimed, InFlight, Claims
        <2>3. QED
            BY <2>1, <2>2 DEF ClaimInv, EachRowIsClaimedOnce
    <1>2. ASSUME NEW i \in Processes, Connecting(i) PROVE ClaimInv'
        <2>1. UNCHANGED <<rows, reported, aborted, summary>>
            BY <1>2 DEF Connecting, BuildPool, TakeLock, Migrate, RefuseNewer, DieMigrating,
                        storeVars, passVars
        <2>2. /\ \E label \in Places \ {"scan", "fallback"} : pc' = [pc EXCEPT ![i] = label]
              /\ pc[i] \notin {"scan", "fallback"}
            BY <1>2 DEF Connecting, BuildPool, TakeLock, Migrate, RefuseNewer, DieMigrating,
                        Goto, Places
        <2>3. ASSUME NEW j \in Processes PROVE InFlight'[j] = InFlight[j]
            BY <1>0, <2>1, <2>2, FlightIs
        <2>4. QED
            BY <2>1, <2>3, ClaimsKept
    <1>3. ASSUME NEW i \in Processes, Ingesting(i) PROVE ClaimInv'
        BY <1>3, ClaimsOfIngesting
    <1>4. QED
        BY <1>1, <1>2, <1>3 DEF Next
-----------------------------------------------------------------------------
(* Theorems *)

LEMMA IngestInvariant == Spec => []IngestInv
    <1>1. Init => IngestInv
        BY TypeInit, SchemaInit, PassesInit, ClaimInit DEF IngestInv, SchemaInv
    <1>2. IngestInv /\ [Next]_vars => IngestInv'
        BY TypeStep, SchemaStep, PassesStep, ClaimStep DEF IngestInv, SchemaInv
    <1>3. QED
        BY <1>1, <1>2, PTL DEF Spec

\* Every variable keeps its type: only storable lines reach the table, and the
\* amounts of an IngestSummary never go below zero (ingest_batch subtracts).
THEOREM TypeCorrect == Spec => []TypeOK
    <1>1. IngestInv => TypeOK
        BY DEF IngestInv, SchemaInv
    <1>2. QED
        BY <1>1, IngestInvariant, PTL

\* However many processes migrate together, whatever version the store has and
\* wherever one of them dies, no step is skipped and none is applied twice
\* (migrate, SCHEMA_LOCK_KEY).
THEOREM SerialUpgrades == Spec => []UpgradesAreSerial
    <1>1. IngestInv => UpgradesAreSerial
        BY DEF IngestInv, SchemaInv
    <1>2. QED
        BY <1>1, IngestInvariant, PTL

\* A pass that ends has stored every storable line of what it was given and
\* counted each line once, for any batch size and any other passes beside it
\* (ingest_evidence).
THEOREM CompletePasses == Spec => []FinishedPassIsComplete
    <1>1. IngestInv => FinishedPassIsComplete
        <2> SUFFICES ASSUME IngestInv, NEW i \in Processes, pc[i] = "done"
                     PROVE  /\ \A k \in Keepables(text[i]) : text[i][k] \in rows
                            /\ summary[i].unreadable
                                   = Cardinality(DOMAIN text[i] \ Keepables(text[i]))
                            /\ summary[i].stored + summary[i].already_present
                                   = Cardinality(Keepables(text[i]))
            BY DEF FinishedPassIsComplete
        <2> DEFINE all == Keepables(text[i])
        <2>1. Progress("done", text[i], at[i], batch[i], summary[i], rows) /\ TypeOK
            BY DEF IngestInv, SchemaInv, PassesInv, PassInv
        <2>2. /\ text[i] \in Carried /\ summary[i].unreadable \in Nat
              /\ summary[i].stored \in Nat /\ summary[i].already_present \in Nat
            <3>1. text[i] \in Carried /\ summary[i] \in Summaries
                BY <2>1 DEF TypeOK, Carried
            <3>2. QED
                BY <3>1 DEF Summaries
        <2>3. at[i] = Len(text[i]) /\ batch[i] = <<>>
            BY <2>1 DEF Progress
        <2>4. all \subseteq 1..at[i] /\ DOMAIN text[i] = 1..at[i]
            BY <2>2, <2>3, KeepablesOf DEF Carried
        <2>5. (1..at[i]) \cap all = all /\ (1..at[i]) \ all = DOMAIN text[i] \ all
            BY <2>4
        <2>6. DOMAIN <<>> = {} /\ Keepables(<<>>) = {} /\ ToSet(<<>>) = {}
            BY DEF Keepables, ToSet
        <2>7. /\ Cardinality(Keepables(batch[i])) = 0
              /\ Cardinality(DOMAIN batch[i] \ Keepables(batch[i])) = 0
              /\ ToSet(batch[i]) = {}
            BY <2>3, <2>6, FS_EmptySet
        <2>8. /\ \A k \in (1..at[i]) \cap all : text[i][k] \in rows \cup ToSet(batch[i])
              /\ summary[i].stored + summary[i].already_present
                     + Cardinality(Keepables(batch[i])) = Cardinality((1..at[i]) \cap all)
              /\ summary[i].unreadable + Cardinality(DOMAIN batch[i] \ Keepables(batch[i]))
                     = Cardinality((1..at[i]) \ all)
            BY <2>1 DEF Progress
        <2> HIDE DEF all
        <2>9. \A k \in all : text[i][k] \in rows
            BY <2>5, <2>7, <2>8
        <2>10. summary[i].unreadable = Cardinality(DOMAIN text[i] \ all)
            <3>1. summary[i].unreadable + 0 = Cardinality((1..at[i]) \ all)
                BY <2>7, <2>8
            <3>2. Cardinality((1..at[i]) \ all) = Cardinality(DOMAIN text[i] \ all)
                BY <2>5
            <3>3. QED
                BY <2>2, <3>1, <3>2
        <2>11. summary[i].stored + summary[i].already_present = Cardinality(all)
            <3>1. summary[i].stored + summary[i].already_present + 0
                      = Cardinality((1..at[i]) \cap all)
                BY <2>7, <2>8
            <3>2. Cardinality((1..at[i]) \cap all) = Cardinality(all)
                BY <2>5
            <3>3. QED
                BY <2>2, <3>1, <3>2
        <2>12. QED
            BY <2>9, <2>10, <2>11 DEF all
    <1>2. QED
        BY <1>1, IngestInvariant, PTL

\* However many processes read a growing and torn file however often, no row is
\* claimed as stored by two passes, and unless a pass failed every row is claimed
\* (ON CONFLICT DO NOTHING, rows affected).
THEOREM OneClaimPerRow == Spec => []EachRowIsClaimedOnce
    <1>1. IngestInv => EachRowIsClaimedOnce
        BY DEF IngestInv, ClaimInv
    <1>2. QED
        BY <1>1, IngestInvariant, PTL
=============================================================================
