-------------------------- MODULE DatasetPublication --------------------------
(***************************************************************************)
(* Publication of dataset snapshots: import processes that store what they *)
(* fetched as artifacts and then register it, in one PostgreSQL            *)
(* transaction (READ COMMITTED), as a published snapshot with its          *)
(* partition and its audit event.  Two imports of the same dataset meet at *)
(* the unique index on the snapshot's name.  publish_fixture is an import  *)
(* whose response has no pages.                                            *)
(***************************************************************************)
EXTENDS Naturals, Sequences, Functions

CONSTANTS
  Procs,        \* CLI processes, each with a session of its own
  Names,        \* dataset names: symbol, timeframe, range, schema version
  Artifacts,    \* byte strings, standing for their content-addressed keys
  Responses,    \* complete fetches: [name, pages (raw, in order), csv]
  None,
  MaxCalls,     \* bound on the imports of one process
  MaxFaults     \* bound on kills, failed statements and lost answers

ASSUME PublicationAssumption ==
  /\ Responses \subseteq [name : Names, pages : Seq(Artifacts), csv : Artifacts]
  /\ MaxCalls \in Nat /\ MaxFaults \in Nat
  /\ None \notin Responses

Ids == Procs \X (0..MaxCalls)    \* uuid4: no two calls draw the same
Row == [id : Ids, doc : Responses]
ASSUME NoneAssumption == None \notin Row

VARIABLES
  stored,       \* keys the artifact store holds
  rows,         \* rows[n]: the committed dataset_snapshots row named n
  partitions,   \* committed dataset_partitions, [id, csv]
  events,       \* committed "dataset_snapshot.published" audit events
  tx,           \* tx[p]: what p's transaction has inserted and not committed
  pc,
  job,          \* job[p]: what p's fetch returned
  left,         \* left[p]: artifacts p has yet to publish
  calls,        \* calls[p]: number of imports p has begun
  answer,       \* answer[p]: how p's last import ended
  faults

tables == <<rows, partitions, events>>
vars == <<stored, tables, tx, pc, job, left, calls, answer, faults>>

Goto(p, l) == pc' = [pc EXCEPT ![p] = l]
Answer(p, status) == Goto(p, "idle") /\ answer' = [answer EXCEPT ![p] = status]
Fault == faults < MaxFaults /\ faults' = faults + 1

\* build_and_hash_manifest hashes neither the id nor the publication time, but
\* the provenance, and with it every raw page: equal hashes are equal fetches.
SameManifest(row, r) == row.doc = r

MyRow(p) == [id |-> <<p, calls[p]>>, doc |-> job[p]]
MyName(p) == job[p].name

Partition == [id : Ids, csv : Artifacts]
Event == [entity : Ids, manifest : Responses]
NoInserts == [row |-> None, partitions |-> {}, events |-> {}]
EndTransaction(p) == tx' = [tx EXCEPT ![p] = NoInserts]

Init ==
  /\ stored = {}
  /\ rows = [n \in Names |-> None]
  /\ partitions = {}
  /\ events = {}
  /\ tx = [p \in Procs |-> NoInserts]
  /\ pc = [p \in Procs |-> "idle"]
  /\ job = [p \in Procs |-> None]
  /\ left = [p \in Procs |-> <<>>]
  /\ calls = [p \in Procs |-> 0]
  /\ answer = [p \in Procs |-> "none"]
  /\ faults = 0

\* import_klines up to a fetch that covers its range.
Fetched(p, r) ==
  /\ pc[p] = "idle" /\ calls[p] < MaxCalls
  /\ calls' = [calls EXCEPT ![p] = @ + 1]
  /\ job' = [job EXCEPT ![p] = r]
  /\ left' = [left EXCEPT ![p] = Append(r.pages, r.csv)]
  /\ answer' = [answer EXCEPT ![p] = "none"]
  /\ Goto(p, "publish")
  /\ UNCHANGED <<stored, tables, tx, faults>>

\* Faulty variant: the raw pages are published only if someone else did.
PublishArtifactCsvOnly(p) ==
  /\ pc[p] = "publish"
  /\ stored' = stored \cup {job[p].csv}
  /\ left' = [left EXCEPT ![p] = <<>>]
  /\ Goto(p, "lookup")
  /\ UNCHANGED <<tables, tx, job, calls, answer, faults>>

\* The raw pages in order, then the canonical CSV.
PublishArtifact(p) ==
  /\ pc[p] = "publish"
  /\ stored' = stored \cup {Head(left[p])}
  /\ left' = [left EXCEPT ![p] = Tail(@)]
  /\ Goto(p, IF Len(left[p]) = 1 THEN "lookup" ELSE "publish")
  /\ UNCHANGED <<tables, tx, job, calls, answer, faults>>

\* Faulty variant: any snapshot of that name will do.
LookupByNameOnly(p) ==
  /\ pc[p] = "lookup"
  /\ IF rows[MyName(p)] = None
     THEN Goto(p, "insert_row") /\ UNCHANGED answer
     ELSE Answer(p, "existing")
  /\ UNCHANGED <<stored, tables, tx, job, left, calls, faults>>

\* get_by_name: one statement, which sees what is committed now.
Lookup(p) ==
  LET existing == rows[MyName(p)] IN
  /\ pc[p] = "lookup"
  /\ IF existing = None
     THEN Goto(p, "insert_row") /\ UNCHANGED answer
     ELSE Answer(p, IF SameManifest(existing, job[p]) THEN "existing" ELSE "duplicate")
  /\ UNCHANGED <<stored, tables, tx, job, left, calls, faults>>

\* An uncommitted insert of the same name holds the index entry.
Blocked(p) ==
  \E q \in Procs \ {p} : tx[q].row # None /\ tx[q].row.doc.name = MyName(p)

\* Faulty variants: no unique index; a unique violation is retried.
InsertRowUnindexed(p) ==
  /\ pc[p] = "insert_row"
  /\ tx' = [tx EXCEPT ![p].row = MyRow(p)]
  /\ Goto(p, "insert_partition")
  /\ UNCHANGED <<stored, tables, job, left, calls, answer, faults>>

InsertRowRetrying(p) ==
  pc[p] = "insert_row" /\ ~Blocked(p) /\ rows[MyName(p)] = None /\ InsertRowUnindexed(p)

\* The first flush of create_published_snapshot.  It waits for the other
\* transaction, and fails if that one committed.
InsertRow(p) ==
  /\ pc[p] = "insert_row" /\ ~Blocked(p)
  /\ IF rows[MyName(p)] = None
     THEN /\ tx' = [tx EXCEPT ![p].row = MyRow(p)]
          /\ Goto(p, "insert_partition")
          /\ UNCHANGED answer
     ELSE Answer(p, "unique_violation") /\ UNCHANGED tx
  /\ UNCHANGED <<stored, tables, job, left, calls, faults>>

\* The second flush, and the reload of what this transaction alone sees.
InsertPartition(p) ==
  /\ pc[p] = "insert_partition"
  /\ tx' = [tx EXCEPT ![p].partitions = {[id |-> tx[p].row.id, csv |-> job[p].csv]}]
  /\ Goto(p, "append_event")
  /\ UNCHANGED <<stored, tables, job, left, calls, answer, faults>>

PublishedEvent(p) == [entity |-> tx[p].row.id, manifest |-> job[p]]

\* Faulty variant: the audit log has a session of its own.
AppendEventOwnSession(p) ==
  /\ pc[p] = "append_event"
  /\ events' = events \cup {PublishedEvent(p)}
  /\ Goto(p, "commit")
  /\ UNCHANGED <<stored, rows, partitions, tx, job, left, calls, answer, faults>>

\* AuditEventService.append stages the event in the caller's transaction.
AppendEvent(p) ==
  /\ pc[p] = "append_event"
  /\ tx' = [tx EXCEPT ![p].events = {PublishedEvent(p)}]
  /\ Goto(p, "commit")
  /\ UNCHANGED <<stored, tables, job, left, calls, answer, faults>>

\* session.commit(): the server makes everything inserted visible at once.
Commit(p) ==
  /\ pc[p] = "commit"
  /\ rows' = [rows EXCEPT ![MyName(p)] = tx[p].row]
  /\ partitions' = partitions \cup tx[p].partitions
  /\ events' = events \cup tx[p].events
  /\ EndTransaction(p)
  /\ Goto(p, "committed")
  /\ UNCHANGED <<stored, job, left, calls, answer, faults>>

ReturnCreated(p) ==
  /\ pc[p] = "committed"
  /\ Answer(p, "created")
  /\ UNCHANGED <<stored, tables, tx, job, left, calls, faults>>

-----------------------------------------------------------------------------
(* Failures.                                                               *)

\* publish_bytes or a statement raises, or the connection is lost: the CLI
\* rolls back and exits with 1.  Losing it at the commit leaves open whether
\* the server committed.
StepFails(p) ==
  /\ pc[p] \in {"publish", "lookup", "insert_row", "insert_partition",
                "append_event", "commit", "committed"}
  /\ Fault
  /\ EndTransaction(p)
  /\ Answer(p, "error")
  /\ UNCHANGED <<stored, tables, job, left, calls>>

\* The process is killed; the server still holds its open transaction.
Crash(p) ==
  /\ pc[p] \notin {"idle", "dead"} /\ Fault
  /\ Goto(p, "dead")
  /\ UNCHANGED <<stored, tables, tx, job, left, calls, answer>>

\* The server sees the connection closed and rolls back.
ServerAborts(p) ==
  /\ pc[p] = "dead"
  /\ EndTransaction(p)
  /\ Goto(p, "idle")
  /\ UNCHANGED <<stored, tables, job, left, calls, answer, faults>>

Step(p) ==
  \/ PublishArtifact(p)
  \/ Lookup(p)
  \/ InsertRow(p)
  \/ InsertPartition(p)
  \/ AppendEvent(p)
  \/ Commit(p)
  \/ ReturnCreated(p)
  \/ ServerAborts(p)

Next == \E p \in Procs :
  \/ \E r \in Responses : Fetched(p, r)
  \/ Step(p)
  \/ StepFails(p)
  \/ Crash(p)

Spec == Init /\ [][Next]_vars
-----------------------------------------------------------------------------
(* Properties.                                                             *)

TypeOK ==
  /\ stored \subseteq Artifacts
  /\ rows \in [Names -> Row \cup {None}]
  /\ partitions \subseteq Partition
  /\ events \subseteq Event
  /\ tx \in [Procs -> [row : Row \cup {None}, partitions : SUBSET Partition,
                      events : SUBSET Event]]
  /\ pc \in [Procs -> {"idle", "publish", "lookup", "insert_row", "insert_partition",
                       "append_event", "commit", "committed", "dead"}]
  /\ job \in [Procs -> Responses \cup {None}]
  /\ left \in [Procs -> Seq(Artifacts)]
  /\ calls \in [Procs -> 0..MaxCalls]
  /\ answer \in [Procs -> {"none", "created", "existing", "duplicate",
                           "unique_violation", "error"}]
  /\ faults \in 0..MaxFaults

\* Whatever failed and whoever was killed, a visible snapshot is a complete one:
\* its raw pages and its CSV are stored, it has its partition and exactly the
\* one audit event of the transaction that made it.
SnapshotsComplete ==
  \A n \in Names : rows[n] # None =>
    LET id == rows[n].id  doc == rows[n].doc IN
    /\ doc.name = n
    /\ Range(doc.pages) \cup {doc.csv} \subseteq stored
    /\ {x \in partitions : x.id = id} = {[id |-> id, csv |-> doc.csv]}
    /\ {e \in events : e.entity = id} = {[entity |-> id, manifest |-> doc]}

\* The other way round, no failed or losing import leaves a trace: every audit
\* event and every partition belongs to a snapshot that is visible.
NoPhantoms ==
  \A id \in {x.id : x \in partitions} \cup {e.entity : e \in events} :
    \E n \in Names : rows[n] # None /\ rows[n].id = id

\* What the CLI printed is true and stays true: "created" to exactly the import
\* whose row is there, "existing" only for the same manifest under another id,
\* a duplicate only where the published manifest differs, and a unique violation
\* only for an import that lost to a published one.
AnswersTrue ==
  \A p \in {q \in Procs : job[q] # None} : LET row == rows[MyName(p)] IN
    /\ answer[p] = "created" => row = MyRow(p)
    /\ answer[p] \in {"existing", "duplicate", "unique_violation"} =>
         row # None /\ row.id # <<p, calls[p]>>
    /\ answer[p] = "existing" => SameManifest(row, job[p])
    /\ answer[p] = "duplicate" => ~SameManifest(row, job[p])

\* A published snapshot is never rewritten and the audit log only grows, however
\* the provider's history drifts between two imports of the same range.
PublishedIsFinal ==
  [][/\ \A n \in Names : rows[n] # None => rows'[n] = rows[n]
     /\ partitions \subseteq partitions'
     /\ events \subseteq events']_tables

\* Nobody waits for ever: an import blocked on the index of a name ends once the
\* transaction before it does, also when that one's process is dead.
FairSpec == Spec /\ \A p \in Procs : WF_vars(Step(p))
ImportsEnd == \A p \in Procs : pc[p] # "idle" ~> pc[p] = "idle"

\* README.md: "the same import identity and logical content returns the existing
\* snapshot (created=false)".  The logical content of an import is its candles,
\* that is its canonical CSV.
ReimportIsIdempotent ==
  \A p \in Procs : answer[p] = "duplicate" => rows[job[p].name].doc.csv # job[p].csv
=============================================================================
