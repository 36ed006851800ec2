---------------------------- MODULE ArtifactStore ----------------------------
(***************************************************************************)
(* LocalFilesystemArtifactStore: the content-addressed store every CLI     *)
(* process publishes to and every API process reads from, at the           *)
(* granularity of file-system calls.  Nothing serialises the processes but *)
(* the atomicity of link(2), so their calls interleave freely, and any     *)
(* process may be killed between two calls.                                *)
(***************************************************************************)
EXTENDS Naturals

CONSTANTS
  Procs,        \* processes that hold a store object on the same root
  Contents,     \* byte strings a process may publish
  Descs,        \* (media type, file name, published_at) of a publish call
  Keys,         \* artifact keys, sha256/ab/cd/<digest>
  Digest,       \* Digest[c]: the key of c; collisions are not excluded
  Size,         \* Size[c]: number of bytes of c
  None,         \* no file, no value
  Torn,         \* bytes that no process asked to publish, of no key
  MaxCrashes    \* bound on kills

Record == [size : Nat, desc : Descs]    \* a metadata file

ASSUME StoreAssumption ==
  /\ Digest \in [Contents -> Keys]
  /\ Size \in [Contents -> Nat]
  /\ None \notin Contents \cup Descs /\ None \notin Record
  /\ Torn \notin Contents \cup {None} /\ Torn \notin Record
  /\ MaxCrashes \in Nat

VARIABLES
  objects,      \* objects[k]: the file objects/<k>
  meta,         \* meta[k]: the file meta/<k>.json
  pc,           \* pc[p]: where p is in its call, "idle" between calls
  job,          \* job[p]: the arguments of p's call
  tmp,          \* tmp[p]: p's file under tmp/
  seen,         \* seen[p]: object bytes p has read and verified
  answer,       \* answer[p]: how p's last call ended
  orphans,      \* number of files under tmp/ whose writer is dead
  crashes

vars == <<objects, meta, pc, job, tmp, seen, answer, orphans, crashes>>
files == <<objects, meta>>

Failures == {"not_found", "integrity", "collision", "no_metadata",
             "bad_metadata", "io"}
Answer == [status : {"none", "ok"} \cup Failures,
           data : Contents \cup {None}, desc : Descs \cup {None}]
NoAnswer == [status |-> "none", data |-> None, desc |-> None]
Failed(why) == [status |-> why, data |-> None, desc |-> None]
Job == [op : {"publish", "open", "describe"}, key : Keys,
        data : Contents \cup {None}, desc : Descs \cup {None}]

Goto(p, l) == pc' = [pc EXCEPT ![p] = l]

\* What a link to p's temporary file shows: all of it only after the fsync.
Linked(p, whole) == IF tmp[p] = "synced" THEN whole ELSE Torn

\* sha256(data) is the key's last component.
HashesTo(f, k) == f \in Contents /\ Digest[f] = k

\* Faulty variant: trusts the path, does not hash.
OpenBytesUnhashed(k) == IF objects[k] = None THEN "not_found" ELSE "ok"

\* open_bytes: what a reader of key k meets now.
OpenBytes(k) ==
  IF objects[k] = None THEN "not_found"
  ELSE IF HashesTo(objects[k], k) THEN "ok" ELSE "integrity"

\* The record parses and fits these bytes (its key and digest do by its path).
Describes(m, f) == m \notin {None, Torn} /\ m.size = Size[f]

Finish(p, a) ==
  /\ Goto(p, "idle")
  /\ answer' = [answer EXCEPT ![p] = a]

\* An exception: the finally block first unlinks a temporary file still there.
Raise(p, why) ==
  /\ Goto(p, IF tmp[p] = "none" THEN "idle" ELSE "clean_failed")
  /\ answer' = [answer EXCEPT ![p] = Failed(why)]

Init ==
  /\ objects = [k \in Keys |-> None]
  /\ meta = [k \in Keys |-> None]
  /\ pc = [p \in Procs |-> "idle"]
  /\ job \in [Procs -> {[op |-> "open", key |-> k, data |-> None, desc |-> None] : k \in Keys}]
  /\ tmp = [p \in Procs |-> "none"]
  /\ seen = [p \in Procs |-> None]
  /\ answer = [p \in Procs |-> NoAnswer]
  /\ orphans = 0
  /\ crashes = 0

-----------------------------------------------------------------------------
(* Calls.                                                                  *)

Start(p, j, l) ==
  /\ pc[p] = "idle"
  /\ job' = [job EXCEPT ![p] = j]
  /\ seen' = [seen EXCEPT ![p] = None]
  /\ answer' = [answer EXCEPT ![p] = NoAnswer]
  /\ Goto(p, l)
  /\ UNCHANGED <<objects, meta, tmp, orphans, crashes>>

\* publish_bytes, and publish_file once it has read its source.
StartPublish(p, c, d) ==
  Start(p, [op |-> "publish", key |-> Digest[c], data |-> c, desc |-> d],
        "stat_object")

\* open_bytes and get_metadata.
StartRead(p, op, k) ==
  Start(p, [op |-> op, key |-> k, data |-> None, desc |-> None], "read_object")

\* Faulty variant: takes the metadata as proof that the object is there.
StatObjectTrustsMeta(p) ==
  /\ pc[p] = "stat_object"
  /\ Goto(p, IF meta[job[p].key] # None THEN "read_object"
             ELSE IF objects[job[p].key] = None THEN "create_object" ELSE "verify_object")
  /\ UNCHANGED <<objects, meta, job, tmp, seen, answer, orphans, crashes>>

\* final_path.exists()
StatObject(p) ==
  /\ pc[p] = "stat_object"
  /\ Goto(p, IF objects[job[p].key] = None THEN "create_object" ELSE "verify_object")
  /\ UNCHANGED <<objects, meta, job, tmp, seen, answer, orphans, crashes>>

\* Faulty variant: an object that is there is taken to be fully published.
VerifyObjectNoRepair(p) ==
  LET k == job[p].key IN
  /\ pc[p] = "verify_object"
  /\ IF OpenBytes(k) = "ok" /\ objects[k] = job[p].data
     THEN Goto(p, "read_object") /\ UNCHANGED answer
     ELSE Raise(p, "collision")
  /\ UNCHANGED <<objects, meta, job, tmp, seen, orphans, crashes>>

\* The object was there already: open_bytes hashes it, then it is compared.
VerifyObject(p) ==
  LET k == job[p].key IN
  /\ pc[p] = "verify_object"
  /\ \/ OpenBytes(k) # "ok" /\ Raise(p, OpenBytes(k))
     \/ OpenBytes(k) = "ok" /\ objects[k] # job[p].data /\ Raise(p, "collision")
     \/ OpenBytes(k) = "ok" /\ objects[k] = job[p].data
        /\ Goto(p, "stat_meta") /\ UNCHANGED answer
  /\ UNCHANGED <<objects, meta, job, tmp, seen, orphans, crashes>>

\* tempfile.mkstemp, then the first bytes reach the file.
Create(p, at, next) ==
  /\ pc[p] = at
  /\ tmp' = [tmp EXCEPT ![p] = "partial"]
  /\ Goto(p, next)
  /\ UNCHANGED <<objects, meta, job, seen, answer, orphans, crashes>>

\* Faulty variant: the file is linked before it is written and synced.
CreateObjectTmpUnsynced(p) == Create(p, "create_object", "link_object")

CreateObjectTmp(p) == Create(p, "create_object", "sync_object")
CreateMetaTmp(p) == Create(p, "create_meta", "sync_meta")

\* write, flush, fsync.
Sync(p, at, next) ==
  /\ pc[p] = at
  /\ tmp' = [tmp EXCEPT ![p] = "synced"]
  /\ Goto(p, next)
  /\ UNCHANGED <<objects, meta, job, seen, answer, orphans, crashes>>

SyncObjectTmp(p) == Sync(p, "sync_object", "link_object")
SyncMetaTmp(p) == Sync(p, "sync_meta", "link_meta")

\* Faulty variant: a failed object write is swallowed.
WriteFailsSwallowed(p) ==
  /\ pc[p] \in {"create_object", "sync_object"}
  /\ Goto(p, "stat_meta")
  /\ UNCHANGED <<objects, meta, job, tmp, seen, answer, orphans, crashes>>

\* mkstemp, write or fsync fails (a full disk), or link does for a reason
\* other than the destination being there.
WriteFails(p) ==
  /\ pc[p] \in {"create_object", "sync_object", "create_meta", "sync_meta"}
  /\ Raise(p, "io")
  /\ UNCHANGED <<objects, meta, job, tmp, seen, orphans, crashes>>

LinkFails(p) ==
  /\ \/ pc[p] = "link_object" /\ objects[job[p].key] = None
     \/ pc[p] = "link_meta" /\ meta[job[p].key] = None
  /\ Raise(p, "io")
  /\ UNCHANGED <<objects, meta, job, tmp, seen, orphans, crashes>>

\* Faulty variant: os.replace in place of os.link.
LinkObjectReplacing(p) ==
  /\ pc[p] = "link_object"
  /\ objects' = [objects EXCEPT ![job[p].key] = Linked(p, job[p].data)]
  /\ Goto(p, "clean_object")
  /\ UNCHANGED <<meta, job, tmp, seen, answer, orphans, crashes>>

\* os.link never replaces: exactly one of several racing calls creates the name.
LinkObject(p) ==
  LET k == job[p].key IN
  /\ pc[p] = "link_object"
  /\ IF objects[k] = None
     THEN /\ objects' = [objects EXCEPT ![k] = Linked(p, job[p].data)]
          /\ Goto(p, "clean_object")
     ELSE /\ Goto(p, "compare_object")
          /\ UNCHANGED objects
  /\ UNCHANGED <<meta, job, tmp, seen, answer, orphans, crashes>>

\* Faulty variant: the winner's bytes are taken to be the loser's.
CompareObjectSkipped(p) ==
  /\ pc[p] = "compare_object"
  /\ Goto(p, "clean_object")
  /\ UNCHANGED <<objects, meta, job, tmp, seen, answer, orphans, crashes>>

\* The loser of the race compares what won, without hashing it.
CompareObject(p) ==
  /\ pc[p] = "compare_object"
  /\ IF objects[job[p].key] = job[p].data
     THEN Goto(p, "clean_object") /\ UNCHANGED answer
     ELSE Raise(p, "collision")
  /\ UNCHANGED <<objects, meta, job, tmp, seen, orphans, crashes>>

\* tmp_path.unlink(missing_ok=True), on the way on or on the way out.
Unlink(p) ==
  /\ pc[p] \in {"clean_object", "clean_meta", "clean_failed"}
  /\ tmp' = [tmp EXCEPT ![p] = "none"]
  /\ Goto(p, CASE pc[p] = "clean_object" -> "stat_meta"
               [] pc[p] = "clean_meta"   -> "read_object"
               [] pc[p] = "clean_failed" -> "idle")
  /\ UNCHANGED <<objects, meta, job, seen, answer, orphans, crashes>>

\* meta_path.exists(); an object without metadata is repaired here.
StatMeta(p) ==
  /\ pc[p] = "stat_meta"
  /\ Goto(p, IF meta[job[p].key] = None THEN "create_meta" ELSE "read_object")
  /\ UNCHANGED <<objects, meta, job, tmp, seen, answer, orphans, crashes>>

\* Faulty variants: the last record replaces the first; the loser retries.
LinkMetaReplacing(p) ==
  /\ pc[p] = "link_meta"
  /\ meta' = [meta EXCEPT ![job[p].key] =
                Linked(p, [size |-> Size[job[p].data], desc |-> job[p].desc])]
  /\ Goto(p, "clean_meta")
  /\ UNCHANGED <<objects, job, tmp, seen, answer, orphans, crashes>>

LinkMetaRetrying(p) == meta[job[p].key] = None /\ LinkMetaReplacing(p)

\* The loser's record is dropped: the first persisted metadata wins.
LinkMeta(p) ==
  LET k == job[p].key
      candidate == [size |-> Size[job[p].data], desc |-> job[p].desc] IN
  /\ pc[p] = "link_meta"
  /\ meta' = IF meta[k] = None
             THEN [meta EXCEPT ![k] = Linked(p, candidate)]
             ELSE meta
  /\ Goto(p, "clean_meta")
  /\ UNCHANGED <<objects, job, tmp, seen, answer, orphans, crashes>>

\* open_bytes, the first half of get_metadata and of every publish's answer.
ReadObject(p) ==
  LET k == job[p].key IN
  /\ pc[p] = "read_object"
  /\ \/ OpenBytes(k) # "ok" /\ Raise(p, OpenBytes(k)) /\ UNCHANGED seen
     \/ /\ OpenBytes(k) = "ok"
        /\ seen' = [seen EXCEPT ![p] = objects[k]]
        /\ IF job[p].op = "open"
           THEN Finish(p, [status |-> "ok", data |-> objects[k], desc |-> None])
           ELSE Goto(p, "read_meta") /\ UNCHANGED answer
  /\ UNCHANGED <<objects, meta, job, tmp, orphans, crashes>>

\* The second half: the record must describe the bytes read before it.
ReadMeta(p) ==
  LET m == meta[job[p].key] IN
  /\ pc[p] = "read_meta"
  /\ \/ m = None /\ Raise(p, "no_metadata")
     \/ m # None /\ ~Describes(m, seen[p]) /\ Raise(p, "bad_metadata")
     \/ Describes(m, seen[p])
        /\ Finish(p, [status |-> "ok", data |-> seen[p], desc |-> m.desc])
  /\ UNCHANGED <<objects, meta, job, tmp, seen, orphans, crashes>>

\* kill -9: the call never answers and its temporary file is never removed,
\* neither now nor when the store is constructed again.
Crash(p) ==
  /\ pc[p] # "idle" /\ crashes < MaxCrashes
  /\ Goto(p, "idle")
  /\ orphans' = IF tmp[p] = "none" THEN orphans ELSE orphans + 1
  /\ tmp' = [tmp EXCEPT ![p] = "none"]
  /\ answer' = [answer EXCEPT ![p] = NoAnswer]
  /\ crashes' = crashes + 1
  /\ UNCHANGED <<objects, meta, job, seen>>

Step(p) ==
  \/ StatObject(p)
  \/ VerifyObject(p)
  \/ CreateObjectTmp(p)
  \/ SyncObjectTmp(p)
  \/ LinkObject(p)
  \/ CompareObject(p)
  \/ Unlink(p)
  \/ StatMeta(p)
  \/ CreateMetaTmp(p)
  \/ SyncMetaTmp(p)
  \/ LinkMeta(p)
  \/ ReadObject(p)
  \/ ReadMeta(p)
  \/ WriteFails(p)
  \/ LinkFails(p)

Request(p) ==
  \/ \E c \in Contents, d \in Descs : StartPublish(p, c, d)
  \/ \E op \in {"open", "describe"}, k \in Keys : StartRead(p, op, k)

Next == \E p \in Procs : Request(p) \/ Step(p) \/ Crash(p)

Spec == Init /\ [][Next]_vars
-----------------------------------------------------------------------------
(* Properties.                                                             *)

Locations == {"idle", "stat_object", "verify_object", "create_object", "sync_object",
              "link_object", "compare_object", "clean_object", "stat_meta", "create_meta",
              "sync_meta", "link_meta", "clean_meta", "clean_failed", "read_object",
              "read_meta"}

TypeOK ==
  /\ objects \in [Keys -> Contents \cup {None, Torn}]
  /\ meta \in [Keys -> Record \cup {None, Torn}]
  /\ pc \in [Procs -> Locations]
  /\ job \in [Procs -> Job]
  /\ tmp \in [Procs -> {"none", "partial", "synced"}]
  /\ seen \in [Procs -> Contents \cup {None}]
  /\ answer \in [Procs -> Answer]
  /\ orphans \in Nat
  /\ crashes \in 0..MaxCrashes

\* Whenever a name exists under objects/, it shows the whole content its key
\* was computed from: no reader, however it interleaves with the writers and
\* wherever they are killed, finds an empty or half-written object.
ObjectsWhole == \A k \in Keys : objects[k] # None => HashesTo(objects[k], k)

\* A metadata file is never there without its object and always describes the
\* very bytes that are there, whichever two publishers created the two files.
MetaDescribesObject ==
  \A k \in Keys : meta[k] # None =>
    /\ objects[k] # None
    /\ Describes(meta[k], objects[k])

\* A call that returned told the truth and it stays the truth: publish_bytes
\* returns only when the key addresses the publisher's own bytes (also when it
\* lost the race to create them), and the metadata it returns is the persisted
\* one, not the candidate it may have lost with.
AnswersTrue ==
  \A p \in Procs : answer[p].status = "ok" =>
    LET k == job[p].key IN
    /\ answer[p].data = objects[k]
    /\ job[p].op = "publish" => answer[p].data = job[p].data
    /\ job[p].op # "open" => meta[k] # None /\ answer[p].desc = meta[k].desc

\* No interleaving and no kill makes a later call fail: short of an I/O error,
\* publishing fails only when other bytes with the same digest are there, and
\* only a reader can find an object or its metadata missing.  And only a kill
\* leaves a file behind under tmp/: every way out of a publish, the winning,
\* the losing and the failing ones, unlinks its temporary file.
FailuresExplained ==
  /\ orphans <= crashes /\ \A p \in Procs : pc[p] = "idle" => tmp[p] = "none"
  /\ \A p \in Procs : LET s == answer[p].status  j == job[p] IN
       /\ s \notin {"integrity", "bad_metadata"}
       /\ s \in {"not_found", "no_metadata"} => j.op # "publish"
       /\ s = "collision" => /\ j.op = "publish"
                             /\ objects[j.key] \in Contents \ {j.data}

\* Existing object and metadata files are never replaced, truncated or removed.
FilesAreFinal ==
  [][\A k \in Keys : /\ objects[k] # None => objects'[k] = objects[k]
                     /\ meta[k] # None => meta'[k] = meta[k]]_files

\* The store is wait-free: a process that keeps taking steps ends its call
\* whatever the others do, even if they are dead in the middle of theirs.
FairSpec == Spec /\ \A p \in Procs : WF_vars(Step(p))
CallsReturn == \A p \in Procs : pc[p] # "idle" ~> pc[p] = "idle"

\* The store implements the registry: a client was told something exactly when
\* its last call returned normally.
Registry == INSTANCE WriteOnceRegistry WITH
  bytes <- objects,
  record <- [k \in Keys |-> IF meta[k] = None THEN None ELSE meta[k].desc],
  told <- [p \in Procs |-> IF answer[p].status = "ok"
                           THEN [key |-> job[p].key, data |-> answer[p].data,
                                 desc |-> answer[p].desc]
                           ELSE None]
ImplementsRegistry == Registry!Spec
=============================================================================
