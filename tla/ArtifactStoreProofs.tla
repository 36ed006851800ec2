-------------------------- MODULE ArtifactStoreProofs --------------------------
(***************************************************************************)
(* What the artifact store guarantees for every number of processes, keys  *)
(* and contents, with colliding digests and any number of kills: its       *)
(* invariants, that it implements the write-once registry, and what is     *)
(* left of them when the power fails and files rot.                        *)
(***************************************************************************)
EXTENDS ArtifactStoreFaults, FiniteSetTheorems, TLAPS

(***************************************************************************)
(* The inductive invariant.  PInv is what each process relies on between   *)
(* two of its file-system calls; the others' steps preserve it because     *)
(* files are final, and its own steps by the guards of the code.           *)
(***************************************************************************)

Reading == {"idle", "read_object", "read_meta", "clean_failed"}

\* publish_bytes holds a key that its own bytes hash to.
JobFits(p) ==
  /\ job[p].op = "publish" =>
       job[p].data \in Contents /\ job[p].desc \in Descs /\ job[p].key = Digest[job[p].data]
  /\ pc[p] \notin Reading => job[p].op = "publish"

\* A temporary file is whole before its name is linked.
SyncedBeforeLink(p) == pc[p] \in {"link_object", "link_meta"} => tmp[p] = "synced"

\* From here on the object of the key is the publisher's own content.
Settled == {"clean_object", "stat_meta", "create_meta", "sync_meta", "link_meta",
            "clean_meta", "read_object", "read_meta"}
ObjectIsMine(p) ==
  pc[p] \in Settled /\ job[p].op = "publish" => objects[job[p].key] = job[p].data

\* What get_metadata checks the record against is still the object.
SeenIsObject(p) ==
  pc[p] = "read_meta" => seen[p] = objects[job[p].key] /\ seen[p] \in Contents

\* An answer was read off the files, and they cannot change any more.
AnswerTrue(p) ==
  answer[p].status = "ok" =>
    LET k == job[p].key IN
    /\ answer[p].data \in Contents
    /\ answer[p].data = objects[k]
    /\ job[p].op = "publish" => answer[p].data = job[p].data
    /\ job[p].op # "open" => meta[k] # None /\ answer[p].desc = meta[k].desc

PInv(p) ==
  /\ JobFits(p)
  /\ SyncedBeforeLink(p)
  /\ ObjectIsMine(p)
  /\ SeenIsObject(p)
  /\ AnswerTrue(p)

IInv ==
  /\ TypeOK
  /\ ObjectsWhole
  /\ MetaDescribesObject
  /\ \A p \in Procs : PInv(p)

ProcessStep(p) == Request(p) \/ Step(p) \/ Crash(p)
-----------------------------------------------------------------------------
(* Type correctness.                                                       *)

\* A store whose root has just been laid out is well typed.
LEMMA InitTyped == Init => TypeOK
BY StoreAssumption DEF Init, TypeOK, Locations, Job, Answer, NoAnswer

\* Starting a call leaves the state well typed.
LEMMA RequestTyped ==
  ASSUME TypeOK, NEW p \in Procs, Request(p)
  PROVE  TypeOK'
<1>1. CASE \E c \in Contents, d \in Descs : StartPublish(p, c, d)
  BY <1>1, StoreAssumption
  DEF TypeOK, Locations, StartPublish, Start, Goto, Job, Answer, NoAnswer
<1>2. CASE \E op \in {"open", "describe"}, k \in Keys : StartRead(p, op, k)
  BY <1>2, StoreAssumption
  DEF TypeOK, Locations, StartRead, Start, Goto, Job, Answer, NoAnswer
<1> QED BY <1>1, <1>2 DEF Request

\* Raising an exception is a well-typed way out of a call.
LEMMA RaiseTyped ==
  ASSUME TypeOK, NEW p \in Procs, NEW why \in Failures, Raise(p, why),
         UNCHANGED <<objects, meta, job, tmp, seen, orphans, crashes>>
  PROVE  TypeOK'
BY DEF TypeOK, Locations, Answer, Raise, Goto, Failed

\* Every file-system call of a process leaves the state well typed.
LEMMA StepTyped ==
  ASSUME TypeOK, NEW p \in Procs, JobFits(p), Step(p)
  PROVE  TypeOK'
<1> DEFINE k == job[p].key
<1>k. job[p] \in Job /\ k \in Keys /\ objects[k] \in Contents \cup {None, Torn}
  BY DEF TypeOK, Job
<1>f. ASSUME OpenBytes(k) # "ok" PROVE OpenBytes(k) \in Failures
  BY <1>f DEF OpenBytes, Failures
<1>1. CASE StatObject(p)  BY <1>1 DEF StatObject, TypeOK, Locations, Goto
<1>2. CASE VerifyObject(p)
  <2>1. CASE OpenBytes(k) # "ok" /\ Raise(p, OpenBytes(k))
    BY <1>2, <2>1, <1>f, RaiseTyped DEF VerifyObject
  <2>2. CASE Raise(p, "collision")
    BY <1>2, <2>2, RaiseTyped DEF VerifyObject, Failures
  <2>3. CASE Goto(p, "stat_meta") /\ UNCHANGED answer
    BY <1>2, <2>3 DEF VerifyObject, TypeOK, Locations, Goto
  <2> QED BY <1>2, <2>1, <2>2, <2>3 DEF VerifyObject
<1>3. CASE CreateObjectTmp(p)  BY <1>3 DEF CreateObjectTmp, Create, TypeOK, Locations, Goto
<1>4. CASE SyncObjectTmp(p)  BY <1>4 DEF SyncObjectTmp, Sync, TypeOK, Locations, Goto
<1>5. CASE LinkObject(p)
  <2>1. job[p].data \in Contents \cup {None}  BY <1>k DEF Job
  <2> QED BY <1>5, <1>k, <2>1 DEF LinkObject, Linked, TypeOK, Locations, Goto
<1>6. CASE CompareObject(p)
  BY <1>6, RaiseTyped DEF CompareObject, Failures, TypeOK, Locations, Goto
<1>7. CASE Unlink(p)  BY <1>7 DEF Unlink, TypeOK, Locations, Goto
<1>8. CASE StatMeta(p)  BY <1>8 DEF StatMeta, TypeOK, Locations, Goto
<1>9. CASE CreateMetaTmp(p)  BY <1>9 DEF CreateMetaTmp, Create, TypeOK, Locations, Goto
<1>10. CASE SyncMetaTmp(p)  BY <1>10 DEF SyncMetaTmp, Sync, TypeOK, Locations, Goto
<1>11. CASE LinkMeta(p)
  <2> DEFINE candidate == [size |-> Size[job[p].data], desc |-> job[p].desc]
  <2>1. candidate \in Record
    BY <1>11, StoreAssumption DEF LinkMeta, JobFits, Reading, Record
  <2>2. meta' \in [Keys -> Record \cup {None, Torn}]
    <3> HIDE DEF candidate
    <3>1. meta' = meta \/ meta' = [meta EXCEPT ![k] = Linked(p, candidate)]
      BY <1>11 DEF LinkMeta, candidate
    <3> QED BY <3>1, <2>1 DEF Linked, TypeOK
  <2> QED BY <1>11, <2>2 DEF LinkMeta, TypeOK, Locations, Goto
<1>12. CASE ReadObject(p)
  <2>1. CASE OpenBytes(k) # "ok" /\ Raise(p, OpenBytes(k)) /\ UNCHANGED seen
    BY <1>12, <2>1, <1>f, RaiseTyped DEF ReadObject
  <2>2. CASE OpenBytes(k) = "ok"
    <3>1. objects[k] \in Contents  BY <2>2 DEF OpenBytes, HashesTo
    <3>2. [status |-> "ok", data |-> objects[k], desc |-> None] \in Answer
      BY <3>1 DEF Answer
    <3>3. pc' \in [Procs -> Locations]
      BY <1>12, <2>2 DEF ReadObject, TypeOK, Locations, Goto, Finish
    <3>4. answer' \in [Procs -> Answer]
      BY <1>12, <2>2, <3>2 DEF ReadObject, TypeOK, Finish
    <3> QED BY <1>12, <2>2, <3>1, <3>3, <3>4 DEF ReadObject, TypeOK
  <2> QED BY <1>12, <2>1, <2>2 DEF ReadObject
<1>13. CASE ReadMeta(p)
  <2>1. CASE Raise(p, "no_metadata")
    BY <1>13, <2>1, RaiseTyped DEF ReadMeta, Failures
  <2>2. CASE Raise(p, "bad_metadata")
    BY <1>13, <2>2, RaiseTyped DEF ReadMeta, Failures
  <2>3. CASE /\ Describes(meta[k], seen[p])
             /\ Finish(p, [status |-> "ok", data |-> seen[p], desc |-> meta[k].desc])
    <3>1. meta[k] \in Record  BY <1>k, <2>3 DEF TypeOK, Describes
    <3> QED BY <1>13, <2>3, <3>1
            DEF ReadMeta, TypeOK, Locations, Goto, Finish, Answer, Record
  <2> QED BY <1>13, <2>1, <2>2, <2>3 DEF ReadMeta
<1>14. CASE WriteFails(p)  BY <1>14, RaiseTyped DEF WriteFails, Failures
<1>15. CASE LinkFails(p)  BY <1>15, RaiseTyped DEF LinkFails, Failures
<1> QED BY <1>1, <1>2, <1>3, <1>4, <1>5, <1>6, <1>7, <1>8, <1>9, <1>10, <1>11, <1>12,
           <1>13, <1>14, <1>15 DEF Step

\* A kill leaves the state well typed.
LEMMA CrashTyped ==
  ASSUME TypeOK, NEW p \in Procs, Crash(p)
  PROVE  TypeOK'
BY StoreAssumption DEF Crash, TypeOK, Locations, Goto, Answer, NoAnswer
-----------------------------------------------------------------------------
(* Files are final and processes touch nothing of each other's.            *)

\* No step replaces or removes an object or a metadata file that is there.
LEMMA FilesStay ==
  ASSUME TypeOK, NEW p \in Procs, ProcessStep(p), NEW k \in Keys
  PROVE  /\ objects[k] # None => objects'[k] = objects[k]
         /\ meta[k] # None => meta'[k] = meta[k]
<1>1. CASE LinkObject(p)  BY <1>1 DEF LinkObject, TypeOK
<1>2. CASE LinkMeta(p)  BY <1>2 DEF LinkMeta, TypeOK
<1>3. CASE UNCHANGED <<objects, meta>>  BY <1>3
<1>4. LinkObject(p) \/ LinkMeta(p) \/ UNCHANGED <<objects, meta>>
  BY DEF ProcessStep, Request, StartPublish, StartRead, Start, Step, StatObject,
     VerifyObject, CreateObjectTmp, CreateMetaTmp, Create, SyncObjectTmp, SyncMetaTmp,
     Sync, CompareObject, Unlink, StatMeta, ReadObject, ReadMeta, WriteFails, LinkFails,
     Crash
<1> QED BY <1>1, <1>2, <1>3, <1>4

\* A step of one process changes no other's variables.
LEMMA OthersStay ==
  ASSUME TypeOK, NEW p \in Procs, ProcessStep(p), NEW q \in Procs, q # p
  PROVE  /\ pc'[q] = pc[q] /\ job'[q] = job[q] /\ tmp'[q] = tmp[q]
         /\ seen'[q] = seen[q] /\ answer'[q] = answer[q]
<1>1. CASE Request(p)
  BY <1>1 DEF Request, StartPublish, StartRead, Start, Goto, TypeOK
<1>2. CASE Crash(p)  BY <1>2 DEF Crash, Goto, TypeOK
<1>3. CASE Step(p)
  BY <1>3 DEF Step, StatObject, VerifyObject, CreateObjectTmp, CreateMetaTmp, Create,
     SyncObjectTmp, SyncMetaTmp, Sync, LinkObject, CompareObject, Unlink, StatMeta,
     LinkMeta, ReadObject, ReadMeta, WriteFails, LinkFails, Raise, Finish, Goto, TypeOK
<1> QED BY <1>1, <1>2, <1>3 DEF ProcessStep
-----------------------------------------------------------------------------
(* One step preserves the invariant.                                       *)

\* What holds of another process rests on its own variables and on files that
\* are there already.
LEMMA OthersKeepPInv ==
  ASSUME IInv, NEW p \in Procs, ProcessStep(p), NEW q \in Procs, q # p
  PROVE  PInv(q)'
<1> DEFINE k == job[q].key
<1>1. /\ pc'[q] = pc[q] /\ job'[q] = job[q] /\ tmp'[q] = tmp[q]
      /\ seen'[q] = seen[q] /\ answer'[q] = answer[q]
  BY OthersStay DEF IInv
<1>2. k \in Keys  BY DEF IInv, TypeOK, Job
<1>3. /\ objects[k] # None => objects'[k] = objects[k]
      /\ meta[k] # None => meta'[k] = meta[k]
  BY <1>2, FilesStay DEF IInv
<1>4. PInv(q)  BY DEF IInv
<1>5. JobFits(q)' /\ SyncedBeforeLink(q)'
  BY <1>1, <1>4 DEF PInv, JobFits, SyncedBeforeLink
<1>6. ObjectIsMine(q)'
  BY <1>1, <1>3, <1>4, StoreAssumption DEF PInv, ObjectIsMine, JobFits
<1>7. SeenIsObject(q)'
  BY <1>1, <1>3, <1>4, StoreAssumption DEF PInv, SeenIsObject
<1>8. AnswerTrue(q)'
  BY <1>1, <1>3, <1>4, StoreAssumption DEF PInv, AnswerTrue
<1> QED BY <1>5, <1>6, <1>7, <1>8 DEF PInv

\* An answer of "ok" survives every step of its process that does not give
\* another one.
LEMMA AnswerKept ==
  ASSUME IInv, NEW p \in Procs, ProcessStep(p), job'[p] = job[p],
         answer'[p] = answer[p] \/ answer'[p].status # "ok"
  PROVE  AnswerTrue(p)'
<1> DEFINE k == job[p].key
<1>1. k \in Keys  BY DEF IInv, TypeOK, Job
<1>2. /\ objects[k] # None => objects'[k] = objects[k]
      /\ meta[k] # None => meta'[k] = meta[k]
  BY <1>1, FilesStay DEF IInv
<1>3. AnswerTrue(p)  BY DEF IInv, PInv
<1> QED BY <1>2, <1>3, StoreAssumption DEF AnswerTrue

\* Raising keeps what the process relies on.
LEMMA RaiseKeepsPInv ==
  ASSUME IInv, NEW p \in Procs, ProcessStep(p), NEW why \in Failures, Raise(p, why),
         UNCHANGED <<job, tmp>>
  PROVE  PInv(p)'
<1>1. pc'[p] \in {"idle", "clean_failed"} /\ answer'[p].status = why /\ why # "ok"
  BY DEF Raise, Goto, Failed, IInv, TypeOK, Failures
<1>2. JobFits(p)'
  BY <1>1 DEF IInv, PInv, JobFits, Reading
<1>3. AnswerTrue(p)'  BY <1>1, AnswerKept
<1> QED BY <1>1, <1>2, <1>3 DEF PInv, SyncedBeforeLink, ObjectIsMine, SeenIsObject, Settled

\* A request starts from the arguments of the call alone.
LEMMA RequestKeepsPInv ==
  ASSUME IInv, NEW p \in Procs, Request(p)
  PROVE  PInv(p)'
<1>1. CASE \E c \in Contents, d \in Descs : StartPublish(p, c, d)
  BY <1>1, StoreAssumption
  DEF IInv, TypeOK, StartPublish, Start, Goto, NoAnswer, PInv, JobFits, SyncedBeforeLink,
      ObjectIsMine, SeenIsObject, AnswerTrue, Settled, Reading
<1>2. CASE \E op \in {"open", "describe"}, k \in Keys : StartRead(p, op, k)
  BY <1>2, StoreAssumption
  DEF IInv, TypeOK, StartRead, Start, Goto, NoAnswer, PInv, JobFits, SyncedBeforeLink,
      ObjectIsMine, SeenIsObject, AnswerTrue, Settled, Reading
<1> QED BY <1>1, <1>2 DEF Request

\* A kill leaves nothing to rely on.
LEMMA CrashKeepsPInv ==
  ASSUME IInv, NEW p \in Procs, Crash(p)
  PROVE  PInv(p)'
BY DEF IInv, TypeOK, Crash, Goto, NoAnswer, PInv, JobFits, SyncedBeforeLink,
   ObjectIsMine, SeenIsObject, AnswerTrue, Settled, Reading

\* Each file-system call establishes what the next one relies on.
LEMMA StepKeepsPInv ==
  ASSUME IInv, NEW p \in Procs, Step(p)
  PROVE  PInv(p)'
<1> DEFINE k == job[p].key
<1> USE DEF ProcessStep
<1>k. /\ k \in Keys /\ job[p] \in Job /\ pc[p] \in Locations
      /\ TypeOK /\ PInv(p)
  BY DEF IInv, TypeOK, Job
<1>j. /\ job[p].op = "publish" =>
           job[p].data \in Contents /\ job[p].desc \in Descs /\ k = Digest[job[p].data]
      /\ pc[p] \notin Reading => job[p].op = "publish"
  BY <1>k DEF PInv, JobFits
<1>s. /\ objects[k] # None => objects'[k] = objects[k]
      /\ meta[k] # None => meta'[k] = meta[k]
  BY <1>k, FilesStay
<1>f. ASSUME OpenBytes(k) # "ok" PROVE OpenBytes(k) \in Failures
  BY <1>f DEF OpenBytes, Failures
\* A step that only moves on inside a call.
<1>m. ASSUME NEW l \in Locations, pc[p] \notin Reading, Goto(p, l),
             l \notin {"read_meta", "link_object", "link_meta"} \/ tmp'[p] = "synced",
             l # "read_meta",
             l \in Settled => pc[p] \in Settled \/ objects'[k] = job[p].data,
             UNCHANGED <<job, answer>>
      PROVE  PInv(p)'
  <2>1. pc'[p] = l /\ job'[p] = job[p] /\ answer'[p] = answer[p]
    BY <1>m, <1>k DEF Goto, TypeOK
  <2>2. JobFits(p)'  BY <2>1, <1>j, <1>m DEF JobFits
  <2>3. AnswerTrue(p)'  BY <2>1, AnswerKept
  <2>4. ObjectIsMine(p)'
    BY <2>1, <1>m, <1>k, <1>j, <1>s, StoreAssumption DEF ObjectIsMine, PInv
  <2> QED BY <2>1, <2>2, <2>3, <2>4, <1>m DEF PInv, SyncedBeforeLink, SeenIsObject
<1>1. CASE StatObject(p)
  BY <1>1, <1>m DEF StatObject, Locations, Settled, Reading
<1>2. CASE VerifyObject(p)
  <2>1. CASE OpenBytes(k) # "ok" /\ Raise(p, OpenBytes(k))
    BY <1>2, <2>1, <1>f, RaiseKeepsPInv DEF VerifyObject
  <2>2. CASE Raise(p, "collision")
    BY <1>2, <2>2, RaiseKeepsPInv DEF VerifyObject, Failures
  <2>3. CASE objects[k] = job[p].data /\ Goto(p, "stat_meta") /\ UNCHANGED answer
    BY <1>2, <2>3, <1>m DEF VerifyObject, Locations, Settled, Reading
  <2> QED BY <1>2, <2>1, <2>2, <2>3 DEF VerifyObject
<1>3. CASE CreateObjectTmp(p)
  BY <1>3, <1>m DEF CreateObjectTmp, Create, Locations, Settled, Reading
<1>4. CASE SyncObjectTmp(p)
  <2>1. tmp'[p] = "synced"  BY <1>4, <1>k DEF SyncObjectTmp, Sync, TypeOK
  <2> QED BY <1>4, <2>1, <1>m DEF SyncObjectTmp, Sync, Locations, Settled, Reading
<1>5. CASE LinkObject(p)
  <2>1. CASE objects[k] = None
    <3>1. objects'[k] = job[p].data
      BY <1>5, <2>1, <1>k DEF LinkObject, Linked, PInv, SyncedBeforeLink, TypeOK
    <3> QED BY <1>5, <2>1, <3>1, <1>m DEF LinkObject, Locations, Settled, Reading
  <2>2. CASE objects[k] # None
    BY <1>5, <2>2, <1>m DEF LinkObject, Locations, Settled, Reading
  <2> QED BY <2>1, <2>2
<1>6. CASE CompareObject(p)
  <2>1. CASE objects[k] = job[p].data
    BY <1>6, <2>1, <1>m DEF CompareObject, Locations, Settled, Reading
  <2>2. CASE objects[k] # job[p].data
    BY <1>6, <2>2, RaiseKeepsPInv DEF CompareObject, Failures
  <2> QED BY <2>1, <2>2
<1>7. CASE Unlink(p)
  <2>1. CASE pc[p] = "clean_object"
    BY <1>7, <2>1, <1>m DEF Unlink, Locations, Settled, Reading
  <2>2. CASE pc[p] = "clean_meta"
    BY <1>7, <2>2, <1>m DEF Unlink, Locations, Settled, Reading
  <2>3. CASE pc[p] = "clean_failed"
    <3>1. pc'[p] = "idle" /\ job'[p] = job[p] /\ answer'[p] = answer[p]
      BY <1>7, <2>3, <1>k DEF Unlink, Goto, TypeOK
    <3>2. AnswerTrue(p)'  BY <3>1, AnswerKept
    <3> QED BY <3>1, <3>2, <1>j DEF PInv, JobFits, Reading, SyncedBeforeLink, ObjectIsMine,
               SeenIsObject, Settled
  <2> QED BY <1>7, <2>1, <2>2, <2>3 DEF Unlink
<1>8. CASE StatMeta(p)
  BY <1>8, <1>m DEF StatMeta, Locations, Settled, Reading
<1>9. CASE CreateMetaTmp(p)
  BY <1>9, <1>m DEF CreateMetaTmp, Create, Locations, Settled, Reading
<1>10. CASE SyncMetaTmp(p)
  <2>1. tmp'[p] = "synced"  BY <1>10, <1>k DEF SyncMetaTmp, Sync, TypeOK
  <2> QED BY <1>10, <2>1, <1>m DEF SyncMetaTmp, Sync, Locations, Settled, Reading
<1>11. CASE LinkMeta(p)
  BY <1>11, <1>m DEF LinkMeta, Locations, Settled, Reading
<1>12. CASE ReadObject(p)
  <2>1. CASE OpenBytes(k) # "ok" /\ Raise(p, OpenBytes(k))
    BY <1>12, <2>1, <1>f, RaiseKeepsPInv DEF ReadObject
  <2>2. CASE OpenBytes(k) = "ok"
    <3>1. objects[k] \in Contents  BY <2>2 DEF OpenBytes, HashesTo
    <3>2. /\ job' = job /\ objects' = objects /\ meta' = meta /\ tmp' = tmp
          /\ seen'[p] = objects[k]
      BY <1>12, <2>2, <1>k DEF ReadObject, TypeOK
    <3>3. job[p].op = "publish" => objects[k] = job[p].data
      BY <1>12, <1>k DEF ReadObject, PInv, ObjectIsMine, Settled
    <3>4. CASE job[p].op = "open"
      <4>1. /\ pc'[p] = "idle"
            /\ answer'[p] = [status |-> "ok", data |-> objects[k], desc |-> None]
        BY <1>12, <2>2, <3>4, <1>k DEF ReadObject, Finish, Goto, TypeOK
      <4>2. AnswerTrue(p)'
        BY <4>1, <3>1, <3>2, <3>4 DEF AnswerTrue
      <4> QED BY <4>1, <4>2, <3>2, <3>4, <1>j DEF PInv, JobFits, Reading, SyncedBeforeLink,
                 ObjectIsMine, SeenIsObject, Settled
    <3>5. CASE job[p].op # "open"
      <4>1. pc'[p] = "read_meta" /\ answer' = answer
        BY <1>12, <2>2, <3>5, <1>k DEF ReadObject, Goto, TypeOK
      <4>2. AnswerTrue(p)'  BY <4>1, <3>2, AnswerKept
      <4> QED BY <4>1, <4>2, <3>1, <3>2, <3>3, <1>j DEF PInv, JobFits, Reading,
                 SyncedBeforeLink, ObjectIsMine, SeenIsObject, Settled
    <3> QED BY <3>4, <3>5
  <2> QED BY <1>12, <2>1, <2>2 DEF ReadObject
<1>13. CASE ReadMeta(p)
  <2>1. CASE Raise(p, "no_metadata")
    BY <1>13, <2>1, RaiseKeepsPInv DEF ReadMeta, Failures
  <2>2. CASE Raise(p, "bad_metadata")
    BY <1>13, <2>2, RaiseKeepsPInv DEF ReadMeta, Failures
  <2>3. CASE /\ Describes(meta[k], seen[p])
             /\ Finish(p, [status |-> "ok", data |-> seen[p], desc |-> meta[k].desc])
    <3>1. /\ pc[p] = "read_meta" /\ pc'[p] = "idle"
          /\ job' = job /\ objects' = objects /\ meta' = meta
          /\ answer'[p] = [status |-> "ok", data |-> seen[p], desc |-> meta[k].desc]
      BY <1>13, <2>3, <1>k DEF ReadMeta, Finish, Goto, TypeOK
    <3>2. seen[p] = objects[k] /\ seen[p] \in Contents /\ meta[k] # None
      BY <3>1, <2>3, <1>k DEF PInv, SeenIsObject, Describes
    <3>3. job[p].op = "publish" => objects[k] = job[p].data
      BY <3>1, <1>k DEF PInv, ObjectIsMine, Settled
    <3>4. AnswerTrue(p)'
      BY <3>1, <3>2, <3>3 DEF AnswerTrue
    <3> QED BY <3>1, <3>4, <1>j DEF PInv, JobFits, Reading, SyncedBeforeLink, ObjectIsMine,
               SeenIsObject, Settled
  <2> QED BY <1>13, <2>1, <2>2, <2>3 DEF ReadMeta
<1>14. CASE WriteFails(p)  BY <1>14, RaiseKeepsPInv DEF WriteFails, Failures
<1>15. CASE LinkFails(p)  BY <1>15, RaiseKeepsPInv DEF LinkFails, Failures
<1> QED BY <1>1, <1>2, <1>3, <1>4, <1>5, <1>6, <1>7, <1>8, <1>9, <1>10, <1>11, <1>12,
           <1>13, <1>14, <1>15 DEF Step

\* Only a link creates a name, and what it shows by then is whole; a metadata
\* file is linked only by a process whose bytes are the object.
LEMMA FilesKeepShape ==
  ASSUME IInv, NEW p \in Procs, ProcessStep(p)
  PROVE  ObjectsWhole' /\ MetaDescribesObject'
<1> DEFINE own == job[p].key
<1>t. TypeOK /\ PInv(p) /\ own \in Keys /\ pc[p] \in Locations
  BY DEF IInv, TypeOK, Job
<1>s. ASSUME NEW k \in Keys
      PROVE  /\ objects[k] # None => objects'[k] = objects[k]
             /\ meta[k] # None => meta'[k] = meta[k]
  BY <1>t, FilesStay
<1>1. ASSUME NEW k \in Keys, objects'[k] # None PROVE HashesTo(objects'[k], k)
  <2>1. CASE objects[k] # None
    BY <1>s, <2>1 DEF IInv, ObjectsWhole
  <2>2. CASE objects[k] = None
    <3>1. LinkObject(p)
      BY <1>1, <2>2 DEF ProcessStep, Request, StartPublish, StartRead, Start, Step,
         StatObject, VerifyObject, CreateObjectTmp, CreateMetaTmp, Create, SyncObjectTmp,
         SyncMetaTmp, Sync, CompareObject, Unlink, StatMeta, LinkMeta, ReadObject, ReadMeta,
         WriteFails, LinkFails, Crash
    <3>2. k = own /\ objects'[k] = Linked(p, job[p].data)
      BY <1>1, <2>2, <3>1, <1>t DEF LinkObject, TypeOK
    <3>3. tmp[p] = "synced" /\ job[p].data \in Contents /\ own = Digest[job[p].data]
      BY <3>1, <1>t DEF LinkObject, PInv, SyncedBeforeLink, JobFits, Reading
    <3> QED BY <3>2, <3>3 DEF Linked, HashesTo
  <2> QED BY <2>1, <2>2
<1>2. ASSUME NEW k \in Keys, meta'[k] # None
      PROVE  objects'[k] # None /\ Describes(meta'[k], objects'[k])
  <2>1. CASE meta[k] # None
    <3>1. objects[k] # None /\ Describes(meta[k], objects[k])
      BY <2>1 DEF IInv, MetaDescribesObject
    <3> QED BY <1>s, <2>1, <3>1
  <2>2. CASE meta[k] = None
    <3> DEFINE candidate == [size |-> Size[job[p].data], desc |-> job[p].desc]
    <3>1. LinkMeta(p)
      BY <1>2, <2>2 DEF ProcessStep, Request, StartPublish, StartRead, Start, Step,
         StatObject, VerifyObject, CreateObjectTmp, CreateMetaTmp, Create, SyncObjectTmp,
         SyncMetaTmp, Sync, LinkObject, CompareObject, Unlink, StatMeta, ReadObject,
         ReadMeta, WriteFails, LinkFails, Crash
    <3>2. k = own /\ meta'[k] = Linked(p, candidate) /\ objects' = objects
      BY <1>2, <2>2, <3>1, <1>t DEF LinkMeta, TypeOK
    <3>3. /\ tmp[p] = "synced" /\ job[p].op = "publish"
          /\ job[p].data \in Contents /\ job[p].desc \in Descs
      BY <3>1, <1>t DEF LinkMeta, PInv, SyncedBeforeLink, JobFits, Reading
    <3>4. objects[own] = job[p].data
      BY <3>1, <3>3, <1>t DEF LinkMeta, PInv, ObjectIsMine, Settled
    <3>5. candidate \in Record
      BY <3>3, StoreAssumption DEF Record
    <3>6. meta'[k] = candidate
      BY <3>2, <3>3 DEF Linked
    <3> QED BY <3>2, <3>3, <3>4, <3>5, <3>6, StoreAssumption DEF Describes
  <2> QED BY <2>1, <2>2
<1> QED BY <1>1, <1>2 DEF ObjectsWhole, MetaDescribesObject

\* The invariant holds initially.
LEMMA InvInit == Init => IInv
<1> SUFFICES ASSUME Init PROVE IInv
  OBVIOUS
<1>1. TypeOK  BY InitTyped
<1>2. ObjectsWhole /\ MetaDescribesObject
  BY DEF Init, ObjectsWhole, MetaDescribesObject
<1>3. ASSUME NEW p \in Procs PROVE PInv(p)
  BY DEF Init, PInv, JobFits, SyncedBeforeLink, ObjectIsMine, SeenIsObject, AnswerTrue,
     Reading, Settled, NoAnswer
<1> QED BY <1>1, <1>2, <1>3 DEF IInv

\* Every step preserves the invariant.
LEMMA InvNext == IInv /\ [Next]_vars => IInv'
<1> SUFFICES ASSUME IInv, [Next]_vars PROVE IInv'
  OBVIOUS
<1>1. ASSUME NEW p \in Procs, ProcessStep(p) PROVE IInv'
  <2>1. TypeOK'
    BY <1>1, RequestTyped, StepTyped, CrashTyped DEF ProcessStep, IInv, PInv
  <2>2. PInv(p)'
    BY <1>1, RequestKeepsPInv, StepKeepsPInv, CrashKeepsPInv DEF ProcessStep
  <2>3. ASSUME NEW q \in Procs PROVE PInv(q)'
    BY <1>1, <2>2, OthersKeepPInv
  <2> QED BY <1>1, <2>1, <2>3, FilesKeepShape DEF IInv
<1>2. CASE UNCHANGED vars
  BY <1>2 DEF vars, IInv, TypeOK, ObjectsWhole, MetaDescribesObject, PInv, JobFits,
     SyncedBeforeLink, ObjectIsMine, SeenIsObject, AnswerTrue, HashesTo, Describes
<1> QED BY <1>1, <1>2 DEF Next, ProcessStep

\* IInv holds in every reachable state of the store.
LEMMA InvHolds == Spec => []IInv
BY InvInit, InvNext, PTL DEF Spec
-----------------------------------------------------------------------------
(* The results.                                                            *)

\* The store's variables keep their types, for any number of processes.
THEOREM TypeCorrect == Spec => []TypeOK
<1>1. IInv => TypeOK  BY DEF IInv
<1> QED BY <1>1, InvHolds, PTL

\* No name under objects/ ever shows bytes other than those it is named for.
THEOREM ObjectsAlwaysWhole == Spec => []ObjectsWhole
<1>1. IInv => ObjectsWhole  BY DEF IInv
<1> QED BY <1>1, InvHolds, PTL

\* Whoever wins the two races, metadata describes the object it stands beside.
THEOREM MetaAlwaysDescribesObject == Spec => []MetaDescribesObject
<1>1. IInv => MetaDescribesObject  BY DEF IInv
<1> QED BY <1>1, InvHolds, PTL

\* Every call that returned normally told the truth, and it is still the truth.
THEOREM AnswersAlwaysTrue == Spec => []AnswersTrue
<1>1. IInv => AnswersTrue  BY DEF IInv, PInv, AnswerTrue, AnswersTrue
<1> QED BY <1>1, InvHolds, PTL

\* Object and metadata files are never replaced, truncated or removed.
THEOREM FilesAlwaysFinal == Spec => FilesAreFinal
<1>1. IInv /\ [Next]_vars =>
        [\A k \in Keys : /\ objects[k] # None => objects'[k] = objects[k]
                         /\ meta[k] # None => meta'[k] = meta[k]]_files
  <2> SUFFICES ASSUME IInv, [Next]_vars
               PROVE  [\A k \in Keys : /\ objects[k] # None => objects'[k] = objects[k]
                                       /\ meta[k] # None => meta'[k] = meta[k]]_files
    OBVIOUS
  <2>1. CASE UNCHANGED vars  BY <2>1 DEF vars, files
  <2>2. CASE Next
    BY <2>2, FilesStay DEF Next, ProcessStep, IInv
  <2> QED BY <2>1, <2>2
<1> QED BY <1>1, InvHolds, PTL DEF Spec, FilesAreFinal
-----------------------------------------------------------------------------
(***************************************************************************)
(* The store implements the write-once registry: each file-system call is  *)
(* one step of the registry or none.                                       *)
(***************************************************************************)
\* The refinement mapping of ArtifactStore!Registry.
RecordMap == [k \in Keys |-> IF meta[k] = None THEN None ELSE meta[k].desc]
ToldMap == [p \in Procs |-> IF answer[p].status = "ok"
                            THEN [key |-> job[p].key, data |-> answer[p].data,
                                  desc |-> answer[p].desc]
                            ELSE None]

\* The initial states of the store are initial states of the registry.
LEMMA InitRefines == Init => Registry!Init
BY DEF Init, Registry!Init, NoAnswer

\* A step that leaves files and answers alone is no step of the registry.
LEMMA Stutters ==
  ASSUME TypeOK, NEW p \in Procs, UNCHANGED <<objects, meta, answer>>,
         job' = job
  PROVE  UNCHANGED <<objects, RecordMap, ToldMap>>
BY DEF RecordMap, ToldMap

\* A step that changes neither files nor any answer but p's is what p is told.
LEMMA OnlyToldChanges ==
  ASSUME TypeOK, NEW p \in Procs, ProcessStep(p), UNCHANGED <<objects, meta>>
  PROVE  /\ UNCHANGED <<objects, RecordMap>>
         /\ ToldMap' = [ToldMap EXCEPT ![p] = ToldMap'[p]]
<1>1. \A q \in Procs : q # p => job'[q] = job[q] /\ answer'[q] = answer[q]
  BY OthersStay
<1> QED BY <1>1 DEF RecordMap, ToldMap

\* Losing an answer, by the next request, an exception or a kill.
LEMMA ForgetRefines ==
  ASSUME TypeOK, NEW p \in Procs, ProcessStep(p), UNCHANGED <<objects, meta>>,
         answer'[p].status # "ok"
  PROVE  Registry!Forget(p)
<1>1. ToldMap'[p] = None  BY DEF ToldMap
<1>2. /\ UNCHANGED <<objects, RecordMap>>
      /\ ToldMap' = [ToldMap EXCEPT ![p] = None]
  BY <1>1, OnlyToldChanges
<1> QED BY <1>2 DEF Registry!Forget, RecordMap, ToldMap

\* Returning from open_bytes, get_metadata or publish_bytes.
LEMMA TellRefines ==
  ASSUME IInv, IInv', NEW p \in Procs, ProcessStep(p), UNCHANGED <<objects, meta>>,
         job' = job, answer'[p].status = "ok", NEW k \in Keys, k = job[p].key,
         answer'[p].desc \in {None, RecordMap[k]}
  PROVE  Registry!Tell(p, k)
<1> DEFINE d == answer'[p].desc
<1>2. answer'[p].data \in Contents /\ answer'[p].data = objects[k]
  BY DEF IInv, PInv, AnswerTrue
<1>3. objects[k] # None  BY <1>2, StoreAssumption
<1>4. ToldMap'[p] = [key |-> k, data |-> objects[k], desc |-> d]
  BY <1>2 DEF ToldMap
<1>5. /\ UNCHANGED <<objects, RecordMap>>
      /\ ToldMap' = [ToldMap EXCEPT ![p] = [key |-> k, data |-> objects[k], desc |-> d]]
  BY <1>4, OnlyToldChanges DEF IInv
<1> QED BY <1>3, <1>5 DEF Registry!Tell, RecordMap, ToldMap

\* The link of an object that was not there binds its key.
LEMMA BindRefines ==
  ASSUME IInv, NEW p \in Procs, LinkObject(p), objects[job[p].key] = None
  PROVE  Registry!Bind(job[p].data) /\ job[p].data \in Contents
<1> DEFINE k == job[p].key  c == job[p].data
<1>1. pc[p] = "link_object"  BY DEF LinkObject
<1>2. TypeOK /\ PInv(p)  BY DEF IInv
<1>3. c \in Contents /\ k = Digest[c] /\ tmp[p] = "synced"
  BY <1>1, <1>2 DEF PInv, JobFits, SyncedBeforeLink, Reading
<1>4. /\ objects' = [objects EXCEPT ![k] = c]
      /\ meta' = meta /\ job' = job /\ answer' = answer
  BY <1>3 DEF LinkObject, Linked
<1> QED BY <1>3, <1>4 DEF Registry!Bind

\* The link of a metadata file that was not there describes its key.
LEMMA DescribeRefines ==
  ASSUME IInv, NEW p \in Procs, LinkMeta(p), NEW k \in Keys, k = job[p].key,
         meta[k] = None
  PROVE  \E d \in Descs : Registry!Describe(k, d)
<1> DEFINE candidate == [size |-> Size[job[p].data], desc |-> job[p].desc]
<1>1. pc[p] = "link_meta"  BY DEF LinkMeta
<1>2. TypeOK /\ PInv(p)  BY DEF IInv
<1>3. /\ job[p].op = "publish" /\ job[p].data \in Contents /\ job[p].desc \in Descs
      /\ tmp[p] = "synced"
  BY <1>1, <1>2 DEF PInv, JobFits, SyncedBeforeLink, Reading
<1>4. objects[k] # None
  BY <1>1, <1>2, <1>3, StoreAssumption DEF PInv, ObjectIsMine, Settled
<1>5. candidate # None
  BY <1>3, StoreAssumption DEF Record
<1>6. /\ meta' = [meta EXCEPT ![k] = candidate]
      /\ objects' = objects /\ job' = job /\ answer' = answer
  BY <1>3 DEF LinkMeta, Linked
<1> PICK d \in Descs : d = job[p].desc  BY <1>3
<1>7. RecordMap' = [RecordMap EXCEPT ![k] = d]
  <2> HIDE DEF candidate
  <2>1. candidate.desc = d  BY DEF candidate
  <2> QED BY <1>2, <1>5, <1>6, <2>1 DEF RecordMap, TypeOK
<1>8. RecordMap[k] = None  BY <1>2 DEF RecordMap
<1> QED BY <1>4, <1>6, <1>7, <1>8 DEF Registry!Describe, RecordMap

\* Every step of the store is a step of the registry, or none.
LEMMA NextRefines ==
  ASSUME IInv, IInv', [Next]_vars
  PROVE  [Registry!Next]_(Registry!registryVars)
<1>0. CASE UNCHANGED vars
  BY <1>0 DEF vars, Registry!registryVars
<1>1. ASSUME NEW p \in Procs, ProcessStep(p)
      PROVE  [Registry!Next]_(Registry!registryVars)
  <2> PICK k \in Keys : k = job[p].key  BY DEF IInv, TypeOK, Job
  <2>t. TypeOK  BY DEF IInv
  <2>f. ASSUME UNCHANGED <<objects, meta>>, answer'[p].status # "ok"
        PROVE  [Registry!Next]_(Registry!registryVars)
    BY <1>1, <2>f, <2>t, ForgetRefines DEF Registry!Next
  <2>s. ASSUME UNCHANGED <<objects, meta, answer, job>>
        PROVE  [Registry!Next]_(Registry!registryVars)
    BY <2>s, <1>1, <2>t, Stutters DEF Registry!registryVars, RecordMap, ToldMap
  <2>r. ASSUME NEW why, why # "ok", Raise(p, why), UNCHANGED <<objects, meta>>
        PROVE  [Registry!Next]_(Registry!registryVars)
    <3>1. answer'[p].status = why
      BY <2>r, <2>t DEF Raise, Failed, TypeOK
    <3> QED BY <2>r, <2>f, <3>1
  <2>1. CASE Request(p)
    <3>1. answer'[p].status = "none" /\ UNCHANGED <<objects, meta>>
      BY <2>1, <2>t DEF Request, StartPublish, StartRead, Start, NoAnswer, TypeOK
    <3> QED BY <3>1, <2>f
  <2>2. CASE Crash(p)
    <3>1. answer'[p].status = "none" /\ UNCHANGED <<objects, meta>>
      BY <2>2, <2>t DEF Crash, NoAnswer, TypeOK
    <3> QED BY <3>1, <2>f
  <2>3. CASE LinkObject(p)
    <3>1. CASE objects[k] = None
      BY <2>3, <3>1, BindRefines DEF Registry!Next
    <3>2. CASE objects[k] # None
      BY <2>3, <3>2, <2>s DEF LinkObject
    <3> QED BY <3>1, <3>2
  <2>4. CASE LinkMeta(p)
    <3>1. CASE meta[k] = None
      BY <2>4, <3>1, DescribeRefines DEF Registry!Next
    <3>2. CASE meta[k] # None
      BY <2>4, <3>2, <2>s DEF LinkMeta
    <3> QED BY <3>1, <3>2
  <2>5. CASE ReadObject(p)
    <3>1. CASE OpenBytes(k) # "ok" /\ Raise(p, OpenBytes(k))
      BY <2>5, <3>1, <2>r DEF ReadObject
    <3>2. CASE job[p].op = "open" /\ OpenBytes(k) = "ok"
      <4>1. answer'[p].status = "ok" /\ answer'[p].desc = None
        BY <2>5, <3>2, <2>t DEF ReadObject, Finish, TypeOK
      <4>2. Registry!Tell(p, k)
        BY <1>1, <2>5, <4>1, TellRefines DEF ReadObject
      <4> QED BY <4>2 DEF Registry!Next
    <3>3. CASE job[p].op # "open" /\ OpenBytes(k) = "ok"
      BY <2>5, <3>3, <2>s DEF ReadObject
    <3> QED BY <2>5, <3>1, <3>2, <3>3 DEF ReadObject
  <2>6. CASE ReadMeta(p)
    <3>1. CASE Raise(p, "no_metadata")
      BY <2>6, <3>1, <2>r DEF ReadMeta
    <3>2. CASE Raise(p, "bad_metadata")
      BY <2>6, <3>2, <2>r DEF ReadMeta
    <3>3. CASE /\ Describes(meta[k], seen[p])
               /\ Finish(p, [status |-> "ok", data |-> seen[p], desc |-> meta[k].desc])
      <4>1. answer'[p].status = "ok" /\ answer'[p].desc = RecordMap[k]
        BY <3>3, <2>t DEF Finish, TypeOK, Describes, RecordMap
      <4>2. Registry!Tell(p, k)
        BY <1>1, <2>6, <4>1, TellRefines DEF ReadMeta
      <4> QED BY <4>2 DEF Registry!Next
    <3> QED BY <2>6, <3>1, <3>2, <3>3 DEF ReadMeta
  <2>7. CASE VerifyObject(p)
    <3>1. CASE OpenBytes(k) # "ok" /\ Raise(p, OpenBytes(k))
      BY <2>7, <3>1, <2>r DEF VerifyObject
    <3>2. CASE Raise(p, "collision")
      BY <2>7, <3>2, <2>r DEF VerifyObject
    <3>3. CASE UNCHANGED answer
      BY <2>7, <3>3, <2>s DEF VerifyObject
    <3> QED BY <2>7, <3>1, <3>2, <3>3 DEF VerifyObject
  <2>8. CASE CompareObject(p)
    <3>1. CASE Raise(p, "collision")
      BY <2>8, <3>1, <2>r DEF CompareObject
    <3>2. CASE UNCHANGED answer
      BY <2>8, <3>2, <2>s DEF CompareObject
    <3> QED BY <2>8, <3>1, <3>2 DEF CompareObject
  <2>9. CASE WriteFails(p)  BY <2>9, <2>r DEF WriteFails
  <2>10. CASE LinkFails(p)  BY <2>10, <2>r DEF LinkFails
  <2>11. CASE \/ StatObject(p) \/ CreateObjectTmp(p) \/ SyncObjectTmp(p) \/ Unlink(p)
              \/ StatMeta(p) \/ CreateMetaTmp(p) \/ SyncMetaTmp(p)
    BY <2>11, <2>s DEF StatObject, CreateObjectTmp, CreateMetaTmp, Create, SyncObjectTmp,
       SyncMetaTmp, Sync, Unlink, StatMeta
  <2> QED BY <1>1, <2>1, <2>2, <2>3, <2>4, <2>5, <2>6, <2>7, <2>8, <2>9, <2>10, <2>11
          DEF ProcessStep, Step
<1> QED BY <1>0, <1>1 DEF Next, ProcessStep

\* ArtifactStore implements WriteOnceRegistry: a key is bound once to its bytes
\* and once to its metadata, and every client is told just that.
THEOREM StoreImplementsRegistry == Spec => ImplementsRegistry
<1>1. Init => Registry!Init  BY InitRefines
<1>2. IInv /\ IInv' /\ [Next]_vars => [Registry!Next]_(Registry!registryVars)
  BY NextRefines
<1> QED BY <1>1, <1>2, InvHolds, PTL DEF Spec, ImplementsRegistry, Registry!Spec
-----------------------------------------------------------------------------
(***************************************************************************)
(* Why a call fails.  What a process relies on about its own call holds    *)
(* whatever becomes of the contents of the files, so that the faults below *)
(* can use it too.                                                         *)
(***************************************************************************)

\* Where a process holds no temporary file.
Tidy == {"idle", "stat_object", "verify_object", "create_object", "stat_meta",
         "create_meta", "read_object", "read_meta"}
TmpGone(p) == pc[p] \in Tidy => tmp[p] = "none"

\* exists() said so, or link(2) did.
Found(p) ==
  pc[p] \in {"verify_object", "compare_object"} => objects[job[p].key] # None
Recorded(p) ==
  pc[p] \in {"clean_meta", "read_object", "read_meta"} /\ job[p].op = "publish" =>
    meta[job[p].key] # None

\* ObjectIsMine, but for damage.
MineOrTorn(p) ==
  pc[p] \in Settled /\ job[p].op = "publish" => objects[job[p].key] \in {job[p].data, Torn}

Located(p) ==
  /\ JobFits(p)
  /\ SyncedBeforeLink(p)
  /\ TmpGone(p)
  /\ Found(p)
  /\ Recorded(p)
  /\ MineOrTorn(p)

\* All of it holds before the first call.
LEMMA InitLocates ==
  ASSUME Init, NEW p \in Procs PROVE Located(p)
BY DEF Init, Located, JobFits, SyncedBeforeLink, TmpGone, Found, Recorded, MineOrTorn,
   Reading, Settled

\* Raising forgets the call, and a temporary file is unlinked first.
LEMMA RaiseLocates ==
  ASSUME TypeOK, NEW p \in Procs, Located(p), NEW why, Raise(p, why),
         UNCHANGED <<job, tmp>>
  PROVE  Located(p)'
<1>1. pc'[p] = IF tmp[p] = "none" THEN "idle" ELSE "clean_failed"
  BY DEF Raise, Goto, TypeOK
<1> QED BY <1>1 DEF Located, JobFits, SyncedBeforeLink, TmpGone, Found, Recorded, MineOrTorn,
           Reading, Settled, Tidy

\* Each call of a process leaves it with what its next call relies on.
LEMMA StepLocates ==
  ASSUME TypeOK, NEW p \in Procs, Located(p), ProcessStep(p)
  PROVE  Located(p)'
<1> DEFINE k == job[p].key
<1>k. k \in Keys /\ job[p] \in Job /\ pc[p] \in Locations  BY DEF TypeOK, Job
<1>s. /\ objects[k] # None => objects'[k] = objects[k]
      /\ meta[k] # None => meta'[k] = meta[k]
  BY <1>k, FilesStay
<1>j. /\ job[p].op = "publish" =>
           job[p].data \in Contents /\ job[p].desc \in Descs /\ k = Digest[job[p].data]
      /\ pc[p] \notin Reading => job[p].op = "publish"
      /\ Torn # None /\ job[p].data \in Contents => job[p].data # None
  BY StoreAssumption DEF Located, JobFits
\* A step within a call, or out of it in good order.
<1>m. ASSUME NEW l \in Locations, Goto(p, l), UNCHANGED job,
             l \notin Reading => job[p].op = "publish",
             l \in {"link_object", "link_meta"} => tmp'[p] = "synced",
             l \in Tidy => tmp'[p] = "none",
             l \in {"verify_object", "compare_object"} => objects'[k] # None,
             l \in {"clean_meta", "read_object", "read_meta"} /\ job[p].op = "publish" =>
               meta'[k] # None,
             l \in Settled /\ job[p].op = "publish" => objects'[k] \in {job[p].data, Torn}
      PROVE  Located(p)'
  <2>1. pc'[p] = l /\ job'[p] = job[p]  BY <1>m DEF Goto, TypeOK
  <2> QED BY <1>m, <2>1, <1>j DEF Located, JobFits, SyncedBeforeLink, TmpGone, Found,
             Recorded, MineOrTorn
<1> USE DEF Locations, Reading, Settled, Tidy
<1>1. CASE Request(p)
  BY <1>1, StoreAssumption
  DEF Request, StartPublish, StartRead, Start, Goto, TypeOK, Located, JobFits,
      SyncedBeforeLink, TmpGone, Found, Recorded, MineOrTorn
<1>2. CASE Crash(p)
  BY <1>2 DEF Crash, Goto, TypeOK, Located, JobFits, SyncedBeforeLink, TmpGone, Found,
     Recorded, MineOrTorn
<1>3. CASE StatObject(p)
  BY <1>3, <1>m, <1>j DEF StatObject, Located, TmpGone
<1>4. CASE VerifyObject(p)
  <2>1. CASE Goto(p, "stat_meta") /\ objects[k] = job[p].data
    BY <1>4, <2>1, <1>m, <1>j DEF VerifyObject, Located, TmpGone
  <2>2. CASE \E why : Raise(p, why)
    BY <1>4, <2>2, RaiseLocates DEF VerifyObject
  <2> QED BY <1>4, <2>1, <2>2 DEF VerifyObject
<1>5. CASE CreateObjectTmp(p) \/ CreateMetaTmp(p)
  BY <1>5, <1>m, <1>j DEF CreateObjectTmp, CreateMetaTmp, Create, Located, MineOrTorn
<1>6. CASE SyncObjectTmp(p) \/ SyncMetaTmp(p)
  <2>1. tmp'[p] = "synced"  BY <1>6 DEF SyncObjectTmp, SyncMetaTmp, Sync, TypeOK
  <2> QED BY <1>6, <2>1, <1>m, <1>j DEF SyncObjectTmp, SyncMetaTmp, Sync, Located, MineOrTorn
<1>7. CASE LinkObject(p)
  <2>1. CASE objects[k] = None
    <3>1. objects'[k] \in {job[p].data, Torn}
      BY <1>7, <2>1, <1>k DEF LinkObject, Linked, TypeOK
    <3> QED BY <1>7, <2>1, <3>1, <1>m, <1>j DEF LinkObject
  <2>2. CASE objects[k] # None
    BY <1>7, <2>2, <1>m, <1>j DEF LinkObject
  <2> QED BY <2>1, <2>2
<1>8. CASE CompareObject(p)
  <2>1. CASE objects[k] = job[p].data
    BY <1>8, <2>1, <1>m, <1>j DEF CompareObject
  <2>2. CASE objects[k] # job[p].data
    BY <1>8, <2>2, RaiseLocates DEF CompareObject
  <2> QED BY <2>1, <2>2
<1>9. CASE Unlink(p)
  <2>1. tmp'[p] = "none" /\ UNCHANGED <<objects, meta, job>>  BY <1>9 DEF Unlink, TypeOK
  <2>2. CASE pc[p] = "clean_object"
    BY <1>9, <2>1, <2>2, <1>m, <1>j DEF Unlink, Located, MineOrTorn
  <2>3. CASE pc[p] = "clean_meta"
    BY <1>9, <2>1, <2>3, <1>m, <1>j DEF Unlink, Located, MineOrTorn, Recorded
  <2>4. CASE pc[p] = "clean_failed"
    BY <1>9, <2>1, <2>4, <1>m, <1>j DEF Unlink
  <2> QED BY <1>9, <2>2, <2>3, <2>4 DEF Unlink
<1>10. CASE StatMeta(p)
  BY <1>10, <1>m, <1>j DEF StatMeta, Located, MineOrTorn, TmpGone
<1>11. CASE LinkMeta(p)
  <2> DEFINE candidate == [size |-> Size[job[p].data], desc |-> job[p].desc]
  <2>1. candidate \in Record /\ Linked(p, candidate) # None
    BY <1>11, <1>j, StoreAssumption DEF LinkMeta, Record, Linked
  <2>2. meta'[k] # None
    <3> HIDE DEF candidate
    <3>1. meta' = IF meta[k] = None THEN [meta EXCEPT ![k] = Linked(p, candidate)] ELSE meta
      BY <1>11 DEF LinkMeta, candidate
    <3> QED BY <3>1, <2>1, <1>k DEF TypeOK
  <2> QED BY <1>11, <2>2, <1>m, <1>j DEF LinkMeta, Located, MineOrTorn
<1>12. CASE ReadObject(p)
  <2>1. CASE \E why : Raise(p, why)
    BY <1>12, <2>1, RaiseLocates DEF ReadObject
  <2>2. CASE OpenBytes(k) = "ok"
    <3>1. UNCHANGED <<objects, meta, job, tmp>> /\ tmp[p] = "none"
      BY <1>12 DEF ReadObject, Located, TmpGone
    <3>2. Goto(p, IF job[p].op = "open" THEN "idle" ELSE "read_meta")
      BY <1>12, <2>2 DEF ReadObject, Finish
    <3> QED BY <1>12, <3>1, <3>2, <1>m DEF ReadObject, Located, MineOrTorn, Recorded
  <2> QED BY <1>12, <2>1, <2>2 DEF ReadObject
<1>13. CASE ReadMeta(p)
  <2>1. CASE \E why : Raise(p, why)
    BY <1>13, <2>1, RaiseLocates DEF ReadMeta
  <2>2. CASE Goto(p, "idle")
    BY <1>13, <2>2, <1>m DEF ReadMeta, Located, TmpGone
  <2> QED BY <1>13, <2>1, <2>2 DEF ReadMeta, Finish
<1>14. CASE WriteFails(p)  BY <1>14, RaiseLocates DEF WriteFails
<1>15. CASE LinkFails(p)  BY <1>15, RaiseLocates DEF LinkFails
<1> QED BY <1>1, <1>2, <1>3, <1>4, <1>5, <1>6, <1>7, <1>8, <1>9, <1>10, <1>11, <1>12,
           <1>13, <1>14, <1>15 DEF ProcessStep, Step

\* The calls of the others do not disturb it.
LEMMA OthersLocate ==
  ASSUME TypeOK, NEW p \in Procs, ProcessStep(p), NEW q \in Procs, q # p, Located(q)
  PROVE  Located(q)'
<1> DEFINE k == job[q].key
<1>1. pc'[q] = pc[q] /\ job'[q] = job[q] /\ tmp'[q] = tmp[q]
  BY OthersStay
<1>2. /\ objects[k] # None => objects'[k] = objects[k]
      /\ meta[k] # None => meta'[k] = meta[k]
  BY FilesStay DEF TypeOK, Job
<1>3. MineOrTorn(q)'
  BY <1>1, <1>2, StoreAssumption DEF Located, MineOrTorn, JobFits
<1> QED BY <1>1, <1>2, <1>3 DEF Located, JobFits, SyncedBeforeLink, TmpGone, Found, Recorded

\* What an answer of a failed call says of it.
Explained(p) ==
  LET s == answer[p].status  j == job[p] IN
  /\ s \notin {"integrity", "bad_metadata"}
  /\ s \in {"not_found", "no_metadata"} => j.op # "publish"
  /\ s = "collision" => j.op = "publish" /\ objects[j.key] \in Contents \ {j.data}

EInv ==
  /\ IInv
  /\ \A p \in Procs : Located(p) /\ Explained(p)
  /\ orphans <= crashes

\* An object that is there is intact.
LEMMA ReadsIntact ==
  ASSUME IInv, NEW k \in Keys
  PROVE  OpenBytes(k) = IF objects[k] = None THEN "not_found" ELSE "ok"
BY DEF IInv, ObjectsWhole, OpenBytes

\* An explanation stays true while the call it is about is not followed by
\* another.
LEMMA ExplanationStays ==
  ASSUME IInv, NEW p \in Procs, ProcessStep(p), NEW q \in Procs, Explained(q),
         job'[q] = job[q], answer'[q] = answer[q]
  PROVE  Explained(q)'
<1> DEFINE k == job[q].key
<1>1. objects[k] # None => objects'[k] = objects[k]
  BY FilesStay DEF IInv, TypeOK, Job
<1>2. None \notin Contents  BY StoreAssumption
<1> QED BY <1>1, <1>2 DEF Explained

\* Every way a call can end is accounted for.
LEMMA StepExplains ==
  ASSUME IInv, NEW p \in Procs, ProcessStep(p), Located(p), Explained(p)
  PROVE  Explained(p)'
<1> DEFINE k == job[p].key
<1>t. TypeOK /\ PInv(p) /\ k \in Keys  BY DEF IInv, TypeOK, Job
\* Exceptions that need no more explanation than this.
<1>r. ASSUME NEW why \in Failures, Raise(p, why), UNCHANGED <<objects, job>>,
             why \notin {"integrity", "bad_metadata"},
             why \in {"not_found", "no_metadata"} => job[p].op # "publish",
             why = "collision" => job[p].op = "publish" /\ objects[k] \in Contents \ {job[p].data}
      PROVE  Explained(p)'
  <2>1. answer'[p].status = why  BY <1>r, <1>t DEF Raise, Failed, TypeOK
  <2> QED BY <2>1, <1>r DEF Explained
<1>s. ASSUME UNCHANGED <<job, answer>> PROVE Explained(p)'
  BY <1>s, ExplanationStays
<1>o. OpenBytes(k) = IF objects[k] = None THEN "not_found" ELSE "ok"
  BY <1>t, ReadsIntact
<1>w. objects[k] # None => objects[k] \in Contents
  BY <1>t DEF IInv, ObjectsWhole, HashesTo
<1>1. CASE Request(p)
  <2>1. answer'[p].status = "none"
    BY <1>1, <1>t DEF Request, StartPublish, StartRead, Start, NoAnswer, TypeOK
  <2> QED BY <2>1 DEF Explained
<1>2. CASE Crash(p)
  <2>1. answer'[p].status = "none"  BY <1>2, <1>t DEF Crash, NoAnswer, TypeOK
  <2> QED BY <2>1 DEF Explained
<1>3. CASE \/ StatObject(p) \/ CreateObjectTmp(p) \/ SyncObjectTmp(p) \/ LinkObject(p)
           \/ Unlink(p) \/ StatMeta(p) \/ CreateMetaTmp(p) \/ SyncMetaTmp(p) \/ LinkMeta(p)
  BY <1>3, <1>s DEF StatObject, CreateObjectTmp, CreateMetaTmp, Create, SyncObjectTmp,
     SyncMetaTmp, Sync, LinkObject, Unlink, StatMeta, LinkMeta
\* Only a publisher compares, and what it finds is a whole object.
<1>4. CASE VerifyObject(p)
  <2>1. objects[k] # None /\ job[p].op = "publish"
    BY <1>4 DEF VerifyObject, Located, Found, JobFits, Reading
  <2>2. CASE objects[k] # job[p].data /\ Raise(p, "collision")
    BY <1>4, <2>1, <2>2, <1>r, <1>w DEF VerifyObject, Failures
  <2>3. CASE UNCHANGED answer  BY <1>4, <2>3, <1>s DEF VerifyObject
  <2> QED BY <1>4, <1>o, <2>1, <2>2, <2>3 DEF VerifyObject
<1>5. CASE CompareObject(p)
  <2>1. objects[k] # None /\ job[p].op = "publish"
    BY <1>5 DEF CompareObject, Located, Found, JobFits, Reading
  <2>2. CASE objects[k] # job[p].data
    BY <1>5, <2>1, <2>2, <1>r, <1>w DEF CompareObject, Failures
  <2>3. CASE objects[k] = job[p].data  BY <1>5, <2>3, <1>s DEF CompareObject
  <2> QED BY <2>2, <2>3
\* A publisher reads back its own object; a reader may find nothing.
<1>6. CASE ReadObject(p)
  <2>1. job[p].op = "publish" => objects[k] # None
    BY <1>6, <1>t, StoreAssumption
    DEF ReadObject, PInv, ObjectIsMine, JobFits, Settled
  <2>2. CASE objects[k] = None
    BY <1>6, <2>1, <2>2, <1>o, <1>r DEF ReadObject, Failures
  <2>3. CASE objects[k] # None /\ job[p].op = "open"
    <3>1. answer'[p].status = "ok"
      BY <1>6, <2>3, <1>o, <1>t DEF ReadObject, Finish, TypeOK
    <3> QED BY <3>1 DEF Explained
  <2>4. CASE objects[k] # None /\ job[p].op # "open"
    BY <1>6, <2>4, <1>o, <1>s DEF ReadObject
  <2> QED BY <2>2, <2>3, <2>4
\* The record fits what was read, when there is one, and a publisher linked it.
<1>7. CASE ReadMeta(p)
  <2>1. meta[k] # None => Describes(meta[k], seen[p])
    BY <1>7, <1>t DEF ReadMeta, IInv, MetaDescribesObject, PInv, SeenIsObject
  <2>2. CASE meta[k] = None
    <3>1. job[p].op # "publish"  BY <1>7, <2>2 DEF ReadMeta, Located, Recorded
    <3>2. ~Describes(meta[k], seen[p])  BY <2>2 DEF Describes
    <3> QED BY <1>7, <2>2, <3>1, <3>2, <1>r DEF ReadMeta, Failures
  <2>3. CASE meta[k] # None
    <3>1. answer'[p].status = "ok"
      BY <1>7, <2>1, <2>3, <1>t DEF ReadMeta, Finish, TypeOK
    <3> QED BY <3>1 DEF Explained
  <2> QED BY <2>2, <2>3
<1>8. CASE WriteFails(p)  BY <1>8, <1>r DEF WriteFails, Failures
<1>9. CASE LinkFails(p)  BY <1>9, <1>r DEF LinkFails, Failures
<1> QED BY <1>1, <1>2, <1>3, <1>4, <1>5, <1>6, <1>7, <1>8, <1>9 DEF ProcessStep, Step

\* Only a kill orphans a file, and at most one.
LEMMA OrphansBounded ==
  ASSUME TypeOK, NEW p \in Procs, ProcessStep(p), orphans <= crashes
  PROVE  orphans' <= crashes'
<1>1. CASE Crash(p)  BY <1>1 DEF Crash, TypeOK
<1>2. CASE UNCHANGED <<orphans, crashes>>  BY <1>2
<1> QED BY <1>1, <1>2 DEF ProcessStep, Request, StartPublish, StartRead, Start, Step,
       StatObject, VerifyObject, CreateObjectTmp, CreateMetaTmp, Create, SyncObjectTmp,
       SyncMetaTmp, Sync, LinkObject, CompareObject, Unlink, StatMeta, LinkMeta, ReadObject,
       ReadMeta, WriteFails, LinkFails

\* No interleaving and no kill makes a later call fail, and only a kill leaves
\* a temporary file behind.
THEOREM FailuresAlwaysExplained == Spec => []FailuresExplained
<1>1. Init => EInv
  <2> SUFFICES ASSUME Init PROVE EInv  OBVIOUS
  <2>1. \A p \in Procs : Explained(p)  BY DEF Init, Explained, NoAnswer
  <2> QED BY <2>1, InvInit, InitLocates DEF EInv, Init
<1>2. EInv /\ [Next]_vars => EInv'
  <2> SUFFICES ASSUME EInv, [Next]_vars PROVE EInv'  OBVIOUS
  <2>1. IInv /\ IInv' /\ TypeOK  BY InvNext DEF EInv, IInv
  <2>2. CASE UNCHANGED vars
    <3>1. ASSUME NEW p \in Procs PROVE Located(p)' /\ Explained(p)'
      BY <2>2 DEF EInv, vars, Located, JobFits, SyncedBeforeLink, TmpGone, Found, Recorded,
         MineOrTorn, Explained
    <3> QED BY <2>1, <2>2, <3>1 DEF EInv, vars
  <2>3. ASSUME NEW p \in Procs, ProcessStep(p) PROVE EInv'
    <3>1. Located(p)' /\ Explained(p)'
      BY <2>1, <2>3, StepLocates, StepExplains DEF EInv
    <3>2. ASSUME NEW q \in Procs, q # p PROVE Located(q)' /\ Explained(q)'
      BY <2>1, <2>3, <3>2, OthersLocate, OthersStay, ExplanationStays DEF EInv
    <3> QED BY <2>1, <2>3, <3>1, <3>2, OrphansBounded DEF EInv
  <2> QED BY <2>2, <2>3 DEF Next, ProcessStep
<1>3. EInv => FailuresExplained
  BY DEF EInv, Located, TmpGone, Tidy, Explained, FailuresExplained
<1> QED BY <1>1, <1>2, <1>3, PTL DEF Spec
-----------------------------------------------------------------------------
(***************************************************************************)
(* Power loss and rot (ArtifactStoreFaults).  The files may now change     *)
(* under a process, so its answers rest on the hash it checks when it      *)
(* reads, and on damage never looking like content.                        *)
(***************************************************************************)

SeenVerified(p) ==
  pc[p] = "read_meta" =>
    /\ HashesTo(seen[p], job[p].key)
    /\ job[p].op = "publish" => seen[p] = job[p].data

AnswerVerified(p) ==
  answer[p].status = "ok" =>
    /\ HashesTo(answer[p].data, job[p].key)
    /\ job[p].op = "publish" => answer[p].data = job[p].data

Guarded(p) == Located(p) /\ SeenVerified(p) /\ AnswerVerified(p)

FaultInv == TypeOK /\ \A p \in Procs : Guarded(p)

\* A step of a process, by name, when it is one of those that fill an answer
\* or what it will be made of.
LEMMA StepVerifies ==
  ASSUME TypeOK, NEW p \in Procs, Guarded(p), ProcessStep(p)
  PROVE  SeenVerified(p)' /\ AnswerVerified(p)'
<1> DEFINE k == job[p].key
<1>r. ASSUME NEW why \in Failures, Raise(p, why), UNCHANGED job
      PROVE  SeenVerified(p)' /\ AnswerVerified(p)'
  <2>1. answer'[p].status = why /\ pc'[p] # "read_meta" /\ why # "ok"
    BY <1>r DEF Raise, Failed, Goto, TypeOK, Failures
  <2> QED BY <2>1 DEF SeenVerified, AnswerVerified
<1>f. ASSUME OpenBytes(k) # "ok" PROVE OpenBytes(k) \in Failures
  BY <1>f DEF OpenBytes, Failures
<1>s. ASSUME UNCHANGED <<job, answer>>, pc'[p] # "read_meta"
      PROVE  SeenVerified(p)' /\ AnswerVerified(p)'
  BY <1>s DEF Guarded, SeenVerified, AnswerVerified
<1>1. CASE Request(p)
  <2>1. answer'[p].status = "none" /\ pc'[p] # "read_meta"
    BY <1>1 DEF Request, StartPublish, StartRead, Start, Goto, NoAnswer, TypeOK
  <2> QED BY <2>1 DEF SeenVerified, AnswerVerified
<1>2. CASE Crash(p)
  <2>1. answer'[p].status = "none" /\ pc'[p] # "read_meta"
    BY <1>2 DEF Crash, Goto, NoAnswer, TypeOK
  <2> QED BY <2>1 DEF SeenVerified, AnswerVerified
<1>3. CASE \/ StatObject(p) \/ CreateObjectTmp(p) \/ SyncObjectTmp(p) \/ LinkObject(p)
           \/ Unlink(p) \/ StatMeta(p) \/ CreateMetaTmp(p) \/ SyncMetaTmp(p) \/ LinkMeta(p)
  <2>1. UNCHANGED <<job, answer>>
    BY <1>3 DEF StatObject, CreateObjectTmp, CreateMetaTmp, Create, SyncObjectTmp,
       SyncMetaTmp, Sync, LinkObject, Unlink, StatMeta, LinkMeta
  <2>2. pc'[p] # "read_meta"
    BY <1>3 DEF StatObject, CreateObjectTmp, CreateMetaTmp, Create, SyncObjectTmp,
       SyncMetaTmp, Sync, LinkObject, Unlink, StatMeta, LinkMeta, Goto, TypeOK
  <2> QED BY <2>1, <2>2, <1>s
<1>4. CASE VerifyObject(p)
  <2>1. CASE \E why \in Failures : Raise(p, why)  BY <1>4, <2>1, <1>r DEF VerifyObject
  <2>2. CASE Goto(p, "stat_meta") /\ UNCHANGED answer
    BY <1>4, <2>2, <1>s DEF VerifyObject, Goto, TypeOK
  <2> QED BY <1>4, <2>1, <2>2, <1>f DEF VerifyObject, Failures
<1>5. CASE CompareObject(p)
  <2>1. CASE Raise(p, "collision")  BY <1>5, <2>1, <1>r DEF CompareObject, Failures
  <2>2. CASE Goto(p, "clean_object") /\ UNCHANGED answer
    BY <1>5, <2>2, <1>s DEF CompareObject, Goto, TypeOK
  <2> QED BY <1>5, <2>1, <2>2 DEF CompareObject
\* The bytes that are returned have just been hashed, and damaged bytes do not
\* hash to the key: a publisher's object can only be its own.
<1>6. CASE ReadObject(p)
  <2>1. CASE OpenBytes(k) # "ok"  BY <1>6, <2>1, <1>r, <1>f DEF ReadObject
  <2>2. CASE OpenBytes(k) = "ok"
    <3>1. HashesTo(objects[k], k)  BY <2>2 DEF OpenBytes
    <3>2. job[p].op = "publish" => objects[k] = job[p].data
      BY <1>6, <3>1, StoreAssumption
      DEF ReadObject, Guarded, Located, MineOrTorn, Settled, HashesTo
    <3>3. seen'[p] = objects[k] /\ job' = job
      BY <1>6, <2>2 DEF ReadObject, TypeOK
    <3>4. CASE job[p].op = "open"
      <4>1. answer'[p].data = objects[k] /\ pc'[p] = "idle"
        BY <1>6, <2>2, <3>4 DEF ReadObject, Finish, Goto, TypeOK
      <4> QED BY <3>1, <3>2, <3>3, <4>1 DEF SeenVerified, AnswerVerified
    <3>5. CASE job[p].op # "open"
      <4>1. answer' = answer  BY <1>6, <2>2, <3>5 DEF ReadObject
      <4> QED BY <3>1, <3>2, <3>3, <4>1 DEF Guarded, SeenVerified, AnswerVerified
    <3> QED BY <3>4, <3>5
  <2> QED BY <2>1, <2>2
<1>7. CASE ReadMeta(p)
  <2>1. CASE \E why \in Failures : Raise(p, why)  BY <1>7, <2>1, <1>r DEF ReadMeta
  <2>2. CASE \E d : Finish(p, [status |-> "ok", data |-> seen[p], desc |-> d])
    <3>1. answer'[p].data = seen[p] /\ pc'[p] = "idle" /\ job' = job
      BY <1>7, <2>2 DEF ReadMeta, Finish, Goto, TypeOK
    <3> QED BY <1>7, <3>1 DEF ReadMeta, Guarded, SeenVerified, AnswerVerified
  <2> QED BY <1>7, <2>1, <2>2 DEF ReadMeta, Failures
<1>8. CASE WriteFails(p)  BY <1>8, <1>r DEF WriteFails, Failures
<1>9. CASE LinkFails(p)  BY <1>9, <1>r DEF LinkFails, Failures
<1> QED BY <1>1, <1>2, <1>3, <1>4, <1>5, <1>6, <1>7, <1>8, <1>9 DEF ProcessStep, Step

\* A step of the store keeps what every process relies on.
LEMMA StoreStepGuards ==
  ASSUME FaultInv, NEW p \in Procs, ProcessStep(p)
  PROVE  FaultInv'
<1>1. TypeOK'
  BY RequestTyped, StepTyped, CrashTyped DEF ProcessStep, FaultInv, Guarded, Located
<1>2. Guarded(p)'
  BY StepLocates, StepVerifies DEF FaultInv, Guarded
<1>3. ASSUME NEW q \in Procs, q # p PROVE Guarded(q)'
  <2>1. Located(q)'  BY <1>3, OthersLocate DEF FaultInv, Guarded
  <2>2. /\ pc'[q] = pc[q] /\ job'[q] = job[q] /\ seen'[q] = seen[q]
        /\ answer'[q] = answer[q]
    BY <1>3, OthersStay DEF FaultInv
  <2> QED BY <2>1, <2>2 DEF FaultInv, Guarded, SeenVerified, AnswerVerified
<1> QED BY <1>1, <1>2, <1>3 DEF FaultInv

\* After an outage nobody is in a call; what was answered before stands.
LEMMA PowerLossGuards ==
  ASSUME FaultInv, NEW lost, PowerLoss(lost)
  PROVE  FaultInv'
<1>1. Cardinality({p \in Procs : tmp[p] # "none"}) \in Nat
  BY FaultAssumption, FS_Subset, FS_CardinalityType
<1>2. TypeOK'
  BY <1>1 DEF PowerLoss, FaultInv, TypeOK, Locations, Answer, NoAnswer
<1>3. ASSUME NEW p \in Procs PROVE Guarded(p)'
  <2>1. /\ pc'[p] = "idle" /\ tmp'[p] = "none" /\ job'[p] = job[p]
        /\ answer'[p] = answer[p] \/ answer'[p].status = "none"
    BY DEF PowerLoss, NoAnswer
  <2> QED BY <2>1 DEF FaultInv, Guarded, Located, JobFits, SyncedBeforeLink, TmpGone, Found,
             Recorded, MineOrTorn, SeenVerified, AnswerVerified, Reading, Settled
<1> QED BY <1>2, <1>3 DEF FaultInv

\* Rot spares names, and no process mistakes it for its own content.
LEMMA RotGuards ==
  ASSUME FaultInv, NEW k \in Keys, Rot(k)
  PROVE  FaultInv'
<1>1. TypeOK'  BY DEF Rot, FaultInv, TypeOK
<1>2. /\ UNCHANGED <<pc, job, tmp, seen, answer>>
      /\ \A l \in Keys : /\ objects'[l] = objects[l] \/ objects'[l] = Torn
                         /\ meta'[l] = meta[l] \/ meta'[l] = Torn
  BY DEF Rot, FaultInv, TypeOK
<1>3. ASSUME NEW p \in Procs PROVE Guarded(p)'
  <2>1. job[p].key \in Keys  BY DEF FaultInv, TypeOK, Job
  <2>2. Found(p)' /\ Recorded(p)' /\ MineOrTorn(p)'
    BY <1>2, <2>1, StoreAssumption
    DEF FaultInv, Guarded, Located, Found, Recorded, MineOrTorn
  <2> QED BY <1>2, <2>2 DEF FaultInv, Guarded, Located, JobFits, SyncedBeforeLink, TmpGone,
             SeenVerified, AnswerVerified
<1> QED BY <1>1, <1>3 DEF FaultInv

LEMMA FaultInvInit == FaultInit => FaultInv
<1> SUFFICES ASSUME FaultInit PROVE FaultInv  OBVIOUS
<1>1. Init  BY DEF FaultInit
<1>2. \A p \in Procs : SeenVerified(p) /\ AnswerVerified(p)
  BY <1>1 DEF Init, SeenVerified, AnswerVerified, NoAnswer
<1> QED BY <1>1, <1>2, InitTyped, InitLocates DEF FaultInv, Guarded

LEMMA FaultInvNext == FaultInv /\ [FaultNext]_faultVars => FaultInv'
<1> SUFFICES ASSUME FaultInv, [FaultNext]_faultVars PROVE FaultInv'  OBVIOUS
<1>1. CASE StoreStep
  BY <1>1, StoreStepGuards DEF StoreStep, Next, ProcessStep
<1>2. CASE \E lost \in SUBSET atRisk : PowerLoss(lost)  BY <1>2, PowerLossGuards
<1>3. CASE \E k \in Keys : Rot(k)  BY <1>3, RotGuards
<1>4. CASE UNCHANGED vars
  <2>1. ASSUME NEW p \in Procs PROVE Guarded(p)'
    BY <1>4 DEF FaultInv, vars, Guarded, Located, JobFits, SyncedBeforeLink, TmpGone, Found,
       Recorded, MineOrTorn, SeenVerified, AnswerVerified
  <2> QED BY <1>4, <2>1 DEF FaultInv, TypeOK, vars
<1> QED BY <1>1, <1>2, <1>3, <1>4 DEF FaultNext, WriteBack, faultVars

LEMMA FaultInvHolds == FaultSpec => []FaultInv
BY FaultInvInit, FaultInvNext, PTL DEF FaultSpec

\* Whatever happened to the disk, no read returns bytes that do not hash to the
\* key, and no publish reports success for other bytes than its own.
THEOREM ReadsAlwaysVerified == FaultSpec => []VerifiedReads
<1>1. FaultInv => VerifiedReads
  BY DEF FaultInv, Guarded, AnswerVerified, VerifiedReads
<1> QED BY <1>1, FaultInvHolds, PTL

\* No call rewrites a file that is there, damaged or not.
THEOREM FilesNeverRewritten == FaultSpec => NeverRewritten
<1> DEFINE Kept ==
      \A k \in Keys : /\ objects[k] # None => objects'[k] \in {objects[k], None, Torn}
                      /\ meta[k] # None => meta'[k] \in {meta[k], None, Torn}
<1>1. FaultInv /\ [FaultNext]_faultVars => [Kept]_files
  <2> SUFFICES ASSUME FaultInv, [FaultNext]_faultVars PROVE [Kept]_files  OBVIOUS
  <2>1. CASE StoreStep
    BY <2>1, FilesStay DEF StoreStep, Next, ProcessStep, FaultInv
  <2>2. CASE \E lost \in SUBSET atRisk : PowerLoss(lost)  BY <2>2 DEF PowerLoss
  <2>3. CASE \E k \in Keys : Rot(k)  BY <2>3 DEF Rot, FaultInv, TypeOK
  <2>4. CASE UNCHANGED vars  BY <2>4 DEF vars, files
  <2> QED BY <2>1, <2>2, <2>3, <2>4 DEF FaultNext, WriteBack, faultVars
<1> QED BY <1>1, FaultInvHolds, PTL DEF FaultSpec, NeverRewritten

(***************************************************************************)
(* Outages without rot.  Names may go, metadata without its object         *)
(* included, but what stays is whole; and when no two contents share a     *)
(* digest, whatever a publisher finds is what it would have written.       *)
(***************************************************************************)

Distinct == \A c, d \in Contents : Digest[c] = Digest[d] => c = d

\* A record outlives its object and still has the size of the key's content.
MetaFits ==
  \A k \in Keys : meta[k] # None =>
    meta[k] \in Record /\ \E c \in Contents : Digest[c] = k /\ meta[k].size = Size[c]

PublishHeals(p) ==
  job[p].op = "publish" => answer[p].status \in {"none", "ok", "io"}

HealInv ==
  /\ FaultInv
  /\ rots \in Nat
  /\ rots = 0 => ObjectsWhole /\ MetaFits /\ \A p \in Procs : PublishHeals(p)

\* Links create whole files only.
LEMMA LinksWhole ==
  ASSUME FaultInv, ObjectsWhole, MetaFits, NEW p \in Procs, ProcessStep(p)
  PROVE  ObjectsWhole' /\ MetaFits'
<1> DEFINE own == job[p].key
<1>t. TypeOK /\ Located(p) /\ own \in Keys  BY DEF FaultInv, Guarded, TypeOK, Job
<1>1. ASSUME NEW k \in Keys, objects'[k] # None PROVE HashesTo(objects'[k], k)
  <2>1. CASE objects'[k] = objects[k]
    BY <1>1, <2>1 DEF ObjectsWhole
  <2>2. CASE LinkObject(p) /\ objects'[k] # objects[k]
    <3>1. k = own /\ objects'[k] = Linked(p, job[p].data)
      BY <2>2, <1>t DEF LinkObject, TypeOK
    <3> QED BY <2>2, <3>1, <1>t
            DEF LinkObject, Located, SyncedBeforeLink, JobFits, Reading, Linked, HashesTo
  <2> QED BY <2>1, <2>2 DEF ProcessStep, Request, StartPublish, StartRead, Start, Step,
         StatObject, VerifyObject, CreateObjectTmp, CreateMetaTmp, Create, SyncObjectTmp,
         SyncMetaTmp, Sync, CompareObject, Unlink, StatMeta, LinkMeta, ReadObject, ReadMeta,
         WriteFails, LinkFails, Crash
<1>2. ASSUME NEW k \in Keys, meta'[k] # None
      PROVE  meta'[k] \in Record /\ \E c \in Contents : Digest[c] = k /\ meta'[k].size = Size[c]
  <2>1. CASE meta'[k] = meta[k]
    BY <1>2, <2>1 DEF MetaFits
  <2>2. CASE LinkMeta(p) /\ meta'[k] # meta[k]
    <3> DEFINE candidate == [size |-> Size[job[p].data], desc |-> job[p].desc]
    <3>1. /\ tmp[p] = "synced" /\ job[p].data \in Contents /\ job[p].desc \in Descs
          /\ own = Digest[job[p].data]
      BY <2>2, <1>t DEF LinkMeta, Located, SyncedBeforeLink, JobFits, Reading
    <3>2. candidate \in Record /\ candidate.size = Size[job[p].data]
      BY <3>1, StoreAssumption DEF Record
    <3>3. k = own /\ meta'[k] = candidate
      <4> HIDE DEF candidate
      <4>1. meta' = IF meta[own] = None
                    THEN [meta EXCEPT ![own] = Linked(p, candidate)] ELSE meta
        BY <2>2 DEF LinkMeta, candidate
      <4> QED BY <2>2, <3>1, <4>1, <1>t DEF Linked, TypeOK
    <3> QED BY <3>1, <3>2, <3>3
  <2> QED BY <2>1, <2>2 DEF ProcessStep, Request, StartPublish, StartRead, Start, Step,
         StatObject, VerifyObject, CreateObjectTmp, CreateMetaTmp, Create, SyncObjectTmp,
         SyncMetaTmp, Sync, LinkObject, CompareObject, Unlink, StatMeta, ReadObject, ReadMeta,
         WriteFails, LinkFails, Crash
<1> QED BY <1>1, <1>2 DEF ObjectsWhole, MetaFits

\* Nothing a publisher can find makes it fail.
LEMMA PublishSucceeds ==
  ASSUME Distinct, FaultInv, ObjectsWhole, MetaFits, NEW p \in Procs, ProcessStep(p),
         PublishHeals(p)
  PROVE  PublishHeals(p)'
<1> DEFINE k == job[p].key
<1>t. TypeOK /\ Located(p) /\ SeenVerified(p) /\ k \in Keys
  BY DEF FaultInv, Guarded, TypeOK, Job
<1>j. job[p].op = "publish" => job[p].data \in Contents /\ k = Digest[job[p].data]
  BY <1>t DEF Located, JobFits
<1>w. objects[k] # None => HashesTo(objects[k], k) /\ OpenBytes(k) = "ok"
  BY <1>t DEF ObjectsWhole, OpenBytes
\* The only content of the key is the publisher's.
<1>u. job[p].op = "publish" /\ objects[k] # None => objects[k] = job[p].data
  BY <1>w, <1>j DEF HashesTo, Distinct
<1>r. ASSUME NEW why, Raise(p, why), UNCHANGED job,
             job[p].op = "publish" => why = "io"
      PROVE  PublishHeals(p)'
  <2>1. answer'[p].status = why  BY <1>r, <1>t DEF Raise, Failed, TypeOK
  <2> QED BY <2>1, <1>r DEF PublishHeals
<1>s. ASSUME UNCHANGED <<job, answer>> PROVE PublishHeals(p)'
  BY <1>s DEF PublishHeals
<1>1. CASE Request(p)
  <2>1. answer'[p].status = "none"
    BY <1>1, <1>t DEF Request, StartPublish, StartRead, Start, NoAnswer, TypeOK
  <2> QED BY <2>1 DEF PublishHeals
<1>2. CASE Crash(p)
  <2>1. answer'[p].status = "none"  BY <1>2, <1>t DEF Crash, NoAnswer, TypeOK
  <2> QED BY <2>1 DEF PublishHeals
<1>3. CASE \/ StatObject(p) \/ CreateObjectTmp(p) \/ SyncObjectTmp(p) \/ LinkObject(p)
           \/ Unlink(p) \/ StatMeta(p) \/ CreateMetaTmp(p) \/ SyncMetaTmp(p) \/ LinkMeta(p)
  BY <1>3, <1>s DEF StatObject, CreateObjectTmp, CreateMetaTmp, Create, SyncObjectTmp,
     SyncMetaTmp, Sync, LinkObject, Unlink, StatMeta, LinkMeta
<1>4. CASE VerifyObject(p)
  <2>1. objects[k] = job[p].data /\ OpenBytes(k) = "ok"
    BY <1>4, <1>t, <1>u, <1>w DEF VerifyObject, Located, Found, JobFits, Reading
  <2> QED BY <1>4, <2>1, <1>s DEF VerifyObject
<1>5. CASE CompareObject(p)
  <2>1. objects[k] = job[p].data
    BY <1>5, <1>t, <1>u DEF CompareObject, Located, Found, JobFits, Reading
  <2> QED BY <1>5, <2>1, <1>s DEF CompareObject
<1>6. CASE ReadObject(p)
  <2>1. job[p].op = "publish" => OpenBytes(k) = "ok"
    BY <1>6, <1>t, <1>j, <1>w, StoreAssumption
    DEF ReadObject, Located, MineOrTorn, Settled
  <2>2. CASE OpenBytes(k) # "ok"  BY <1>6, <2>1, <2>2, <1>r DEF ReadObject
  <2>3. CASE OpenBytes(k) = "ok" /\ job[p].op = "open"
    BY <1>6, <2>3 DEF ReadObject, PublishHeals
  <2>4. CASE OpenBytes(k) = "ok" /\ job[p].op # "open"
    BY <1>6, <2>4, <1>s DEF ReadObject
  <2> QED BY <2>2, <2>3, <2>4
<1>7. CASE ReadMeta(p)
  <2>1. job[p].op = "publish" => Describes(meta[k], seen[p])
    <3>1. SUFFICES ASSUME job[p].op = "publish" PROVE Describes(meta[k], seen[p])
      OBVIOUS
    <3>2. meta[k] # None /\ seen[p] = job[p].data
      BY <1>7, <1>t, <3>1 DEF ReadMeta, Located, Recorded, SeenVerified
    <3>3. PICK c \in Contents : Digest[c] = k /\ meta[k].size = Size[c]
      BY <3>2, <1>t DEF MetaFits
    <3>4. c = job[p].data  BY <3>1, <3>3, <1>j DEF Distinct
    <3>5. meta[k] # Torn  BY <3>2, <1>t, StoreAssumption DEF MetaFits
    <3> QED BY <3>2, <3>3, <3>4, <3>5 DEF Describes
  <2>2. CASE \E why \in {"no_metadata", "bad_metadata"} : Raise(p, why) /\ job[p].op # "publish"
    BY <1>7, <2>2, <1>r DEF ReadMeta
  <2>3. CASE \E d : Finish(p, [status |-> "ok", data |-> seen[p], desc |-> d])
    <3>1. answer'[p].status = "ok"  BY <2>3, <1>t DEF Finish, TypeOK
    <3> QED BY <3>1 DEF PublishHeals
  <2> QED BY <1>7, <2>1, <2>2, <2>3 DEF ReadMeta, Describes
<1>8. CASE WriteFails(p)  BY <1>8, <1>r DEF WriteFails
<1>9. CASE LinkFails(p)  BY <1>9, <1>r DEF LinkFails
<1> QED BY <1>1, <1>2, <1>3, <1>4, <1>5, <1>6, <1>7, <1>8, <1>9 DEF ProcessStep, Step

LEMMA HealInvNext ==
  ASSUME Distinct, HealInv, [FaultNext]_faultVars
  PROVE  HealInv'
<1>1. FaultInv'  BY FaultInvNext DEF HealInv
<1>2. CASE StoreStep
  <2>1. PICK p \in Procs : ProcessStep(p)  BY <1>2 DEF StoreStep, Next, ProcessStep
  <2>2. rots' = rots  BY <1>2 DEF StoreStep
  <2>3. ASSUME rots = 0 PROVE ObjectsWhole' /\ MetaFits'
    BY <2>1, <2>3, LinksWhole DEF HealInv
  <2>4. ASSUME rots = 0, NEW q \in Procs PROVE PublishHeals(q)'
    <3>1. CASE q = p  BY <2>1, <2>4, <3>1, PublishSucceeds DEF HealInv
    <3>2. CASE q # p
      BY <2>1, <2>4, <3>2, OthersStay DEF HealInv, FaultInv, PublishHeals
    <3> QED BY <3>1, <3>2
  <2> QED BY <1>1, <2>2, <2>3, <2>4 DEF HealInv
<1>3. ASSUME NEW lost, PowerLoss(lost) PROVE HealInv'
  <2>1. /\ rots' = rots
        /\ \A k \in Keys : /\ objects'[k] \in {None, objects[k]}
                           /\ meta'[k] \in {None, meta[k]}
        /\ \A p \in Procs : /\ job'[p] = job[p]
                            /\ answer'[p] = answer[p] \/ answer'[p].status = "none"
    BY <1>3 DEF PowerLoss, NoAnswer
  <2>2. rots = 0 => ObjectsWhole'  BY <2>1 DEF HealInv, ObjectsWhole
  <2>3. rots = 0 => MetaFits'  BY <2>1 DEF HealInv, MetaFits
  <2>4. rots = 0 => \A p \in Procs : PublishHeals(p)'  BY <2>1 DEF HealInv, PublishHeals
  <2> QED BY <1>1, <2>1, <2>2, <2>3, <2>4 DEF HealInv
<1>4. CASE \E k \in Keys : Rot(k)
  <2>1. rots' \in Nat /\ rots' # 0  BY <1>4 DEF Rot, HealInv
  <2> QED BY <1>1, <2>1 DEF HealInv
<1>5. CASE UNCHANGED <<vars, rots>>
  BY <1>1, <1>5 DEF vars, HealInv, ObjectsWhole, MetaFits, PublishHeals
<1> QED BY <1>2, <1>3, <1>4, <1>5 DEF FaultNext, WriteBack, faultVars

\* Where no two contents share a digest, publishing the same bytes again heals
\* whatever outages left behind.
THEOREM OutagesAlwaysHeal == Distinct => (FaultSpec => []OutagesHeal)
<1> SUFFICES ASSUME Distinct PROVE FaultSpec => []OutagesHeal  OBVIOUS
<1>1. FaultInit => HealInv
  <2>1. FaultInit => \A p \in Procs : PublishHeals(p)
    BY DEF FaultInit, Init, PublishHeals, NoAnswer
  <2>2. FaultInit => ObjectsWhole /\ MetaFits
    BY DEF FaultInit, Init, ObjectsWhole, MetaFits
  <2> QED BY <2>1, <2>2, FaultInvInit DEF HealInv, FaultInit
<1>2. HealInv /\ [FaultNext]_faultVars => HealInv'  BY HealInvNext
<1>3. HealInv => OutagesHeal  BY DEF HealInv, PublishHeals, OutagesHeal
<1> QED BY <1>1, <1>2, <1>3, PTL DEF FaultSpec
=============================================================================
