------------------------- MODULE ArtifactStoreFaults -------------------------
(***************************************************************************)
(* The artifact store on a machine that loses power and a disk that rots.  *)
(* The store fsyncs a file before it links it but never fsyncs a           *)
(* directory, so a name created by link(2) is at risk until the kernel     *)
(* writes the directory back; any subset of the names at risk may be gone  *)
(* after an outage, metadata without object included.  A file may also     *)
(* change under the store, which is what the hash check on every read is   *)
(* for.                                                                    *)
(***************************************************************************)
EXTENDS ArtifactStore, FiniteSets

CONSTANTS MaxOutages, MaxRots      \* bounds on the faults

ASSUME FaultAssumption ==
  MaxOutages \in Nat /\ MaxRots \in Nat /\ IsFiniteSet(Procs)

VARIABLES
  atRisk,       \* names <<"object" | "meta", key>> not yet durable
  outages,
  rots

faultVars == <<vars, atRisk, outages, rots>>

Names == {"object", "meta"} \X Keys

FaultInit ==
  /\ Init
  /\ atRisk = {}
  /\ outages = 0
  /\ rots = 0

\* os.link makes a name; nothing in the store makes it durable.
NewNames ==
  {n \in Names : \/ n[1] = "object" /\ objects[n[2]] = None /\ objects'[n[2]] # None
                 \/ n[1] = "meta" /\ meta[n[2]] = None /\ meta'[n[2]] # None}

StoreStep ==
  /\ Next
  /\ atRisk' = atRisk \cup NewNames
  /\ UNCHANGED <<outages, rots>>

\* The kernel writes a directory back in its own time.
WriteBack(n) ==
  /\ n \in atRisk
  /\ atRisk' = atRisk \ {n}
  /\ UNCHANGED <<vars, outages, rots>>

\* Every process dies, some of the names at risk are gone, the data of the
\* files that stay is whole.
PowerLoss(lost) ==
  /\ outages < MaxOutages
  /\ outages' = outages + 1
  /\ objects' = [k \in Keys |-> IF <<"object", k>> \in lost THEN None ELSE objects[k]]
  /\ meta' = [k \in Keys |-> IF <<"meta", k>> \in lost THEN None ELSE meta[k]]
  /\ atRisk' = {}
  /\ pc' = [p \in Procs |-> "idle"]
  /\ tmp' = [p \in Procs |-> "none"]
  /\ answer' = [p \in Procs |-> IF pc[p] = "idle" THEN answer[p] ELSE NoAnswer]
  /\ orphans' = orphans + Cardinality({p \in Procs : tmp[p] # "none"})
  /\ UNCHANGED <<job, seen, crashes, rots>>

\* The bytes of an object, or of a metadata file, change on disk.
Rot(k) ==
  /\ rots < MaxRots
  /\ rots' = rots + 1
  /\ \/ objects[k] # None /\ objects' = [objects EXCEPT ![k] = Torn] /\ UNCHANGED meta
     \/ meta[k] # None /\ meta' = [meta EXCEPT ![k] = Torn] /\ UNCHANGED objects
  /\ UNCHANGED <<pc, job, tmp, seen, answer, orphans, crashes, atRisk, outages>>

FaultNext ==
  \/ StoreStep
  \/ \E n \in Names : WriteBack(n)
  \/ \E lost \in SUBSET atRisk : PowerLoss(lost)
  \/ \E k \in Keys : Rot(k)

FaultSpec == FaultInit /\ [][FaultNext]_faultVars

-----------------------------------------------------------------------------
(* Properties.                                                             *)

\* Whatever happened to the disk, no read returns bytes that do not hash to
\* the key that was asked for, and no publish reports success for other bytes
\* than its own.
VerifiedReads ==
  \A p \in Procs : answer[p].status = "ok" =>
    /\ HashesTo(answer[p].data, job[p].key)
    /\ job[p].op = "publish" => answer[p].data = job[p].data

\* Damage is reported, never papered over: no call rewrites a damaged file,
\* nor any other file that is there.
NeverRewritten ==
  [][\A k \in Keys :
       /\ objects[k] # None => objects'[k] \in {objects[k], None, Torn}
       /\ meta[k] # None => meta'[k] \in {meta[k], None, Torn}]_files

\* Outages alone leave nothing that a later publish cannot repair (Digest is
\* collision free in the runs that check this): a half-published artifact never
\* makes publishing the same bytes again fail.
OutagesHeal ==
  rots = 0 => \A p \in Procs :
    job[p].op = "publish" => answer[p].status \in {"none", "ok", "io"}
=============================================================================
