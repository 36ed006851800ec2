-------------------------- MODULE WriteOnceRegistry --------------------------
(***************************************************************************)
(* What the artifact store promises, with no files in it.  A key is bound  *)
(* once to the bytes it addresses and, after that, once to a descriptive   *)
(* record; neither binding is ever changed or removed.  A client's answer  *)
(* is always read off the registry, so every client that is answered for   *)
(* a key is told the same thing.                                           *)
(***************************************************************************)
CONSTANTS Procs, Keys, Contents, Descs, Digest, None

VARIABLES
  bytes,       \* bytes[k]: what key k addresses, or None
  record,      \* record[k]: the descriptive record of k, or None
  told         \* told[p]: what client p was last told, or None

registryVars == <<bytes, record, told>>

Init ==
  /\ bytes = [k \in Keys |-> None]
  /\ record = [k \in Keys |-> None]
  /\ told = [p \in Procs |-> None]

\* Bytes are only ever bound to the key their digest names.
Bind(c) ==
  /\ bytes[Digest[c]] = None
  /\ bytes' = [bytes EXCEPT ![Digest[c]] = c]
  /\ UNCHANGED <<record, told>>

Describe(k, d) ==
  /\ bytes[k] # None
  /\ record[k] = None
  /\ record' = [record EXCEPT ![k] = d]
  /\ UNCHANGED <<bytes, told>>

\* A client learns the bytes of a key, or its bytes and its record.
Tell(p, k) ==
  /\ bytes[k] # None
  /\ \E d \in {None, record[k]} :
       told' = [told EXCEPT ![p] = [key |-> k, data |-> bytes[k], desc |-> d]]
  /\ UNCHANGED <<bytes, record>>

\* A client forgets its answer when it makes its next request.
Forget(p) ==
  /\ told' = [told EXCEPT ![p] = None]
  /\ UNCHANGED <<bytes, record>>

Next ==
  \/ \E c \in Contents : Bind(c)
  \/ \E k \in Keys, d \in Descs : Describe(k, d)
  \/ \E p \in Procs, k \in Keys : Tell(p, k)
  \/ \E p \in Procs : Forget(p)

Spec == Init /\ [][Next]_registryVars
==============================================================================
