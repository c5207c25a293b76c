--------------------------- MODULE EvidenceVault ----------------------------
(***************************************************************************)
(* The evidence vault (aegis/evidence/vault.py): content-addressed objects *)
(* with a provenance sidecar beside each.  The filesystem backend links    *)
(* complete files into place and never replaces one; the object store asks *)
(* whether a key exists and then puts, in two calls.  A put writes the     *)
(* object before its sidecar and may stop anywhere.                        *)
(***************************************************************************)
EXTENDS Naturals, FiniteSets

CONSTANTS
  Contents,    \* byte strings, standing for their hashes too
  Putters,     \* processes that can be putting something at the same time
  MaxPuts      \* bound: puts altogether

ASSUME VaultAssumption == MaxPuts \in Nat

VARIABLES
  backend,     \* settings.vault_backend
  objects,     \* the contents stored under their key
  sidecars,    \* content -> the put whose envelope its sidecar holds
  put,         \* the puts in flight
  puts         \* how many began, and the number of the last one

vaultVars == <<backend, objects, sidecars, put, puts>>

NoPut == [stage |-> "idle"]

VaultInit ==
  /\ backend \in {"filesystem", "minio"}
  /\ objects = {}
  /\ sidecars = [c \in {} |-> 0]
  /\ put = [w \in Putters |-> NoPut]
  /\ puts = 0

Has(c) == c \in objects /\ c \in DOMAIN sidecars

\* The sidecar of c comes to hold the envelope of put n.
WithSidecar(c, n) == [x \in DOMAIN sidecars \cup {c} |-> IF x = c THEN n ELSE sidecars[x]]
FirstSidecar(c, n) == IF c \in DOMAIN sidecars THEN sidecars ELSE WithSidecar(c, n)

Moved(w, stage) == put' = [put EXCEPT ![w].stage = stage]

BeginPut(w, c) ==
  /\ put[w] = NoPut
  /\ puts < MaxPuts
  /\ puts' = puts + 1
  /\ put' = [put EXCEPT ![w] = [stage |-> "object", content |-> c, number |-> puts + 1]]
  /\ UNCHANGED <<backend, objects, sidecars>>
-----------------------------------------------------------------------------
\* LocalFilesystemVault.put: link(2) makes the complete file appear, or finds one.
LinkObject(w) ==
  /\ backend = "filesystem" /\ put[w].stage = "object"
  /\ objects' = objects \cup {put[w].content}
  /\ Moved(w, "sidecar")
  /\ UNCHANGED <<backend, sidecars, puts>>

LinkSidecar(w) ==
  /\ backend = "filesystem" /\ put[w].stage = "sidecar"
  /\ sidecars' = FirstSidecar(put[w].content, put[w].number)
  /\ Moved(w, "stored")
  /\ UNCHANGED <<backend, objects, puts>>

\* MinioVault.put: _put_once looks for the key ...
StatObject(w) ==
  /\ backend = "minio" /\ put[w].stage = "object"
  /\ Moved(w, IF put[w].content \in objects THEN "sidecar" ELSE "putObject")
  /\ UNCHANGED <<backend, objects, sidecars, puts>>

\* ... and puts it, over whatever another put has left there meanwhile.
PutObject(w) ==
  /\ put[w].stage = "putObject"
  /\ objects' = objects \cup {put[w].content}
  /\ Moved(w, "sidecar")
  /\ UNCHANGED <<backend, sidecars, puts>>

\* Slip: the sidecar is put whether or not there is one.
StatSidecarIgnored(w) ==
  /\ backend = "minio" /\ put[w].stage = "sidecar"
  /\ Moved(w, "putSidecar")
  /\ UNCHANGED <<backend, objects, sidecars, puts>>

StatSidecar(w) ==
  /\ backend = "minio" /\ put[w].stage = "sidecar"
  /\ Moved(w, IF put[w].content \in DOMAIN sidecars THEN "stored" ELSE "putSidecar")
  /\ UNCHANGED <<backend, objects, sidecars, puts>>

PutSidecar(w) ==
  /\ put[w].stage = "putSidecar"
  /\ sidecars' = WithSidecar(put[w].content, put[w].number)
  /\ Moved(w, "stored")
  /\ UNCHANGED <<backend, objects, puts>>

Putting(w) ==
  \/ LinkObject(w) \/ LinkSidecar(w)
  \/ StatObject(w) \/ PutObject(w) \/ StatSidecar(w) \/ PutSidecar(w)

\* A put seen from outside as one step, by a process that overlaps no other put of
\* the same content.
PutWhole(c) ==
  /\ puts' = puts + 1
  /\ objects' = objects \cup {c}
  /\ sidecars' = FirstSidecar(c, puts + 1)
  /\ UNCHANGED <<backend, put>>
=============================================================================
