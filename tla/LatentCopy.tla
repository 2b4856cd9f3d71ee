----------------------------- MODULE LatentCopy -----------------------------
(***************************************************************************)
(* What Qt Remote Objects promises of the values of a replica: it "mirrors *)
(* the API of the source", it "is a latent copy" of it.  A copy holds      *)
(* values its source has had, in the source's order, without going back,   *)
(* for as long as the replica lives.  It may leave values out.             *)
(***************************************************************************)
EXTENDS Naturals

CONSTANT Replicas

VARIABLES
  source,   \* version of the values of each replica's source
  live,     \* the replicas that exist
  copy      \* version of the values each replica holds, 0 for its defaults

Init ==
  /\ source = [r \in Replicas |-> 1]
  /\ live = {}
  /\ copy = [r \in Replicas |-> 0]

(* Sources only ever move forward. *)
Change ==
  /\ source' \in [Replicas -> Nat]
  /\ \A r \in Replicas : source'[r] >= source[r]
  /\ UNCHANGED <<live, copy>>

(* A replica starts with its defaults. *)
Acquire(r) ==
  /\ r \notin live
  /\ live' = live \cup {r}
  /\ copy' = [copy EXCEPT ![r] = 0]
  /\ UNCHANGED source

(* One replica is deleted, or all those of a process that ends. *)
Release(gone) ==
  /\ gone \subseteq live
  /\ live' = live \ gone
  /\ copy' = [r \in Replicas |-> IF r \in gone THEN 0 ELSE copy[r]]
  /\ UNCHANGED source

(* Values the source has had since those the replica holds arrive. *)
Update(r) ==
  /\ r \in live
  /\ \E v \in copy[r]..source[r] : copy' = [copy EXCEPT ![r] = v]
  /\ UNCHANGED <<source, live>>

Next ==
  \/ Change
  \/ \E r \in Replicas : Acquire(r) \/ Update(r)
  \/ \E gone \in SUBSET live : Release(gone)

Spec == Init /\ [][Next]_<<source, live, copy>>
=============================================================================
