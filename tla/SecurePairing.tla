--------------------------- MODULE SecurePairing ----------------------------
(***************************************************************************)
(* The pairing manager of a coordinator (crates/secure-pairing): it sets   *)
(* challenges to new nodes, checks their answers, once and within          *)
(* ChallengeExpiry, and issues and revokes their certificates.             *)
(*                                                                         *)
(* An answer is what the checks find out about it: whether it begins like  *)
(* the challenge it names, which key comes with it, and whether the        *)
(* signature is by that key over the challenge.                            *)
(***************************************************************************)
EXTENDS Naturals

CONSTANTS
  PublicKeys,      \* public keys of nodes
  ChallengeExpiry  \* 300 s in the code

ASSUME PairingAssumption == ChallengeExpiry \in Nat

VARIABLES
  pending_challenges,  \* node id -> age of the challenge set to it
  node_keys,           \* node id -> public key
  certificates         \* history: certificates issued, and whether too late

pairingVars == <<pending_challenges, node_keys, certificates>>

PairingInit ==
  /\ pending_challenges = [id \in {} |-> 0]
  /\ node_keys = [id \in {} |-> 0]
  /\ certificates = {}

\* new_coordinator of a process that starts again: the identifiers are new
\* too, and certificates of the old key are no longer counted.
NewManager ==
  /\ pending_challenges' = [id \in {} |-> 0]
  /\ node_keys' = [id \in {} |-> 0]
  /\ certificates' = {}

\* A map without the entry of id.
Without(map, id) == [i \in DOMAIN map \ {id} |-> map[i]]

\* generate_challenge, for a fresh id.
GenerateChallenge(id) ==
  /\ pending_challenges' = [i \in DOMAIN pending_challenges \cup {id} |->
                              IF i = id THEN 0 ELSE pending_challenges[i]]
  /\ UNCHANGED <<node_keys, certificates>>

\* The comparison in verify_response (a bug: it is left to the cleanup).
NeverExpires(age) == FALSE
ChallengeExpired(age) == age > ChallengeExpiry

\* verify_response of an answer that names a pending challenge: the challenge
\* is taken out whatever the checks say.
VerifyResponse(id, key, signed) ==
  /\ id \in DOMAIN pending_challenges
  /\ pending_challenges' = Without(pending_challenges, id)
  /\ LET age == pending_challenges[id]
     IN IF ChallengeExpired(age) \/ ~signed
        THEN UNCHANGED <<node_keys, certificates>>
        ELSE /\ node_keys' = [i \in DOMAIN node_keys \cup {id} |->
                                IF i = id THEN key ELSE node_keys[i]]
             /\ certificates' = certificates
                  \cup {[id |-> id, key |-> key, late |-> age > ChallengeExpiry]}

\* revoke_node forgets the key; certificates that are out stay out.
RevokeNode(id) ==
  /\ node_keys' = Without(node_keys, id)
  /\ UNCHANGED <<pending_challenges, certificates>>

CleanupExpiredChallenges ==
  /\ pending_challenges' =
       [i \in {j \in DOMAIN pending_challenges :
                 ~ChallengeExpired(pending_challenges[j])} |->
          pending_challenges[i]]
  /\ UNCHANGED <<node_keys, certificates>>

\* One unit of time; no challenge older than the expiry needs its exact age.
Older(age) == IF age > ChallengeExpiry THEN age ELSE age + 1
PairingTick ==
  /\ pending_challenges' = [i \in DOMAIN pending_challenges |->
                              Older(pending_challenges[i])]
  /\ UNCHANGED <<node_keys, certificates>>

-----------------------------------------------------------------------------
(* Properties *)

PairingTypeOK(ids) ==
  /\ DOMAIN pending_challenges \subseteq ids
  /\ \A i \in DOMAIN pending_challenges :
       pending_challenges[i] \in 0..(ChallengeExpiry + 1)
  /\ DOMAIN node_keys \subseteq ids
  /\ \A i \in DOMAIN node_keys : node_keys[i] \in PublicKeys
  /\ certificates \subseteq [id : ids, key : PublicKeys, late : BOOLEAN]

\* Each challenge is answered at most once and in time, whatever answers,
\* cleanups and revocations come in whatever order: a node has at most one
\* certificate and no challenge left beside it, and its key is the one on it.
OneCertificateEach ==
  /\ \A c \in certificates :
       /\ ~c.late
       /\ c.id \notin DOMAIN pending_challenges
       /\ \A d \in certificates : d.id = c.id => d = c
  /\ \A i \in DOMAIN node_keys :
       \E c \in certificates : c.id = i /\ c.key = node_keys[i]

=============================================================================
