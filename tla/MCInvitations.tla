--------------------------- MODULE MCInvitations ---------------------------
(***************************************************************************)
(* A domain: who joins and leaves it, and which messages of its clients    *)
(* get through.  The two parts share no state, so that a behaviour runs    *)
(* one of them: the variable part says which, and the state spaces add up. *)
(*                                                                         *)
(* Invitations: two users, two roles, two handlers in flight.              *)
(***************************************************************************)
EXTENDS Invitations, TLC

CONSTANTS Parts,
          Secrets, Senders, Admins, MaxEvents  \* Access

VARIABLES part,
          client, connected, domain, keys, lastKey, cached, session, msg, adm, events,
          staleKeys, staleStatus

A == INSTANCE Access

\* A client has a secret, and a token is not the mark of a missing one.
ASSUME AccessAssumption == Secrets # {} /\ None \notin A!Tokens /\ MaxEvents \in Nat

iVars == <<roles, members, invitations, req, drawn, loose, crowded>>
aVars == <<client, connected, domain, keys, lastKey, cached, session, msg, adm, events,
           staleKeys, staleStatus>>
allVars == <<part, iVars, aVars>>

PartsInit == part \in Parts /\ Init /\ A!Init

PartsNext == \/ part = "invitations" /\ Next   /\ UNCHANGED <<part, aVars>>
             \/ part = "access"      /\ A!Next /\ UNCHANGED <<part, iVars>>

ReliablePartNext == part = "invitations" /\ ReliableNext /\ UNCHANGED <<part, aVars>>

PartsSpec == PartsInit /\ [][PartsNext]_allVars
ReliablePartSpec == PartsInit /\ [][ReliablePartNext]_allVars

\* What is excepted from the properties grows no further.
FewExcepted == Cardinality(loose) + Cardinality(crowded) <= 1

Symmetry == Permutations(RoleIDs) \cup Permutations(Requests)

PartsTypeOK == /\ part = "invitations" => TypeOK
               /\ part = "access" => A!TypeOK
StaleExplained == part = "access" => A!StaleExplained
=============================================================================
