--------------------------- MODULE MCConnections ---------------------------
(***************************************************************************)
(* What ties channels, clients and groups together: the connections, the   *)
(* parent groups, what users are shown of it, and what the journal counts. *)
(* The parts share no state, so that a behaviour runs one of them: the     *)
(* variable part says which, and the state spaces add up.                  *)
(*                                                                         *)
(* Connections: two channels, one client, one type, two handlers.          *)
(***************************************************************************)
EXTENDS Connections, Naturals, TLC

CONSTANTS Parts, None,
          PChannels, PClients, Groups, ParentReqs,      \* Parents
          LGroups, Entity, Domain,                      \* Listing
          JClients, Subscribers, MaxJournal, MaxJFaults \* Journal

VARIABLES part,
          parentOf, tuples, groups, preq, astray,
          kind, parent, path, at, acts, super, page, view,
          sent, seen, due, cur, journal, telemetry, subs, unsaved, torn, jfaults

P == INSTANCE Parents WITH Channels <- PChannels, Clients <- PClients
L == INSTANCE Listing
J == INSTANCE Journal

pVars == <<parentOf, tuples, groups, preq, astray>>
lVars == <<kind, parent, path, at, acts, super, page, view>>
jVars == <<sent, seen, due, cur, journal, telemetry, subs, unsaved, torn, jfaults>>
cVars == <<channels, clients, channelConns, clientConns, req, split>>

NoListing == /\ kind = None /\ parent = None /\ path = None /\ at = None
             /\ acts = None /\ super = None /\ page = None /\ view = None

NoJournal == /\ sent = None /\ seen = None /\ due = None /\ cur = None /\ journal = None
             /\ telemetry = None /\ subs = None /\ unsaved = None /\ torn = None /\ jfaults = None

PartsInit == /\ part \in Parts
             /\ Init /\ P!Init
             /\ \/ part = "listing" /\ L!Init /\ NoJournal
                \/ part = "journal" /\ J!Init /\ NoListing
                \/ part \notin {"listing", "journal"} /\ NoListing /\ NoJournal

PartsNext ==
  \/ part = "connections" /\ Next   /\ UNCHANGED <<part, pVars, lVars, jVars>>
  \/ part = "parents"     /\ P!Next /\ UNCHANGED <<part, cVars, lVars, jVars>>
  \/ part = "listing"     /\ L!Next /\ UNCHANGED <<part, cVars, pVars, jVars>>
  \/ part = "journal"     /\ J!Next /\ UNCHANGED <<part, cVars, pVars, lVars>>

ReliablePartNext ==
  part = "connections" /\ ReliableNext /\ UNCHANGED <<part, pVars, lVars, jVars>>

allVars == <<part, cVars, pVars, lVars, jVars>>

PartsSpec == PartsInit /\ [][PartsNext]_allVars
ReliablePartSpec == PartsInit /\ [][ReliablePartNext]_allVars

\* A link on which row and tuple may differ is not claimed any more; with two such
\* links, what happens to the others, and how one is mended, is seen.  Nor are the counters of the journal
\* after an event that was not completed.
Claimed == Cardinality(astray) <= 2 /\ torn # TRUE

Symmetry == Permutations(Channels) \cup Permutations(Types) \cup Permutations(Requests)

PartsTypeOK == /\ part = "connections" => TypeOK
               /\ part = "parents" => P!TypeOK
               /\ part = "listing" => L!TypeOK
               /\ part = "journal" => J!TypeOK
ParentsMatch == part = "parents" => P!ParentsMatch
ParentExists == part = "parents" => P!ParentExists
ListedIsViewable == part = "listing" => L!ListedIsViewable
PermittedIsViewable == part = "listing" => L!PermittedIsViewable
OnlyNestedMissed == part = "listing" => L!OnlyNestedMissed
TelemetryFollows == part = "journal" => J!TelemetryFollows
=============================================================================
