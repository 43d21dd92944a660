------------------------------ MODULE Listing ------------------------------
(***************************************************************************)
(* What a user is shown.  The repositories of clients, channels and groups *)
(* answer two kinds of queries from the role tables: a page of everything  *)
(* the user has access to (userClientBaseQuery, userChannelsBaseQuery,     *)
(* userGroupsBaseQuery) and one entity with the user's roles on it         *)
(* (RetrieveByIDWithRoles).  Whether the user may read an entity is not    *)
(* asked of these tables but of the policy store, with the permissions of  *)
(* docker/spicedb/schema.zed.  Three definitions of access for each kind,  *)
(* written three times.                                                    *)
(*                                                                         *)
(* One user, one domain, one client or channel.  An action is a pair of    *)
(* what it is prefixed with and what it allows: "client_read" on a group   *)
(* is <<"entity", "read">> when clients are listed.  Several roles of the  *)
(* user on an entity count as one with the actions of all; they have three *)
(* actions at most.  Roles and groups hold still while a query runs.       *)
(***************************************************************************)
EXTENDS Integers, FiniteSets

CONSTANTS LGroups,    \* groups, numbered so that a parent comes before its children
          Entity, Domain, None

VARIABLES kind,    \* "client", "channel" or "group"
          parent,  \* parent of each group, in tables and tuples
          path,    \* column path of each group: it and the groups above it
          at,      \* parent group of the entity; the group itself when groups are listed
          acts,    \* actions of the user's roles on each entity
          super,   \* the user is an administrator of the platform
          page,    \* answer of the listing
          view     \* answer of RetrieveByIDWithRoles

vars == <<kind, parent, path, at, acts, super, page, view>>

Kinds == {"client", "channel", "group"}

Grants == ({Entity} \X ({""} \X {"read", "other"})) \cup
          ({Domain} \X ({"entity"} \X {"read", "other"})) \cup
          (LGroups \X (({""} \X {"read"}) \cup
                       ({"entity", "subgroup_entity"} \X {"read", "other"}) \cup
                       ({"subgroup"} \X {"read"})))

\* A group and those above it.
AtOrAbove(g) == {h \in LGroups : \A S \in SUBSET LGroups :
                   (g \in S /\ \A x \in S : parent[x] # None => parent[x] \in S) => h \in S}

Init ==
  /\ kind \in Kinds
  /\ parent \in [LGroups -> LGroups \cup {None}]
  /\ \A g \in LGroups : parent[g] # None => parent[g] < g
  /\ path = [g \in LGroups |-> AtOrAbove(g)]
  /\ at \in IF kind = "group" THEN LGroups ELSE LGroups \cup {None}
  /\ \E G \in {{}} \cup {{x, y, z} : x, y, z \in Grants} :
       acts = [e \in LGroups \cup {Entity, Domain} |-> {x[2] : x \in {x \in G : x[1] = e}}]
  /\ super \in BOOLEAN
  /\ page = None /\ view = None

TypeOK ==
  /\ kind \in Kinds /\ parent \in [LGroups -> LGroups \cup {None}] /\ super \in BOOLEAN
  /\ \A r \in (IF page = None THEN {} ELSE page) \cup (IF view = None THEN {} ELSE view) :
       r.of \in LGroups \cup {Entity} /\ r.by \in LGroups \cup {Entity, Domain, None}

\* A row of an answer: of an entity, with the type and the provider of the access.
Row(e, access, by) == [of |-> e, access |-> access, by |-> by]

\* The user has an action on e with one of these prefixes (LIKE).
Like(e, P) == \E a \in acts[e] : a[1] \in P

-----------------------------------------------------------------------------
(* Pages of clients and of channels: the queries are the same but for the  *)
(* names of tables and columns.                                            *)

direct_entities == IF acts[Entity] # {} THEN {Row(Entity, "direct", None)} ELSE {}

direct_groups == {g \in LGroups : Like(g, {"entity"})}

direct_groups_with_subgroup == {g \in LGroups : Like(g, {"subgroup_entity"})}

\* Mutant: those with no other below them.
direct_leaf_groups_lowest(dgws) == {g \in dgws : ~\E h \in dgws : g \in path[h] /\ h # g}

\* Those with no other above them.
direct_leaf_groups(dgws) == {g \in dgws : ~\E h \in dgws : h \in path[g] /\ h # g}

\* Mutant: without the condition NOT EXISTS.
indirect_child_groups_all(dgws) == {<<g, l>> \in LGroups \X direct_leaf_groups(dgws) : l \in path[g]}

\* Groups below them, but for those the user has such a role on.
indirect_child_groups(dgws) ==
  {<<g, l>> \in (LGroups \ dgws) \X direct_leaf_groups(dgws) : l \in path[g]}

final_groups == {<<g, "direct_group", g>> : g \in direct_groups} \cup
                {<<c[1], "indirect_group", c[2]>> :
                   c \in indirect_child_groups(direct_groups_with_subgroup)}

groups_entities ==
  direct_entities \cup
  (IF direct_entities # {} THEN {}
   ELSE {Row(Entity, g[2], g[3]) : g \in {g \in final_groups : g[1] = at}})

final_entities ==
  groups_entities \cup
  (IF groups_entities = {} /\ Like(Domain, {"entity"}) THEN {Row(Entity, "domain", Domain)} ELSE {})

userClientBaseQuery == final_entities
userChannelsBaseQuery == final_entities

-----------------------------------------------------------------------------
(* Pages of groups. *)

\* Groups with a role of the user, whatever its actions.
GroupsWithRole == {g \in LGroups : acts[g] # {}}

GroupsWithSubgroupRole == {g \in LGroups : Like(g, {"subgroup", "subgroup_entity"})}

direct_indirect_groups ==
  {Row(g, "direct", None) : g \in GroupsWithRole} \cup
  {Row(c[1], "indirect", c[2]) : c \in indirect_child_groups(GroupsWithSubgroupRole)}

userGroupsBaseQuery ==
  direct_indirect_groups \cup
  (IF ~Like(Domain, {"entity"}) THEN {}
   ELSE {Row(g, "domain", Domain) : g \in LGroups \ {r.of : r \in direct_indirect_groups}})

-----------------------------------------------------------------------------
(* One client, channel or group with the user's roles on it. *)

selected_entity_roles == direct_entities

\* Mutant: the condition for the parent group is used for all groups above.
selected_group_roles_alike ==
  IF at = None THEN {}
  ELSE {Row(Entity, IF g = at THEN "direct_group" ELSE "indirect_group", g) :
          g \in {g \in path[at] : Like(g, {"entity"})}}

selected_group_roles ==
  IF at = None THEN {}
  ELSE {Row(Entity, IF g = at THEN "direct_group" ELSE "indirect_group", g) :
          g \in {g \in path[at] : Like(g, {IF g = at THEN "entity" ELSE "subgroup_entity"})}}

selected_domain_roles(e) == IF Like(Domain, {"entity"}) THEN {Row(e, "domain", Domain)} ELSE {}

RetrieveClientByIDWithRoles ==
  selected_entity_roles \cup selected_group_roles \cup selected_domain_roles(Entity)
RetrieveChannelByIDWithRoles ==
  selected_entity_roles \cup selected_group_roles \cup selected_domain_roles(Entity)

RetrieveGroupByIDWithRoles ==
  {Row(at, IF g = at THEN "direct" ELSE IF g = parent[at] THEN "direct_group" ELSE "indirect_group", g) :
     g \in {g \in path[at] : IF g = at THEN acts[g] # {} ELSE Like(g, {"subgroup", "subgroup_entity"})}}
  \cup selected_domain_roles(at)

-----------------------------------------------------------------------------
(* The read permissions of the schema. *)

\* A permission that a group passes on to the groups below it.
Inherited(prefix, g) == \E h \in AtOrAbove(g) : <<prefix, "read">> \in acts[h]

\* read of the entity, entity_read of its group and of the domain, whose permissions
\* have organization->admin: CreateDomain ties every domain to the platform.
ReadEntity ==
  \/ super
  \/ <<"", "read">> \in acts[Entity]
  \/ <<"entity", "read">> \in acts[Domain]
  \/ at # None /\ \/ <<"entity", "read">> \in acts[at]
                  \/ parent[at] # None /\ Inherited("subgroup_entity", parent[at])

ReadGroup(g) ==
  \/ super
  \/ <<"", "read">> \in acts[g]
  \/ <<"entity", "read">> \in acts[Domain]
  \/ parent[g] # None /\ Inherited("subgroup", parent[g])

-----------------------------------------------------------------------------
\* RetrieveAll: the entities of the domain, with no access in the rows.
RetrieveAll ==
  {Row(e, "", None) : e \in IF kind = "group" THEN LGroups ELSE {Entity}}

\* ListClients, ListChannels and ListGroups: RetrieveUserClients, RetrieveUserChannels
\* and RetrieveUserGroups, but for an administrator of the platform.
List ==
  /\ page = None
  /\ page' = IF super THEN RetrieveAll
             ELSE CASE kind = "client"  -> userClientBaseQuery
                    [] kind = "channel" -> userChannelsBaseQuery
                    [] kind = "group"   -> userGroupsBaseQuery
  /\ UNCHANGED <<kind, parent, path, at, acts, super, view>>

\* View, ViewChannel and ViewGroup with roles.
View ==
  /\ view = None
  /\ view' = CASE kind = "client" -> RetrieveClientByIDWithRoles
               [] kind = "channel" -> RetrieveChannelByIDWithRoles
               [] kind = "group" -> RetrieveGroupByIDWithRoles
  /\ UNCHANGED <<kind, parent, path, at, acts, super, page>>

Next == List \/ View

Spec == Init /\ [][Next]_vars

-----------------------------------------------------------------------------
(* Properties. *)

Viewed == IF kind = "group" THEN at ELSE Entity

\* Who gives access: an own role counts as given by the entity.
Providers(rows) ==
  {IF r.access = "direct" THEN Viewed ELSE r.by : r \in {r \in rows : r.of = Viewed}}

\* Whatever the page of a user shows, the view of that entity shows: each access
\* that the listing gives for an entity is among the roles RetrieveByIDWithRoles finds.
ListedIsViewable ==
  page # None /\ view # None /\ ~super => Providers(page) \subseteq Providers(view)

\* A user who may read an entity by the schema of the policy store is not told
\* that it does not exist: RetrieveByIDWithRoles finds a role for every way in
\* which a read permission comes about but one, and the administrators of the
\* platform who have no role there are the only users it turns away.
PermittedIsViewable ==
  view = {} /\ (IF kind = "group" THEN ReadGroup(at) ELSE ReadEntity) => super

\* A page misses nothing that can be viewed, but for one case: a client or channel
\* of a group on which the user has a subgroup role and no role for its clients or
\* channels, below another group with a subgroup role.  indirect_child_groups leaves
\* such a group out, and direct_groups does not have it.
OnlyNestedMissed ==
  page # None /\ view # None /\ view # {} /\ Providers(page) = {} =>
    /\ ~super /\ kind # "group" /\ at \in direct_groups_with_subgroup \ direct_groups
    /\ \E g \in path[at] \ {at} : g \in direct_groups_with_subgroup
=============================================================================
