# SuperMQ in TLA+

This directory holds a TLA+ model of the parts of SuperMQ where several
processes and several stores have to agree, TLC configurations that check it on
small instances, and TLAPS proofs of its most important properties for instances
of any size.

SuperMQ is a set of services (auth, users, domains, groups, channels, clients,
journal, notifications), protocol adapters (HTTP/WebSocket, MQTT, CoAP), an event
store through which services tell each other what happened, and a message broker.
Each service keeps its rows in its own PostgreSQL database; who may do what is
kept as relationship tuples in SpiceDB (the *policy store*); Redis holds caches.
No transaction spans two of these stores. Almost every operation that changes
state therefore writes two stores one after the other, between checks it made
earlier and compensations it makes by hand; replicas and caches follow later.
That is what can go wrong here, what unit tests with mocked stores hardly reach,
and what the modules are about.

## Modules

| Module | Models | Checked by | Proved in |
|---|---|---|---|
| `Roles` | role manager shared by all entity services | `MCRoles` | `RolesRequests`, `RolesAddition`, `RolesRemoval`, `RolesProofs` |
| `GroupHierarchy`, `GroupPaths` | the tree of groups | `MCGroupHierarchy` | `GroupHierarchyProofs` |
| `Connections` | clients connected to channels, in two services | `MCConnections` | `ConnectionsProofs` |
| `Parents` | channels and clients in groups, in three services | `MCConnections` | |
| `Access` | authentication and authorization of messages, with their caches | `MCInvitations`, `MCDelivery` | `AccessProofs` |
| `Listing` | what a user is shown of clients, channels and groups | `MCConnections` | |
| `Journal` | the journal and the telemetry of clients | `MCConnections` | |
| `Invitations` | members of a domain and invitations to it | `MCInvitations` | `InvitationsProofs` |
| `Users` | accounts, e-mail verification, the purge of deleted users | `MCAccounts` | |
| `Tokens` | refresh tokens | `MCAccounts` | |
| `PATs` | personal access tokens and their scopes | `MCAccounts` | |
| `OrderedLog` | abstract specification: events take effect in order | `MCDelivery` | |
| `Replication` | a replica that follows the events of a service; implements `OrderedLog` | `MCDelivery` | |
| `GroupTable`, `DomainTable`, `RoleTable` | the tables that are replicated, the events about them and their handlers | `MCDelivery` | |
| `EventStore`, `EventGroup` | publisher and consumer group of the Redis event store | `MCDelivery` | |
| `WebSockets` | a WebSocket session and its consumer at the broker | `MCDelivery` | |

`MCConnections`, `MCInvitations`, `MCAccounts` and `MCDelivery` hold several components that share
no state in the model. The variable `part`, chosen in the initial state, says
which of them a behaviour runs, so the state spaces add up instead of
multiplying.

## The parts of the system

For each part: its state, the operations that change it, whom it calls, what is
hard about it, and where this directory deals with it.

**Role manager** (`pkg/roles/provisionmanage.go`, `pkg/roles/repo/postgres`).
State: the tables of roles, role actions and role members of every entity
service, and the matching tuples of the policy store. Operations: create and
remove an entity with its roles, add, rename and remove roles, add and remove
actions and members, one by one or all. Hard: additions write tuples first and
rows second and compensate, removals delete tuples first and compensate nothing;
the unique keys of the tables decide races after the tuples have been written;
handlers stop between the two. `Roles`, with proofs.

**Policy service** (`pkg/policies/spicedb`). State: the tuples. Operations: add
(all or none, each must be new, with preconditions for groups), delete a list
(which must not be empty), delete by filter. It is the store of `Roles`,
`GroupHierarchy`, `Parents` and `Users`; the permissions its schema derives are in
`Listing`.

**Groups service** (`groups`). State: `parent_id`, the LTREE column `path`,
status, and the `parent_group` tuples. Operations: create, delete, give and take
parents and children, enable and disable. It calls the policy service, and the
channels and clients services when a group is deleted. Hard: the same tree is
kept three times; the parent is read outside the transaction that uses it; moves
of subtrees rewrite paths. `GroupHierarchy` (the tree), `Parents` (deletion of a
group that has channels and clients), `Listing` (its pages).

**Channels and clients services** (`channels`, `clients`). State: rows with
status, a table of connections in each of the two, parent groups, a route cache
and a key cache. Hard: connections are written in the other service first,
without compensation; removals decide by a question asked earlier; the parent
group lives in a third service. `Connections`, `Parents`, `Access`, `Listing`, and
`Roles` for creation and removal.

**Domains service** (`domains`). State: domains, invitations, roles and members,
a status cache. Hard: an invitation is read, then a member is added, then the
invitation is written, without a lock; a status is cached. `Invitations`,
`Access` (status and cache), `DomainTable` (rows and events).

**Adapters and their checks** (`http`, `mqtt`, `coap`, `clients/private`,
`channels/private`, `domains/private`, the Redis caches). A message is
authenticated by the clients service and authorized by the channels service,
which asks the domains service. Hard: a cache is filled after a miss by one
request and cleared by another. `Access`. A WebSocket session adds four
goroutines and a durable consumer at the broker: `WebSockets`.

**Auth service** (`auth`). State: active refresh tokens in Redis, personal access
tokens (PAT) and scopes in PostgreSQL, cached scopes in Redis. Hard: check and
issue in two calls; the cache is asked before the table. `Tokens`, `PATs`.

**Users service and deletion of users** (`users`). State: rows with role and
status, verifications, and the tuples on the platform. A periodic handler removes
users deleted long enough ago. Hard: policies before rows; a verification that
overlaps a change of the address; the loop of the handler. `Users`.

**Event store and replicas** (`pkg/events`, `pkg/messaging/nats`,
`pkg/*/events/consumer`). State: a JetStream stream or a Redis stream, the backlog
of unpublished events, replicas of groups and domains in other services. Hard: the
event is published after the commit and not with it; delivery at least once to
handlers that write twice; one event that is refused holds up the rest. `Replication`
with its tables for the NATS event store, which the Makefile builds by default;
`EventStore` and `EventGroup` for the Redis one.

**Journal** (`journal`). State: the rows of the journal, counters and
subscriptions of clients. Hard: three writes for one event that is delivered at
least once. `Journal`.

**Notifications, consumers, readers, transformers, callout, authn/authz clients,
middleware, API, SDK, CLI, start-up**: conversions, stateless calls, decoding,
logging and wiring. Refusals of the API that guard an operation are guards of the
modelled action (`h \notin C` in `AddChildrenGroups`). Not modelled otherwise.

## How the modules are built

The modules share one form.

- *A handler in flight is a record* (`req[p]`, `preq[p]`, `msg[r]`, ...), with the
  operation, the program counter and what the handler has read so far. An
  operation's action makes the checks that precede its first write and puts the
  record in place (`Begin`). Each later call to a store is an action of its own,
  so handlers interleave between any two calls.
- *Calls fail and handlers stop.* `CallFails` (`Fail`) makes the call about to be
  made return an error without effect and takes the code's error path; `Crash`
  (`Stop`, `Interrupt`) ends the handler. A call that took effect and whose answer
  was lost is that call followed by the end of the handler. `ReliableSpec` is the
  same system without these; most runs that show a disagreement with a document
  use it, so that no failure is to blame.
- *History variables name what is excepted.* The code cannot keep two stores in
  agreement when an adding and a removing handler overlap on the same object or
  when a second write is lost. Properties are not weakened to "eventually" or
  "if nothing overlaps at all": `split` (`loose`, `crowded` in `Invitations`,
  `clean` in `GroupHierarchy`, `astray` in `Parents`, `staleKeys` and
  `staleStatus` in `Access`, `mixed` in `PATs`, `raced`, `stripped` and `stray` in `Users`,
  `disturbed` in `Replication`, `dropped` in `EventStore`, `late` and `stuck` in
  `WebSockets`, `unsaved` and `torn` in `Journal`) holds exactly what such an event
  touched, and the properties claim everything about the rest. No action reads a
  history variable to decide what the program does.

### `Roles`

| Variable | Code |
|---|---|
| `status` | row of the entity (group, channel, client) |
| `roles`, `role_actions`, `role_members` | tables `<prefix>_roles`, `_role_actions`, `_role_members` with their keys |
| `actionPolicies`, `memberPolicies`, `domainPolicies` | tuples role → entity, user → role, domain → entity |
| `issued` | role IDs drawn from the ID provider, which never repeats one |

The eleven operations are actions of the same name as the methods of
`ProvisionManageService` (`CreateEntity` and `RemoveEntity` are what
`CreateGroup`/`CreateChannels`/`CreateClients` and `DeleteGroup`/`RemoveChannel`/`Delete`
share: row, `AddNewEntitiesRoles`, `RemoveEntitiesRoles`, filter, row). Their
steps are the calls: `AddPolicies` (all or none), `InsertRows` under the unique
and foreign keys (`Insertable`), the deferred `Rollback`, and so on. An entity ID
is created at most once. `RemoveMemberFromAllRoles` answers "not implemented" and
`RemoveEntityMembers` does nothing in the code, so neither has an action.

### `GroupHierarchy`

| Variable | Code |
|---|---|
| `parent`, `path`, `enabled` | columns `parent_id`, `path` (the labels as a sequence of groups, `<<>>` for no row), `status` |
| `links`, `members` | tuples `parent_group` and `domain` |
| `drawn` | group IDs handed out |

`AssignParentGroup` and `UnassignParentGroup` rewrite the paths of all groups
below, as their SQL does: `Under` is `path <@ ANY(...)`, `Strip` (in `GroupPaths`) is
`replace(path, pre || '.', '')`, `ReadParent` is the `SELECT` whose result the
later `UPDATE`s use and includes the cyclic check. `Retrieved` is what
`RetrieveByIDs` answers for a zero `PageMeta`. Deleting a row sets the children's
`parent_id` to NULL (`DropRow`). The two `UPDATE`s of one transaction are one
step, because the first locks the rows. Removing roles when a group is deleted is
the subject of `Roles`; here it is the calls that delete tuples between groups.

### `Connections`

`channelConns` and `clientConns` are the tables `connections` of the channels and
of the clients service; `channels` and `clients` the status of the rows. `Connect`
and `Disconnect` check channels, clients and (for `Connect`) the connections,
then write the clients table by gRPC, then their own. `RemoveChannel` and
`DeleteClient` ask their own table whether there are connections
(`DoesHaveConnections`), clear the other table if so, mark the row and delete
it, and the foreign key removes their own connections. Entities exist at the start:
creation does not touch connections.

### `Parents`

`parentOf` is the column `parent_group_id` of channels and clients, which has no
foreign key because the groups are another service's; `tuples` are the
`parent_group` tuples by which access is inherited. `SetParentGroup`,
`RemoveParentGroup` and the removals of both services are composed with
`DeleteGroup`, which calls `UnsetParentGroupFromChannels` and `...FromClient` of
the other two services before it removes its own row. The compensations (add the
tuple, write the row, delete the tuple again if that failed) are steps that can
fail as well. A link on which two requests met, or that a failure left half done, is
`astray`, until a request that meets no other on it (`alone`) has written both its
row and its tuple.

### `Access`

One client, one channel, one domain. A message is a record that goes through
`Authenticate` (key cache, then `RetrieveBySecret`, then the two entries of the
cache), `Authorize` (status cache, then the row, then the cache) and the question
whether client and channel are connected. MQTT authenticates when a session opens
and authorizes each message. The operations that take access away
(`UpdateSecret`, `Disable`, `Delete`, `Disconnect`, changes of the domain's status)
write rows first and clear caches after. Expiry of a key is an action.

### `Listing`

No concurrency: the initial state is any tree of groups, any place of an entity
in it and any roles of one user with up to three actions, who may be an administrator
of the platform (`super`). `page` is what the three
base queries (one for each kind, with their common table expressions as
operators of the same name) return, or `RetrieveAll` for such an administrator, `view` what `RetrieveByIDWithRoles`
returns, `ReadGroup` and `ReadEntity` the read permissions of
`docker/spicedb/schema.zed`. They are three independent definitions of who has
access, and the properties compare them.

### `Journal`

`due` is what JetStream has delivered and not seen acknowledged; `cur` the event
in the handler. The row of the journal is written first (`Save`, with the unique
key on which a second delivery stops), then subscriptions, then counters, each in a
statement of its own. One channel and one subtopic; no two events have the
same time and attributes, which is what the unique key compares.

### `Invitations`

One domain. `roles` and `members` are the tables of its role manager, written in
one step here because what happens inside is the subject of `Roles`;
`invitations` is the row of each invitee with its two flags (the timestamps
`confirmed_at` and `rejected_at`, set or not).

### `Users`, `Tokens`, `PATs`

`Users` has the rows with e-mail, role, status and `verified_at`, the tuples on the
platform, the table of verifications and the mails sent; registration, OAuth
sign-in, `UpdateEmail`, `VerifyEmail`, role and status changes interleave call by
call. Any of these calls may fail, a compensation included, and the process may stop
with all that is in flight. The delete handler has its page, its current user and the
calls it makes for them; `aged` says for whom `deleteAfter` has passed, and `older` in
which order users were marked deleted, for a page has the last updated first.

`Tokens` has the two keys of Redis for each refresh token (`active`, `userTokens`)
and the steps between finding an ID active and signing another token.
`PATs` has the tables of tokens and scopes and the cache of scopes, which is
asked before the table and which only the removal of listed scopes clears. `AddScope`
takes a list: each scope is compared with the table on its own (`ProcessScope`), what
is left is inserted by one statement, and the whole list is cached.

### `Replication`, `OrderedLog` and the tables

`Replication` takes the tables and what is done with them as operator constants;
`GroupTable` and `DomainTable` (with `RoleTable`, which both share) define them: the
events of the owner (`Events`), the statement that precedes each (`Commit`) and the
handler of the replica (`Handle`, `SecondWrite`). An error is the empty set of results.
The owner commits (`Operate`) and publishes later (`Publish`), and two requests may
do this in different orders. The consumer has `MaxAckPending = 1`: it gets the first
event not settled until that is acknowledged or a day old.

`OrderedLog` is the abstract specification: only the first unsettled event ever
changes the state, and it is settled by taking full effect or by age. The refinement
mapping takes `replica` for its `state` and every other variable as it is.

### `EventStore`, `EventGroup`, `WebSockets`

`EventStore` is the Redis publisher: a ping decides between `XADD` and a bounded
channel, a mutex guards the channel, a ticker flushes it. A connection may be lost before,
during (the entry is on the stream and the reply is lost) and after a call.
`EventGroup` is the consumer group with batches, handlers that fail and end the
batch, and services that stop: what has been read and not handled is never read
again, because the loop asks for new entries only.

`WebSockets` has the request's goroutine (`Subscribe`), the reader, the writer
under `Start`, and the broker's callback that refuses a message when the channel
is full. The close handler is run by two of them.

## Runs

| Run | Instance | Distinct states | Checks |
|---|---|---|---|
| `roles` | 1 entity, 2 roles, 1 action, 1 user, 2 handlers | 913,293 | `TypeOK`, `StoresAgree`, `DecisionsMatchRows` |
| `group_hierarchy` | 3 groups, 2 handlers | 789,590 | `TypeOK`, `TuplesMatchParents`, `OneParent`, `PathsFollowParents` |
| `connections` | connections: 2 channels, 1 client, 1 type, 2 handlers; parents: 1 channel, 1 client, 2 groups, 2 handlers; listing: 3 groups, up to 3 actions; journal: 2 clients, 4 events, 1 fault | 3,881,163 | `PartsTypeOK`, `TablesAgree`, `ParentsMatch`, `ParentExists`, `ListedIsViewable`, `PermittedIsViewable`, `OnlyNestedMissed`, `TelemetryFollows` |
| `invitations` | invitations: 2 users, 2 roles, 2 names, 2 handlers; access: 2 secrets, 1 message and 1 operation at a time, 2 operations or failures | 1,877,179 | `PartsTypeOK`, `AcceptedIsMember`, `AnsweredOnce`, `StaleExplained`, `LastMemberStays` |
| `accounts` | users: 3 IDs, 2 e-mails, 3 calls (or 2 users deleted and enabled without end), 2 at once, 1 fault, pages of 1; tokens: 2 owners, 2 IDs, 2 requests; PATs: 1 token, 2 entities, 2 scopes, lists of 2, 2 requests | 209,882 | `PartsTypeOK`, `VerifiedEmail`, `PoliciesFollowRows`, `RevokedStaysRevoked`, `ListingIsExact`, `WildcardAlone`, `PlainUsersPurged`, `RemovedScopeEnds` |
| `delivery` | replicas: 3 groups or 2 domains, 2 roles, 2 operations, 1 fault; access: as above, 1 operation or failure; publisher: 2 callers, 3 events, channel of 2, 2 outages; group: 2 consumers, 3 entries, batches of 2; WebSocket: 3 messages, channel of 1, 1 failed call | 161,500 | `TypeOK`, `ReplicaFollows`, `RefusalsExplained`, `AcceptedKept`, `HandledOnce`, `InOrder`, `CaughtUp`, `ShutOut`, `Drained`, `Delivered`, `ConsumerRemoved` |

What they show, in words:

- `StoresAgree`: when no handler is at work on a role, its action tuples are its
  action rows and, while the role exists, its member tuples are its member rows,
  unless an addition met a removal on it or a second write was lost.
- `DecisionsMatchRows`: what users may do to an entity according to the policy
  store is what its tables say. It is not a consequence of the first alone:
  `RemoveRole` leaves the tuples user → role of the removed role behind for ever,
  and they must never grant anything again.
- `TuplesMatchParents`: a `parent_group` tuple is there if and only if the row names that
  parent. `OneParent`: two additions that both found a child without a parent
  never leave it with two tuples. `PathsFollowParents`: as long as tree changes come one
  after the other and no group loses its children in bulk, each path is the
  parent's path and the group.
- `TablesAgree`: the two connection tables agree on every connection no handler
  works on, outside the named overlaps; and a `Disconnect` that runs undisturbed
  repairs what was left behind.
- `StaleExplained`: once a client or a domain has changed, the caches hold an
  outdated answer in the named cases only. The longest lived of them are an old secret
  after `UpdateSecret`, which clears nothing, and a second token of a client,
  because the entry of the client's ID leads to the last one only.
- `ParentsMatch`, `ParentExists`: row and tuple of a parent group agree, and no
  entity stays in a group that is gone, whatever single call fails; a link that an
  overlap or a failure has put astray is right again after the next request that
  meets no other there.
- `ListedIsViewable`, `PermittedIsViewable`, `OnlyNestedMissed`: what is listed can
  be viewed with the same access; what the policy store permits is found, except by an
  administrator of the platform who has no role there, whom `RetrieveByIDWithRoles`
  turns away; what can be viewed is listed, but for entities of a group with a
  subgroup role below another such group.
- `TelemetryFollows`: the journal counts each event once however often it is
  delivered, unless it is interrupted between its statements.
- `AcceptedIsMember`, `AnsweredOnce`, `LastMemberStays`: an accepted invitation
  belongs to a member; it is not rejected as well; a removal of members that met
  no other removal on that role never takes the last administrator.
- `VerifiedEmail`: `verified_at` speaks of the address in the row, although the
  address may change between any two steps of a verification.
  `PoliciesFollowRows`: a user has the member tuple before the row, and no tuple
  outlives the row, whichever call fails, unless the purge met a reactivation, the
  process stopped between tuple and row, or the compensation failed.
- `RevokedStaysRevoked`, `ListingIsExact`: a refresh that found its token active
  does not bring it back after a revocation; the list of active tokens is exact.
  `WildcardAlone`: a scope on every entity stands alone, unless the two came in one
  list or in two calls that overlap.
- `ReplicaFollows`: a replica whose owner is quiet and whose stream is settled
  equals its owner, but for the named disturbances. `RefusalsExplained`: a
  handler refuses only what it has handled before and what changed nothing.
  `InOrder`: `Replication` implements `OrderedLog`.
- `AcceptedKept`: an event for which `Publish` returned no error was added to the
  stream, is in the channel, or was dropped at the limit. `HandledOnce`: at most one
  consumer handles an entry, once and in order.

**Bounds.** Two handlers are enough for every interference named in the hazards:
each is between two handlers, and a third one adds no new pair. One entity,
because nothing in the role manager relates two entities; two roles, because the unique keys relate two roles of one
entity. One action and one user make lists of length 0 and 1; lists are treated
as sets in the code's SQL and in the policy store. Two channels let a list hold
one connection that is in the table and one that is not. Three groups are the smallest tree in which
a subtree is moved, and the smallest in `Listing` with a group between two others. Two
groups and two entities in `Parents` let a handler set another parent while
`DeleteGroup` works through its list. Four journal events are a subscription,
a message, an unsubscription and a message. Pages of one user make the delete
handler need several; where calls have no bound (`Endless`) there are two users, who are only
marked deleted and enabled again, which is what decides who is on the page. Two
scope IDs let a list hold the wildcard and another scope; the refusal of `processScope` for more than one row
would need three. Two outages let a flush fail half way and a later one fail as
well; a channel of two and three events fill it. One more message than the WebSocket's
channel holds, and one being written, make the broker's callback refuse one.

Every counter that caps a search is a constant: `MaxOps`, `MaxFaults`,
`MaxEvents`, `MaxCalls`, `MaxIssued`, `MaxOutages`, `MaxEntries`, `MaxPublished`,
`MaxSlips`, `MaxJournal`, `MaxJFaults`. `MaxUnpublishedEvents`, `MaxBuffered`,
`eventCount`, `defLimit` and `MaxPathLength` are limits of the code, made small.

Some runs prune the search, and what is pruned is not checked by TLC:

- `SomeRoleWhole` (`roles`): once both roles are excepted nothing is claimed.
  `FewExcepted` (`invitations`): at most one user or role is excepted at a time.
- `Whole` (`group_hierarchy`): the search does not go on after a link was split.
  `OneParent` is claimed there too; it is `GroupHierarchyProofs` that covers it.
- `ShortPaths`: paths may grow without limit once they are stale; up to length 3
  while they are not (three groups have no longer ones), 2 afterwards.
- `FewDisabled`: two handlers at a time when all groups are enabled, one when
  some group is disabled.
- `NoneDisabled` (`group_cycle`): no group is disabled, so that the counterexample is
  one of `path` alone.
- `Claimed` (`connections`): at most two links of `Parents` are excepted at a time,
  and the search of `Journal` does not go on after an interrupted event. What
  `TelemetryFollows` claims of the journal's rows after that is not checked.

**Symmetry** is used on sets of model values that no constant or definition singles
out, and for safety properties only; the two runs with liveness use none.
**Deadlock** is not checked where all IDs can be used up or all entities removed,
where a listing has been answered and the journal's stream is read to its end, and where a
session or a flusher has ended (`delivery`); after each of these nothing is left
to do. The `invitations` and `accounts` runs check it.

### Liveness and fairness

Fairness is weak, and stated in the specification of the run for single loops
and calls, never for a request that someone may or may not make, nor for a failure.

| Property | What happens in the end | Fairness and why |
|---|---|---|
| `CaughtUp` | every published event is settled, one that is refused for ever included | the consumer's loop runs; an event that is refused expires (`MaxAge` of 24 h, `pkg/events/nats/subscriber.go:31`) |
| `ShutOut` | a client without access for good gets no message accepted | calls return; keys of the caches have a time to live (`CacheKeyDuration`, 10 min) |
| `RemovedScopeEnds` | a scope without a row stops being honoured | the same, for the cache of scopes |
| `PlainUsersPurged` | a plain user marked deleted is removed, or reactivated | the ticker of the delete handler fires, time passes (`DeleteInterval`, `DeleteAfter`); calls fail a bounded number of times; there is an end to other users being marked deleted, which is a condition of the property and not fairness |
| `Drained` | the publisher's channel empties and callers return, again and again | outages end; the ticker (`UnpublishedEventsCheckInterval`) fires; calls return |
| `Delivered` | a message published to a subscribed session is written, or the session ends | the goroutines of the session run; JetStream redelivers what was not acknowledged |
| `ConsumerRemoved` | when a session has ended its consumer goes, but for two named cases | the pumps notice a dead socket (`pingPeriod`, `writeWait`) |

Without its condition `PlainUsersPurged` is false: the page has `defLimit` users, the
last updated first, and the loop pages from the beginning, so that users who are
marked deleted in time keep one marked before them off the page. TLC shows it with pages of one
and two users.

`Delivered` takes it that a message is redelivered within the `MaxAge` of the
stream. The two cases of `ConsumerRemoved`, an `Unsubscribe` that fails and one that
runs before `Subscribe` has created the consumer, leave a durable consumer behind
at the broker.

### Disagreements between the code and what it says

The first five of these runs use `ReliableSpec` (no failures). `accounts_purge`
is a liveness property and uses the fair specification of `accounts`. Each ends
with a counterexample that the code follows step by step.

| Run | Property | Instance | What happens |
|---|---|---|---|
| `roles_removal` | `RemovalNotRefused` | 1 handler | An entity whose roles have been emptied cannot be removed: `DeletePolicies` refuses an empty list (`pkg/policies/spicedb/service.go:191`) after the row was marked deleted, and every retry ends there too. |
| `group_cycle` | `Acyclic` | 1 handler, 3 groups | `UnassignAllChildrenGroups` leaves paths as they are (`groups/postgres/groups.go:791`): `g2`, once a child of `g1`, keeps `g1.g2`. When both become children of `g3` and `g1` leaves it again, `RemoveParentGroup` strips `g3` from the path of `g2` as well, the cyclic check, which reads paths, does not see that `g3` is the parent of `g2`, and the two become each other's parent. |
| `group_reparent` | `ParentKept` | 1 handler, 3 groups | `AddChildrenGroups` checks the enabled groups of its list only (`groups/service.go:288`) and moves all of them, those with a parent too. |
| `connections_deleted` | `DeletedClientsDisconnected` | 2 handlers | A `Connect` that checked a client before it was deleted leaves the deleted client connected in the channels table (`clients/service.go:338`). |
| `invitations_retain` | `RetainOneMember` | 2 handlers | Two removals that count the members at the same time empty the built-in role (`domains/service.go:401`). |
| `accounts_purge` | `DeletedUsersPurged` | as `accounts` | An administrator marked deleted is never purged: the page of the delete handler has the zero role, which the query takes for plain users (`users/delete_handler.go:59`). |

Two things that the models follow and no document speaks of:
`addSubscription` (`journal/service.go:156`) takes the second and third part of
the topic `m.<domain>.c.<channel>` for channel and subtopic, so the
subscriptions of HTTP, WebSocket and CoAP clients are stored under the domain's ID and
are never counted as outbound messages; and a page of clients or channels
misses the case that `OnlyNestedMissed` names.

## Proofs

`Roles` assumes of its constants only `RolesAssumption`: every role ID has its
entity, the built-in name is a name, and `None` is neither a name nor a role ID.
The sets may be of any size, infinite ones included, and any number of handlers
may be in flight.

`RolesProofs` proves

- `Inductive`: `Spec => []IInv`;
- `TypeCorrect`: `Spec => []TypeOK`;
- `Agreement`: `Spec => []StoresAgree`;
- `Decisions`: `Spec => []DecisionsMatchRows`.

`StoresAgree` speaks of quiet roles only and is not inductive. `IInv` says what
holds while handlers are at work: `ActionsMatch` and `MembersMatch` say that the
tuples of a role outside `split` are its rows, less the rows whose tuples a
removal in flight has deleted already (`DoomsAction`, `DoomsMember`), plus the
tuples an addition in flight has written and not yet matched by rows
(`PendingActs`, `PendingMems`). Keeping these needs: opposed handlers on one role
have put it into `split` (`Apart`); a tuple is pending for one addition only and
its row is not there yet (`PendingApart`), which is what all-or-nothing
`AddPolicies` ensures and what makes `Rollback` safe; a removal of an entity has
read every row there is (`ReadsCover`); rows belong to role rows (`ForeignKeys`),
role IDs are fresh (`Fresh`), and the role an addition found is still there
(`RowThere`). `MembersMatch` is limited to roles that exist or are being created
(`HasMembers`), for `RemoveRole` leaves member tuples behind; `Decisions` holds
all the same because such a role has no action tuple.

`RolesRequests` proves that starting a handler (`BeginInv`) and steps that only
move or end one keep `IInv`; `RolesAddition` and `RolesRemoval` have one lemma for
each action; `RolesProofs` has those for the compensations, puts them together
(`NextInv`) and concludes.

`GroupHierarchyProofs` proves `SingleParent`: `Spec => []OneParent`, for any
groups, handlers and path lengths, whatever overlaps or fails. The inductive invariant adds that the list of tuples of a
handler never names two parents for one child (`ListsApart`); `Addable`, the
precondition of the policy store, does the rest. Types of paths are not proved:
`Strip` is recursive, and what a recursive function computes needs an induction
the provers cannot instantiate. The proof uses only that handlers stay records
with these fields.

`ConnectionsProofs` proves, without any assumption on the constants,
`Inductive` (`Spec => []IInv`), `TypeCorrect` (`TypeOK` of `Connections`, which
includes the foreign keys and which the run checks as part of `PartsTypeOK`) and
`Agreement` (`Spec => []TablesAgree`). The inductive invariant is
`Explained`: a connection outside `split` that only one table has is the business
of a request between its two writes. It needs what such a request knows of the
tables (`Knows`), that requests that work on one connection have met there and
are excepted if only one of them connects (`Apart`, which is also why the repair
by an undisturbed `Disconnect` is sound), and that a removal works on
all connections of its entity (`Shape`). `FewerConnsInv` carries the argument for
every step that only deletes rows or ends a request.

`InvitationsProofs` proves `TypeCorrect`, `AcceptedHaveJoined`
(`Spec => []AcceptedIsMember`), `OneAnswer` (`Spec => []AnsweredOnce`) and the action property
`LastMemberRetained` (`Spec => LastMemberStays`), from `InvitationsAssumption`: the
users are finitely many, for members are counted, the creator is one of them, and `None`
is no name, role or row. The inductive
invariant adds what a handler has read and relies on later. A user about to be
confirmed has joined (`ConfirmedJoined`); one about to be removed has no accepted invitation
(`RemovedPurged`); the answer a handler found is still the answer (`AnswersStand`); the
count of a removal is still above the number it takes (`OneRetained`). Each of these another
handler can undo, and they hold because such a meeting is marked when the second
handler starts (`OverlapsMarked`, `RemovalsMarked`).

`AccessProofs` proves `NoUnexplainedStaleness` (`[]StaleExplained`) and
`AccessTypeCorrect` for the specification of the `invitations` run, from
`AccessAssumption`: there is a secret, and `None` is no token. The inductive invariant
says what is in flight: the answer a message is about to save is true or marked as
stale (`MsgSound`), and an operation is at one of its steps with what that step
needs (`AdmSound`).

**Only model-checked**: `TuplesMatchParents`, `PathsFollowParents` and the types
of `GroupHierarchy`; everything about `Parents`, `Listing`, `Journal`, `Users`, `Tokens`, `PATs`, `EventStore`, `EventGroup` and
`WebSockets`; the refinement `InOrder`. Liveness under fairness is beyond the
prover and stays with TLC, and so do results of recursive functions.

## What is not modelled, and why

The larger part of the repository's lines has no state two parties could disagree
about: generated mocks, protocol buffers, HTTP and gRPC decoding, the SDK, the
CLI, logging, metrics and tracing around each service. They are left out. Of the
rest:

- Updates of names, tags, metadata, profiles: one `UPDATE` with no rule to
  break (names are modelled where they are replicated). Password resets and API
  keys likewise.
- Filters, order and offsets of pages. Which rows a page is about is `Listing`;
  pages of domains and of users are not.
- Signing and hashing of tokens: cryptography, external.
- Authorization middleware and callout: they allow or refuse before an operation
  starts, and every modelled operation may be refused by not starting.
- RabbitMQ as event store or broker: not the default build, and a thin layer whose
  model would be that of the broker's queues.
- The MQTT forwarder: it starts a goroutine for each message and keeps no state;
  messages may overtake each other, and nothing says they may not.
- CoAP observers: a subscription without a channel of its own. Notifications:
  one e-mail for each event, no state.
- The cache of channel routes: of the same form as that of the domain status; an
  entry only names a channel, which is then authorized by its ID.
- Replicas of channels and of clients: their consumers have the form of the two
  modelled ones, and no service of the repository starts them.
- PostgreSQL, SpiceDB, Redis and JetStream themselves: a statement, a transaction
  or a call is atomic; isolation below that is the stores' own. A transaction's
  reads that lock nothing are steps of their own.

## Running the checks

    tlc -workers 2 -config MCRoles.cfg MCRoles
    tlapm RolesProofs.tla

`PROJECT.json` lists every run, the source lines each definition stands for, the
hazards and which property covers each, and the mutants: for every property of a
passing run a plausible bug in the code that the property catches. A mutant is the
definition commented "Mutant:" just above the one it replaces.
