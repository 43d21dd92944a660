------------------------------ MODULE Access ------------------------------
(***************************************************************************)
(* May a client publish a message?  The adapters ask the clients service   *)
(* who it is (clients/private Authenticate) and the channels service       *)
(* whether it may (channels/private Authorize), which asks the domains     *)
(* service for the status of the domain.  The first and the last answer    *)
(* from a Redis cache that the operations on clients and domains clear     *)
(* after their commit.                                                     *)
(*                                                                         *)
(* HTTP and CoAP authenticate every message; MQTT authenticates the        *)
(* session and then only authorizes.  One client, one channel, one domain: *)
(* the caches have a key for each.  How a connection is made and unmade is *)
(* the subject of Connections.                                             *)
(***************************************************************************)
EXTENDS Naturals, FiniteSets

CONSTANTS Secrets, Senders, Admins, None,
          MaxEvents  \* bound on operations and failures

VARIABLES client,     \* row of the client
          connected,  \* connection of the client and the channel, in the channels service
          domain,     \* status of the domain
          keys,       \* cached tokens of the client ("client_key:<token>")
          lastKey,    \* cached token of the client's ID ("client_id:<id>")
          cached,     \* cached status of the domain
          session,    \* an MQTT session is open
          msg,        \* the message of a sender
          adm,        \* the operation of an administrator
          events,     \* operations and failures so far
          staleKeys,  \* tokens that may stay cached until they expire (history)
          staleStatus \* so may the status (history)

vars == <<client, connected, domain, keys, lastKey, cached, session, msg, adm, events,
          staleKeys, staleStatus>>

DomainStatus == {"enabled", "disabled", "freezed"}

\* AuthPack: the token holds the ID of the client or of the domain, and the secret.
Tokens == [prefix : {"Basic", "Domain"}, secret : Secrets]

NoMsg == [pc |-> "idle", token |-> None, mqtt |-> FALSE, status |-> None]
NoAdm == [pc |-> "idle", op |-> None, arg |-> None]

TypeOK ==
  /\ client \in [status : {"enabled", "disabled", "deleted", None}, secret : Secrets]
  /\ domain \in DomainStatus /\ cached \in DomainStatus \cup {None}
  /\ keys \subseteq Tokens /\ lastKey \in Tokens \cup {None}
  /\ staleKeys \subseteq Tokens /\ connected \in BOOLEAN /\ session \in BOOLEAN
  /\ \A r \in Senders : msg[r].token \in Tokens \cup {None}
  /\ \A a \in Admins : adm[a].pc = "idle" <=> adm[a] = NoAdm
  /\ events \in 0 .. MaxEvents

Init ==
  /\ client = [status |-> "enabled", secret |-> CHOOSE s \in Secrets : TRUE]
  /\ connected = TRUE /\ domain = "enabled"
  /\ keys = {} /\ lastKey = None /\ cached = None /\ session = FALSE
  /\ msg = [r \in Senders |-> NoMsg] /\ adm = [a \in Admins |-> NoAdm]
  /\ events = 0 /\ staleKeys = {} /\ staleStatus = FALSE

rows   == <<client, connected, domain>>
caches == <<keys, lastKey, cached>>
hist   == <<events, staleKeys, staleStatus>>

\* RetrieveBySecret.
Valid(k) == client = [status |-> "enabled", secret |-> k.secret]

-----------------------------------------------------------------------------
(* Messages. *)

Goto(r, p) == msg' = [msg EXCEPT ![r].pc = p]
Return(r) == msg' = [msg EXCEPT ![r] = NoMsg]

\* AuthPublish of the HTTP and CoAP adapters; AuthConnect of the MQTT adapter.
Send(r, k, mqtt) ==
  /\ msg[r].pc = "idle"
  /\ mqtt => k.prefix = "Basic"
  /\ msg' = [msg EXCEPT ![r] = [pc |-> "authn", token |-> k, mqtt |-> mqtt, status |-> None]]
  /\ UNCHANGED <<rows, caches, session, adm, hist>>

\* AuthPublish of the MQTT adapter.
SendInSession(r) ==
  /\ msg[r].pc = "idle" /\ session
  /\ msg' = [msg EXCEPT ![r].pc = "status", ![r].mqtt = TRUE]
  /\ UNCHANGED <<rows, caches, session, adm, hist>>

Disconnect ==
  /\ session /\ session' = FALSE
  /\ UNCHANGED <<rows, caches, msg, adm, hist>>

\* The client is known: a session opens, or the message is to be authorized.
Known(r) == IF msg[r].mqtt THEN Return(r) /\ session' = TRUE
                           ELSE Goto(r, "status") /\ UNCHANGED session

Authenticate(r) ==
  /\ msg[r].pc = "authn"
  /\ IF msg[r].token \in keys THEN Known(r) ELSE Goto(r, "read") /\ UNCHANGED session
  /\ UNCHANGED <<rows, caches, adm, hist>>

RetrieveBySecret(r) ==
  /\ msg[r].pc = "read"
  /\ IF Valid(msg[r].token) THEN Goto(r, "save") ELSE Return(r)
  /\ UNCHANGED <<rows, caches, session, adm, hist>>

\* The cache keeps every token, and the last one under the ID of the client.
SaveKey(r) ==
  /\ msg[r].pc = "save"
  /\ keys' = keys \cup {msg[r].token}
  /\ Goto(r, "saveID")
  /\ UNCHANGED <<rows, lastKey, cached, session, adm, hist>>

SaveID(r) ==
  /\ msg[r].pc = "saveID"
  /\ lastKey' = msg[r].token
  /\ Known(r)
  /\ UNCHANGED <<rows, keys, cached, adm, hist>>

\* Authorize: the domain must be enabled.
Judge(r, s) == IF s = "enabled" THEN Goto(r, "conn") ELSE Return(r)

Authorize(r) ==
  /\ msg[r].pc = "status"
  /\ IF cached # None THEN Judge(r, cached) ELSE Goto(r, "readStatus")
  /\ UNCHANGED <<rows, caches, session, adm, hist>>

RetrieveDomainByID(r) ==
  /\ msg[r].pc = "readStatus"
  /\ msg' = [msg EXCEPT ![r].pc = "saveStatus", ![r].status = domain]
  /\ UNCHANGED <<rows, caches, session, adm, hist>>

SaveStatus(r) ==
  /\ msg[r].pc = "saveStatus"
  /\ cached' = msg[r].status
  /\ Judge(r, msg[r].status)
  /\ UNCHANGED <<rows, keys, lastKey, session, adm, hist>>

ClientAuthorize(r) ==
  /\ msg[r].pc = "conn"
  /\ IF connected THEN Goto(r, "accepted") ELSE Return(r)
  /\ UNCHANGED <<rows, caches, session, adm, hist>>

Publish(r) ==
  /\ msg[r].pc = "accepted"
  /\ Return(r)
  /\ UNCHANGED <<rows, caches, session, adm, hist>>

\* A call fails.  Without the entry of the ID, the token cannot be removed.
Fail(r) ==
  /\ msg[r].pc # "idle" /\ events < MaxEvents /\ events' = events + 1
  /\ staleKeys' = IF msg[r].pc = "saveID" THEN staleKeys \cup {msg[r].token} ELSE staleKeys
  /\ Return(r)
  /\ UNCHANGED <<rows, caches, session, adm, staleStatus>>

Step(r) == \/ Authenticate(r) \/ RetrieveBySecret(r) \/ SaveKey(r) \/ SaveID(r)
           \/ Authorize(r) \/ RetrieveDomainByID(r) \/ SaveStatus(r) \/ ClientAuthorize(r)
           \/ Publish(r)

-----------------------------------------------------------------------------
(* Operations. *)

Finish(a) == adm' = [adm EXCEPT ![a] = NoAdm]
Proceed(a, p) == adm' = [adm EXCEPT ![a].pc = p]

Begin(a, p, op, arg) ==
  /\ adm[a].pc = "idle" /\ events < MaxEvents /\ events' = events + 1
  /\ adm' = [adm EXCEPT ![a] = [pc |-> p, op |-> op, arg |-> arg]]
  /\ UNCHANGED <<rows, caches, session, msg, staleKeys, staleStatus>>

\* Tokens a message is about to save.
Saving == {msg[r].token : r \in {r \in Senders : msg[r].pc \in {"save", "saveID"}}}

\* UpdateSecret leaves the cache alone: what is cached stays until it expires.
UpdateSecret(a) ==
  /\ adm[a].pc = "secret"
  /\ Finish(a)
  /\ IF client.status = "enabled"
     THEN client' = [client EXCEPT !.secret = adm[a].arg] /\ staleKeys' = staleKeys \cup keys \cup Saving
     ELSE UNCHANGED <<client, staleKeys>>
  /\ UNCHANGED <<connected, domain, caches, session, msg, events, staleStatus>>

\* changeClientStatus reads the row first.
CheckStatus(a) ==
  /\ adm[a].pc = "check"
  /\ IF client.status \in {None, adm[a].arg} THEN Finish(a) ELSE Proceed(a, "write")
  /\ UNCHANGED <<rows, caches, session, msg, hist>>

\* Delete begins with the connections.
RemoveClientConnections(a) ==
  /\ adm[a].pc = "unlink"
  /\ connected' = FALSE
  /\ Proceed(a, "write")
  /\ UNCHANGED <<client, domain, caches, session, msg, hist>>

\* A message that has read the row before may save its token after.
ChangeStatus(a) ==
  /\ adm[a].pc = "write"
  /\ IF client.status = None THEN Finish(a) /\ UNCHANGED <<client, staleKeys>>
     ELSE /\ client' = [client EXCEPT !.status = adm[a].arg]
          /\ staleKeys' = staleKeys \cup Saving
          /\ IF adm[a].op = "enable" THEN Finish(a) ELSE Proceed(a, "lookup")
  /\ UNCHANGED <<connected, domain, caches, session, msg, events, staleStatus>>

\* After Remove: Delete goes on to remove the row.
Removed(a) == IF adm[a].op = "delete" THEN Proceed(a, "delete") ELSE Finish(a)

\* Remove finds a token under the ID of the client, the last one; others that
\* are cached stay.
RemoveLookup(a) ==
  /\ adm[a].pc = "lookup"
  /\ IF lastKey = None THEN Removed(a)
     ELSE adm' = [adm EXCEPT ![a].pc = "remove", ![a].arg = lastKey]
  /\ staleKeys' = staleKeys \cup (keys \ {lastKey})
  /\ UNCHANGED <<rows, caches, session, msg, events, staleStatus>>

\* Mutant: the entry of the ID is dropped and that of the token is not.
RemoveIDOnly(a) ==
  /\ adm[a].pc = "remove"
  /\ lastKey' = None
  /\ staleKeys' = staleKeys \cup (keys \ {adm[a].arg})
  /\ Removed(a)
  /\ UNCHANGED <<rows, keys, cached, session, msg, events, staleStatus>>

Remove(a) ==
  /\ adm[a].pc = "remove"
  /\ keys' = keys \ {adm[a].arg} /\ lastKey' = None
  /\ staleKeys' = staleKeys \cup (keys \ {adm[a].arg})
  /\ Removed(a)
  /\ UNCHANGED <<rows, cached, session, msg, events, staleStatus>>

\* The roles and policies of the client are the subject of Roles.  The cache is
\* cleared before the row goes: what is saved if the client is enabled meanwhile
\* stays.
Delete(a) ==
  /\ adm[a].pc = "delete"
  /\ client' = [client EXCEPT !.status = None]
  /\ staleKeys' = IF client.status = "enabled" THEN staleKeys \cup keys \cup Saving ELSE staleKeys
  /\ Finish(a)
  /\ UNCHANGED <<connected, domain, caches, session, msg, events, staleStatus>>

\* Connect asks for an enabled client.
Connection(b) ==
  /\ events < MaxEvents /\ events' = events + 1
  /\ connected # b /\ connected' = b
  /\ b => client.status = "enabled"
  /\ UNCHANGED <<client, domain, caches, session, msg, adm, staleKeys, staleStatus>>

\* EnableDomain, DisableDomain and FreezeDomain: the row, then the cache.
UpdateDomain(a) ==
  /\ adm[a].pc = "domain"
  /\ domain' = adm[a].arg
  /\ staleStatus' = (staleStatus \/ \E r \in Senders : msg[r].pc = "saveStatus")
  /\ Proceed(a, "clear")
  /\ UNCHANGED <<client, connected, caches, session, msg, events, staleKeys>>

RemoveStatus(a) ==
  /\ adm[a].pc = "clear"
  /\ cached' = None
  /\ Finish(a)
  /\ UNCHANGED <<rows, keys, lastKey, session, msg, hist>>

\* A call fails or the service stops: the caches are left as they are.
Interrupt(a) ==
  /\ adm[a].pc # "idle" /\ events < MaxEvents /\ events' = events + 1
  /\ staleKeys' = IF adm[a].pc \in {"lookup", "remove"} THEN staleKeys \cup keys ELSE staleKeys
  /\ staleStatus' = (staleStatus \/ adm[a].pc = "clear")
  /\ Finish(a)
  /\ UNCHANGED <<rows, caches, session, msg>>

Operate(a) ==
  \/ \E s \in Secrets : Begin(a, "secret", "secret", s)
  \/ Begin(a, "check", "enable", "enabled") \/ Begin(a, "check", "disable", "disabled")
  \/ Begin(a, "unlink", "delete", "deleted")
  \/ \E s \in DomainStatus : Begin(a, "domain", "domain", s)

Work(a) == \/ UpdateSecret(a) \/ CheckStatus(a) \/ RemoveClientConnections(a) \/ ChangeStatus(a)
           \/ RemoveLookup(a) \/ Remove(a) \/ Delete(a) \/ UpdateDomain(a) \/ RemoveStatus(a)

-----------------------------------------------------------------------------
(* Keys of the caches expire.  The entry of the ID is written after that   *)
(* of the token and expires after it.                                      *)

ExpireKey(k) ==
  /\ k \in keys
  /\ keys' = keys \ {k}
  /\ staleKeys' = staleKeys \ ({k} \ Saving)
  /\ UNCHANGED <<rows, lastKey, cached, session, msg, adm, events, staleStatus>>

ExpireID ==
  /\ lastKey # None /\ lastKey \notin keys
  /\ lastKey' = None
  /\ UNCHANGED <<rows, keys, cached, session, msg, adm, hist>>

\* Mutant: the status is cached without a duration.
ExpireStatusNever == FALSE /\ UNCHANGED vars

ExpireStatus ==
  /\ cached # None
  /\ cached' = None
  /\ staleStatus' = \E r \in Senders : msg[r].pc = "saveStatus" /\ msg[r].status # domain
  /\ UNCHANGED <<rows, keys, lastKey, session, msg, adm, events, staleKeys>>

Next ==
  \/ \E r \in Senders : \/ Step(r) \/ SendInSession(r) \/ Fail(r)
                        \/ \E k \in Tokens, mqtt \in BOOLEAN : Send(r, k, mqtt)
  \/ \E a \in Admins : Operate(a) \/ Work(a) \/ Interrupt(a)
  \/ \E b \in BOOLEAN : Connection(b)
  \/ Disconnect \/ ExpireID \/ ExpireStatus
  \/ \E k \in Tokens : ExpireKey(k)

\* Calls return, and keys of a cache expire.
Fairness == /\ \A r \in Senders : WF_vars(Step(r))
            /\ \A k \in Tokens : WF_vars(ExpireKey(k))
            /\ WF_vars(ExpireStatus)

Spec == Init /\ [][Next]_vars /\ Fairness

-----------------------------------------------------------------------------
(* Properties. *)

\* Once a client is disabled or deleted, and once the status of a domain has
\* changed, the caches of clients/cache and domains/cache hold no outdated answer,
\* but for these: while the operation has yet to clear the cache, or failed to; a
\* message that read the row before the change and saved its answer after it; an
\* old secret after UpdateSecret; and a token that the entry of the client's ID
\* does not lead to, because another one was saved later (there is one for each
\* prefix) or because writing that entry failed; and the tokens of a client that was
\* enabled again while it was being deleted.
StaleExplained ==
  /\ \A k \in keys : \/ Valid(k) \/ k \in staleKeys
                     \/ \E a \in Admins : adm[a].pc \in {"lookup", "remove"}
  /\ \/ cached \in {None, domain} \/ staleStatus
     \/ \E a \in Admins : adm[a].pc = "clear"

\* What is taken away for good is refused in the end, whatever was cached: the
\* messages of a client that is disabled, deleted or has another secret, that is
\* not connected, or whose domain is not enabled.  In an MQTT session only the
\* last two count.
Accepts(k, mqtt) == \E r \in Senders : msg[r].pc = "accepted" /\ msg[r].mqtt = mqtt
                                        /\ (~mqtt => msg[r].token = k)
MayPublish == connected /\ domain = "enabled"
ShutOut ==
  /\ \A k \in Tokens : <>[]~(Valid(k) /\ MayPublish) => <>[]~Accepts(k, FALSE)
  /\ <>[]~MayPublish => <>[]~Accepts(None, TRUE)
=============================================================================
