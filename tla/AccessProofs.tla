---------------------------- MODULE AccessProofs -----------------------------
(* Theorems about the caches that decide whose messages get through, for any  *)
(* number of secrets, messages and operations in flight.                      *)
EXTENDS MCInvitations, TLAPS

\* The provers a leaf is tried with, in this order.
USE SMT, Zenon, SMTT(20), SMTT(30)

\* A message in flight: what it is about to save is true, or it is marked.
MsgSound(m) ==
  /\ m = [pc |-> m.pc, token |-> m.token, mqtt |-> m.mqtt, status |-> m.status]
  /\ m.token \in A!Tokens \cup {None}
  /\ m.pc \in {"authn", "read", "save", "saveID"} => m.token \in A!Tokens
  /\ m.pc \in {"save", "saveID"} => A!Valid(m.token) \/ m.token \in staleKeys
  /\ m.pc = "saveStatus" => /\ m.status \in A!DomainStatus
                            /\ m.status = domain \/ staleStatus

\* The steps an operation can be at, and what it carries there.
AdmPending(p, op, arg) ==
  \/ op = "secret" /\ p = "secret" /\ arg \in Secrets
  \/ op = "enable" /\ p \in {"check", "write"} /\ arg = "enabled"
  \/ op = "disable" /\ p \in {"check", "write", "lookup"} /\ arg = "disabled"
  \/ op = "delete" /\ p \in {"unlink", "write", "lookup"} /\ arg = "deleted"
  \/ op \in {"disable", "delete"} /\ p = "remove" /\ arg \in A!Tokens
  \/ op = "delete" /\ p = "delete"
  \/ op = "domain" /\ p \in {"domain", "clear"} /\ arg \in A!DomainStatus

\* An operation in flight: what it is to write.
AdmSound(o) ==
  \/ o = A!NoAdm
  \/ /\ o = [pc |-> o.pc, op |-> o.op, arg |-> o.arg]
     /\ AdmPending(o.pc, o.op, o.arg)

AccessTyped ==
  /\ client \in [status : {"enabled", "disabled", "deleted", None}, secret : Secrets]
  /\ domain \in A!DomainStatus /\ cached \in A!DomainStatus \cup {None}
  /\ keys \subseteq A!Tokens /\ lastKey \in A!Tokens \cup {None}
  /\ staleKeys \subseteq A!Tokens /\ connected \in BOOLEAN /\ session \in BOOLEAN
  /\ events \in 0 .. MaxEvents
  /\ msg = [r \in Senders |-> msg[r]] /\ adm = [a \in Admins |-> adm[a]]

AccessInv ==
  /\ AccessTyped
  /\ \A r \in Senders : MsgSound(msg[r])
  /\ \A a \in Admins : AdmSound(adm[a])
  /\ A!StaleExplained

\* Messages and caches change while the rows, the operations and the marks stay.
LEMMA MsgMoves ==
  ASSUME AccessInv, NEW r \in Senders, NEW m, msg' = [msg EXCEPT ![r] = m],
         MsgSound(m), UNCHANGED <<client, connected, domain, adm, staleStatus>>,
         staleKeys \subseteq staleKeys', staleKeys' \subseteq A!Tokens,
         events' \in 0 .. MaxEvents, session' \in BOOLEAN,
         keys' \subseteq A!Tokens, \A k \in keys' \ keys : A!Valid(k) \/ k \in staleKeys,
         lastKey' \in A!Tokens \cup {None}, cached' \in A!DomainStatus \cup {None},
         cached' = cached \/ cached' = domain \/ staleStatus
  PROVE  AccessInv'
<1>1. AccessTyped'
  BY DEF AccessInv, AccessTyped
<1>2. \A s \in Senders : MsgSound(msg[s])'
  BY DEF AccessInv, AccessTyped, MsgSound, A!Valid
<1>3. \A a \in Admins : AdmSound(adm[a])'
  BY DEF AccessInv
<1>4. A!StaleExplained'
  BY DEF AccessInv, A!StaleExplained, A!Valid
<1> QED BY <1>1, <1>2, <1>3, <1>4 DEF AccessInv

\* No message in flight saves anything.
LEMMA NoMsgSound == MsgSound(A!NoMsg)
  BY DEF MsgSound, A!NoMsg

\* The steps of a message.
LEMMA MsgStep ==
  ASSUME AccessInv, NEW r \in Senders,
         \/ A!Step(r) \/ A!SendInSession(r) \/ A!Fail(r)
         \/ \E k \in A!Tokens, mqtt \in BOOLEAN : A!Send(r, k, mqtt)
  PROVE  AccessInv'
<1> USE DEF A!rows, A!caches, A!hist
<1>1. AccessTyped /\ MsgSound(msg[r])
  BY DEF AccessInv
<1>2. ASSUME A!Return(r)
      PROVE  msg' = [msg EXCEPT ![r] = A!NoMsg]
  BY <1>2 DEF A!Return
<1>3. ASSUME NEW p, A!Goto(r, p)
      PROVE  \E m : /\ msg' = [msg EXCEPT ![r] = m] /\ m.pc = p
                    /\ m = [pc |-> p, token |-> msg[r].token, mqtt |-> msg[r].mqtt, status |-> msg[r].status]
  <2>1. PICK m : m = [pc |-> p, token |-> msg[r].token, mqtt |-> msg[r].mqtt, status |-> msg[r].status]
    OBVIOUS
  <2>2. [msg[r] EXCEPT !.pc = p] = m
    BY <1>1, <2>1 DEF MsgSound
  <2>3. msg' = [msg EXCEPT ![r] = m]
    BY <1>3, <2>2 DEF A!Goto
  <2> QED BY <2>1, <2>3
<1>4. ASSUME NEW p, A!Goto(r, p), p \in {"status", "conn", "accepted", "readStatus", "read"},
             p = "read" => msg[r].pc = "authn"
      PROVE  \E m : msg' = [msg EXCEPT ![r] = m] /\ MsgSound(m)
  <2>1. PICK m : /\ msg' = [msg EXCEPT ![r] = m] /\ m.pc = p
                 /\ m = [pc |-> p, token |-> msg[r].token, mqtt |-> msg[r].mqtt, status |-> msg[r].status]
    BY <1>3, <1>4
  <2>2. MsgSound(m)
    BY <1>1, <1>4, <2>1 DEF MsgSound
  <2> QED BY <2>1, <2>2
<1>5. ASSUME A!Known(r)
      PROVE  session' \in BOOLEAN /\ \E m : msg' = [msg EXCEPT ![r] = m] /\ MsgSound(m)
  BY <1>1, <1>2, <1>4, <1>5, NoMsgSound DEF A!Known, AccessTyped
<1>6. ASSUME NEW s, A!Judge(r, s)
      PROVE  \E m : msg' = [msg EXCEPT ![r] = m] /\ MsgSound(m)
  BY <1>2, <1>4, <1>6, NoMsgSound DEF A!Judge
<1>7. CASE A!Authenticate(r)
  <2>1. session' \in BOOLEAN /\ \E m : msg' = [msg EXCEPT ![r] = m] /\ MsgSound(m)
    BY <1>1, <1>4, <1>5, <1>7 DEF A!Authenticate, AccessTyped
  <2> QED BY <1>1, <1>7, <2>1, MsgMoves DEF A!Authenticate, AccessTyped
<1>8. CASE A!RetrieveBySecret(r)
  <2>1. \E m : msg' = [msg EXCEPT ![r] = m] /\ MsgSound(m)
    <3>1. CASE A!Valid(msg[r].token)
      <4>1. PICK m : /\ msg' = [msg EXCEPT ![r] = m] /\ m.pc = "save"
                     /\ m = [pc |-> "save", token |-> msg[r].token, mqtt |-> msg[r].mqtt, status |-> msg[r].status]
        BY <1>3, <1>8, <3>1 DEF A!RetrieveBySecret
      <4>2. MsgSound(m)
        BY <1>1, <1>8, <3>1, <4>1 DEF A!RetrieveBySecret, MsgSound
      <4> QED BY <4>1, <4>2
    <3>2. CASE ~A!Valid(msg[r].token)
      BY <1>2, <1>8, <3>2, NoMsgSound DEF A!RetrieveBySecret
    <3> QED BY <3>1, <3>2
  <2> QED BY <1>1, <1>8, <2>1, MsgMoves DEF A!RetrieveBySecret, AccessTyped
<1>9. CASE A!SaveKey(r)
  <2>1. PICK m : /\ msg' = [msg EXCEPT ![r] = m] /\ m.pc = "saveID"
                 /\ m = [pc |-> "saveID", token |-> msg[r].token, mqtt |-> msg[r].mqtt, status |-> msg[r].status]
    BY <1>3, <1>9 DEF A!SaveKey
  <2>2. /\ MsgSound(m) /\ msg[r].token \in A!Tokens
        /\ A!Valid(msg[r].token) \/ msg[r].token \in staleKeys
    BY <1>1, <1>9, <2>1 DEF A!SaveKey, MsgSound
  <2> QED BY <1>1, <1>9, <2>1, <2>2, MsgMoves DEF A!SaveKey, AccessTyped
<1>10. CASE A!SaveID(r)
  <2>1. msg[r].token \in A!Tokens
    BY <1>1, <1>10 DEF A!SaveID, MsgSound
  <2>2. session' \in BOOLEAN /\ \E m : msg' = [msg EXCEPT ![r] = m] /\ MsgSound(m)
    BY <1>5, <1>10 DEF A!SaveID
  <2> QED BY <1>1, <1>10, <2>1, <2>2, MsgMoves DEF A!SaveID, AccessTyped
<1>11. CASE A!Authorize(r)
  <2>1. \E m : msg' = [msg EXCEPT ![r] = m] /\ MsgSound(m)
    BY <1>4, <1>6, <1>11 DEF A!Authorize
  <2> QED BY <1>1, <1>11, <2>1, MsgMoves DEF A!Authorize, AccessTyped
<1>12. CASE A!RetrieveDomainByID(r)
  <2>1. PICK m : m = [pc |-> "saveStatus", token |-> msg[r].token, mqtt |-> msg[r].mqtt, status |-> domain]
    OBVIOUS
  <2>2. msg' = [msg EXCEPT ![r] = m]
    <3>1. [msg[r] EXCEPT !.pc = "saveStatus", !.status = domain] = m
      <4>1. PICK x : x = [pc |-> "saveStatus", token |-> msg[r].token, mqtt |-> msg[r].mqtt,
                          status |-> msg[r].status]
        OBVIOUS
      <4>2. [msg[r] EXCEPT !.pc = "saveStatus"] = x
        BY <1>1, <4>1 DEF MsgSound
      <4>3. [x EXCEPT !.status = domain] = m
        BY <2>1, <4>1
      <4> QED BY <4>2, <4>3
    <3>2. msg' = [msg EXCEPT ![r] = [msg[r] EXCEPT !.pc = "saveStatus", !.status = domain]]
      BY <1>1, <1>12 DEF A!RetrieveDomainByID, AccessTyped
    <3> QED BY <3>1, <3>2
  <2>3. MsgSound(m)
    BY <1>1, <2>1 DEF MsgSound, AccessTyped
  <2> QED BY <1>1, <1>12, <2>2, <2>3, MsgMoves DEF A!RetrieveDomainByID, AccessTyped
<1>13. CASE A!SaveStatus(r)
  <2>1. msg[r].status \in A!DomainStatus /\ (msg[r].status = domain \/ staleStatus)
    BY <1>1, <1>13 DEF A!SaveStatus, MsgSound
  <2>2. \E m : msg' = [msg EXCEPT ![r] = m] /\ MsgSound(m)
    BY <1>6, <1>13 DEF A!SaveStatus
  <2> QED BY <1>1, <1>13, <2>1, <2>2, MsgMoves DEF A!SaveStatus, AccessTyped
<1>14. CASE A!ClientAuthorize(r) \/ A!Publish(r)
  <2>1. \E m : msg' = [msg EXCEPT ![r] = m] /\ MsgSound(m)
    BY <1>2, <1>4, <1>14, NoMsgSound DEF A!ClientAuthorize, A!Publish
  <2> QED BY <1>1, <1>14, <2>1, MsgMoves DEF A!ClientAuthorize, A!Publish, AccessTyped
<1>15. CASE A!Fail(r)
  <2>1. msg' = [msg EXCEPT ![r] = A!NoMsg] /\ events' \in 0 .. MaxEvents
    BY <1>1, <1>2, <1>15, AccessAssumption DEF A!Fail, AccessTyped
  <2>2. staleKeys \subseteq staleKeys' /\ staleKeys' \subseteq A!Tokens
    BY <1>1, <1>15 DEF A!Fail, AccessTyped, MsgSound
  <2> QED BY <1>1, <1>15, <2>1, <2>2, NoMsgSound, MsgMoves DEF A!Fail, AccessTyped
<1>16. CASE A!SendInSession(r)
  <2>1. PICK b : b = TRUE
    OBVIOUS
  <2>2. PICK m : m = [pc |-> "status", token |-> msg[r].token, mqtt |-> b, status |-> msg[r].status]
    OBVIOUS
  <2>3. msg' = [msg EXCEPT ![r] = m]
    <3>1. PICK x : x = [pc |-> "status", token |-> msg[r].token, mqtt |-> msg[r].mqtt,
                        status |-> msg[r].status]
      OBVIOUS
    <3>2. [msg[r] EXCEPT !.pc = "status"] = x
      BY <1>1, <3>1 DEF MsgSound
    <3>3. [x EXCEPT !.mqtt = b] = m
      BY <2>2, <3>1
    <3>4. [msg[r] EXCEPT !.pc = "status", !.mqtt = b] = m
      BY <3>2, <3>3
    <3>5. msg' = [msg EXCEPT ![r].pc = "status", ![r].mqtt = b]
      BY <1>16, <2>1 DEF A!SendInSession
    <3>6. msg' = [msg EXCEPT ![r] = [msg[r] EXCEPT !.pc = "status", !.mqtt = b]]
      BY <1>1, <3>5 DEF AccessTyped
    <3> QED BY <3>4, <3>6
  <2>4. MsgSound(m)
    BY <1>1, <2>2 DEF MsgSound
  <2> QED BY <1>1, <1>16, <2>3, <2>4, MsgMoves DEF A!SendInSession, AccessTyped
<1>17. ASSUME NEW k \in A!Tokens, NEW mqtt \in BOOLEAN, A!Send(r, k, mqtt)
       PROVE  AccessInv'
  <2>1. PICK m : m = [pc |-> "authn", token |-> k, mqtt |-> mqtt, status |-> None]
    OBVIOUS
  <2>2. msg' = [msg EXCEPT ![r] = m] /\ MsgSound(m)
    BY <1>17, <2>1 DEF A!Send, MsgSound
  <2> QED BY <1>1, <1>17, <2>2, MsgMoves DEF A!Send, AccessTyped
<1> QED BY <1>7, <1>8, <1>9, <1>10, <1>11, <1>12, <1>13, <1>14, <1>15, <1>16, <1>17 DEF A!Step

\* What of the caches has an explanation.
KeysExplained == \A k \in keys : \/ A!Valid(k) \/ k \in staleKeys
                                 \/ \E b \in Admins : adm[b].pc \in {"lookup", "remove"}
StatusExplained == \/ cached \in {None, domain} \/ staleStatus
                   \/ \E b \in Admins : adm[b].pc = "clear"

\* An operation takes a step while the messages stay.
LEMMA AdmMoves ==
  ASSUME AccessInv, NEW a \in Admins, NEW o, adm' = [adm EXCEPT ![a] = o], AdmSound(o),
         UNCHANGED <<session, msg>>,
         client' \in [status : {"enabled", "disabled", "deleted", None}, secret : Secrets],
         connected' \in BOOLEAN, domain' \in A!DomainStatus, cached' \in {cached, None},
         keys' \subseteq keys, lastKey' \in {lastKey, None}, events' \in 0 .. MaxEvents,
         staleKeys \subseteq staleKeys', staleKeys' \subseteq A!Tokens, staleStatus => staleStatus',
         client' = client \/ A!Saving \subseteq staleKeys',
         domain' = domain \/ (\A r \in Senders : msg[r].pc = "saveStatus" => staleStatus'),
         KeysExplained', StatusExplained'
  PROVE  AccessInv'
<1>1. AccessTyped'
  BY DEF AccessInv, AccessTyped
<1>2. \A r \in Senders : MsgSound(msg[r])'
  <2> SUFFICES ASSUME NEW r \in Senders
               PROVE  MsgSound(msg[r])'
    OBVIOUS
  <2>1. MsgSound(msg[r])
    BY DEF AccessInv
  <2>2. msg[r].pc \in {"save", "saveID"} => A!Valid(msg[r].token)' \/ msg[r].token \in staleKeys'
    <3>1. CASE client' = client
      BY <2>1, <3>1 DEF MsgSound, A!Valid
    <3>2. CASE A!Saving \subseteq staleKeys'
      BY <3>2 DEF A!Saving
    <3> QED BY <3>1, <3>2
  <2> QED BY <2>1, <2>2 DEF MsgSound, A!Valid
<1>3. \A b \in Admins : AdmSound(adm[b])'
  BY DEF AccessInv, AccessTyped
<1>4. A!StaleExplained'
  BY DEF A!StaleExplained, KeysExplained, StatusExplained
<1> QED BY <1>1, <1>2, <1>3, <1>4 DEF AccessInv

\* No operation in flight is sound.
LEMMA NoAdmSound == AdmSound(A!NoAdm) /\ A!NoAdm.pc = "idle"
  BY DEF AdmSound, A!NoAdm

\* An operation in flight is a record, and one that was begun is at one of its steps.
LEMMA AdmFields ==
  ASSUME NEW o, AdmSound(o)
  PROVE  /\ o = [pc |-> o.pc, op |-> o.op, arg |-> o.arg]
         /\ o.pc = "idle" <=> o = A!NoAdm
         /\ o.pc # "idle" => AdmPending(o.pc, o.op, o.arg)
<1>1. CASE o = A!NoAdm
  BY <1>1 DEF A!NoAdm
<1>2. CASE o # A!NoAdm
  <2>1. o = [pc |-> o.pc, op |-> o.op, arg |-> o.arg] /\ AdmPending(o.pc, o.op, o.arg)
    BY <1>2 DEF AdmSound
  <2>2. o.pc # "idle"
    BY <2>1 DEF AdmPending
  <2> QED BY <1>2, <2>1, <2>2
<1> QED BY <1>1, <1>2

\* A record of an operation at one of its steps is sound.
LEMMA AdmRecord ==
  ASSUME NEW p, NEW op, NEW arg, AdmPending(p, op, arg)
  PROVE  AdmSound([pc |-> p, op |-> op, arg |-> arg])
<1>1. PICK o : o = [pc |-> p, op |-> op, arg |-> arg]
  OBVIOUS
<1>2. o.pc = p /\ o.op = op /\ o.arg = arg
  BY <1>1
<1> QED BY <1>1, <1>2 DEF AdmSound

\* The steps of an operation.
LEMMA AdmStep ==
  ASSUME AccessInv, NEW a \in Admins, A!Operate(a) \/ A!Work(a) \/ A!Interrupt(a)
  PROVE  AccessInv'
<1> USE DEF A!rows, A!caches, A!hist
<1>1. AccessTyped /\ AdmSound(adm[a]) /\ KeysExplained /\ StatusExplained
  BY DEF AccessInv, A!StaleExplained, KeysExplained, StatusExplained
<1>0. adm[a].pc # "idle" => AdmPending(adm[a].pc, adm[a].op, adm[a].arg)
  BY <1>1, AdmFields
<1>2. ASSUME A!Finish(a)
      PROVE  adm' = [adm EXCEPT ![a] = A!NoAdm]
  BY <1>2 DEF A!Finish
<1>3. ASSUME NEW p, A!Proceed(a, p)
      PROVE  adm' = [adm EXCEPT ![a] = [pc |-> p, op |-> adm[a].op, arg |-> adm[a].arg]]
  <2>1. PICK o : o = [pc |-> p, op |-> adm[a].op, arg |-> adm[a].arg]
    OBVIOUS
  <2>2. adm[a] = [pc |-> adm[a].pc, op |-> adm[a].op, arg |-> adm[a].arg]
    BY <1>1, AdmFields
  <2>3. [adm[a] EXCEPT !.pc = p] = o
    BY <2>1, <2>2
  <2> QED BY <1>3, <2>1, <2>3 DEF A!Proceed
<1>4. ASSUME NEW o, adm' = [adm EXCEPT ![a] = o], adm[a].pc \notin {"lookup", "remove"},
             UNCHANGED <<client, keys>>, staleKeys \subseteq staleKeys'
      PROVE  KeysExplained'
  BY <1>1, <1>4 DEF KeysExplained, A!Valid, AccessTyped
<1>5. ASSUME NEW o, adm' = [adm EXCEPT ![a] = o], adm[a].pc # "clear",
             UNCHANGED <<domain, cached>>, staleStatus => staleStatus'
      PROVE  StatusExplained'
  BY <1>1, <1>5 DEF StatusExplained, AccessTyped
<1>6. CASE A!Operate(a)
  <2>1. PICK p, op, arg : A!Begin(a, p, op, arg) /\ AdmPending(p, op, arg)
    BY <1>6 DEF A!Operate, AdmPending
  <2>2. PICK o : o = [pc |-> p, op |-> op, arg |-> arg] /\ AdmSound(o)
    BY <2>1, AdmRecord
  <2>3. /\ adm' = [adm EXCEPT ![a] = o] /\ AdmSound(o) /\ adm[a].pc = "idle"
        /\ events' \in 0 .. MaxEvents
        /\ UNCHANGED <<client, connected, domain, keys, lastKey, cached, session, msg, staleKeys, staleStatus>>
    BY <1>1, <2>1, <2>2, AccessAssumption DEF A!Begin, AccessTyped
  <2>4. KeysExplained' /\ StatusExplained'
    BY <1>4, <1>5, <2>3
  <2> QED BY <1>1, <2>3, <2>4, AdmMoves DEF AccessTyped
<1>7. CASE A!UpdateSecret(a)
  <2>1. /\ adm[a].pc = "secret" /\ adm' = [adm EXCEPT ![a] = A!NoAdm]
        /\ UNCHANGED <<connected, domain, keys, lastKey, cached, session, msg, events, staleStatus>>
    BY <1>2, <1>7 DEF A!UpdateSecret
  <2>2. adm[a].arg \in Secrets
    BY <1>0, <2>1 DEF AdmPending
  <2>3. StatusExplained'
    BY <1>5, <2>1
  <2>4. CASE client.status = "enabled"
    <3>1. /\ client' = [client EXCEPT !.secret = adm[a].arg]
          /\ staleKeys' = staleKeys \cup keys \cup A!Saving
      BY <1>7, <2>4 DEF A!UpdateSecret
    <3>2. A!Saving \subseteq A!Tokens
      BY DEF AccessInv, MsgSound, A!Saving
    <3>3. client' \in [status : {"enabled", "disabled", "deleted", None}, secret : Secrets]
      BY <1>1, <2>2, <3>1 DEF AccessTyped
    <3>4. KeysExplained'
      BY <2>1, <3>1 DEF KeysExplained
    <3> QED BY <1>1, <2>1, <2>3, <3>1, <3>2, <3>3, <3>4, NoAdmSound, AdmMoves DEF AccessTyped
  <2>5. CASE client.status # "enabled"
    <3>1. UNCHANGED <<client, staleKeys>>
      BY <1>7, <2>5 DEF A!UpdateSecret
    <3>2. KeysExplained'
      BY <1>4, <2>1, <3>1
    <3> QED BY <1>1, <2>1, <2>3, <3>1, <3>2, NoAdmSound, AdmMoves DEF AccessTyped
  <2> QED BY <2>4, <2>5
<1>8. CASE A!CheckStatus(a) \/ A!RemoveClientConnections(a)
  <2>1. /\ adm[a].pc \in {"check", "unlink"} /\ connected' \in BOOLEAN
        /\ UNCHANGED <<client, domain, keys, lastKey, cached, session, msg, events, staleKeys, staleStatus>>
        /\ \/ adm' = [adm EXCEPT ![a] = A!NoAdm]
           \/ adm' = [adm EXCEPT ![a] = [pc |-> "write", op |-> adm[a].op, arg |-> adm[a].arg]]
    BY <1>1, <1>2, <1>3, <1>8 DEF A!CheckStatus, A!RemoveClientConnections, AccessTyped
  <2>2. AdmSound([pc |-> "write", op |-> adm[a].op, arg |-> adm[a].arg])
    <3>1. AdmPending("write", adm[a].op, adm[a].arg)
      BY <1>0, <2>1 DEF AdmPending
    <3> QED BY <3>1, AdmRecord
  <2>3. PICK o : adm' = [adm EXCEPT ![a] = o] /\ AdmSound(o)
    BY <2>1, <2>2, NoAdmSound
  <2>4. KeysExplained' /\ StatusExplained'
    BY <1>4, <1>5, <2>1, <2>3
  <2> QED BY <1>1, <2>1, <2>3, <2>4, AdmMoves DEF AccessTyped
<1>9. CASE A!ChangeStatus(a)
  <2>1. /\ adm[a].pc = "write"
        /\ UNCHANGED <<connected, domain, keys, lastKey, cached, session, msg, events, staleStatus>>
    BY <1>9 DEF A!ChangeStatus
  <2>2. adm[a].arg \in {"enabled", "disabled", "deleted"} /\ (adm[a].op = "enable" => adm[a].arg = "enabled")
    BY <1>0, <2>1 DEF AdmPending
  <2>3. CASE client.status = None
    <3>1. UNCHANGED <<client, staleKeys>> /\ adm' = [adm EXCEPT ![a] = A!NoAdm]
      BY <1>2, <1>9, <2>3 DEF A!ChangeStatus
    <3>2. KeysExplained' /\ StatusExplained'
      BY <1>4, <1>5, <2>1, <3>1
    <3> QED BY <1>1, <2>1, <3>1, <3>2, NoAdmSound, AdmMoves DEF AccessTyped
  <2>4. CASE client.status # None
    <3>1. /\ client' = [client EXCEPT !.status = adm[a].arg]
          /\ staleKeys' = staleKeys \cup A!Saving
      BY <1>9, <2>4 DEF A!ChangeStatus
    <3>2. A!Saving \subseteq A!Tokens
      BY DEF AccessInv, MsgSound, A!Saving
    <3>3. client' \in [status : {"enabled", "disabled", "deleted", None}, secret : Secrets]
      BY <1>1, <2>2, <3>1 DEF AccessTyped
    <3>4. CASE adm[a].op = "enable"
      <4>1. adm' = [adm EXCEPT ![a] = A!NoAdm]
        BY <1>2, <1>9, <2>4, <3>4 DEF A!ChangeStatus
      <4>2. \A k \in keys : A!Valid(k) => A!Valid(k)'
        BY <1>1, <2>2, <3>1, <3>4 DEF A!Valid, AccessTyped
      <4>3. KeysExplained'
        BY <1>1, <2>1, <3>1, <4>1, <4>2 DEF KeysExplained, AccessTyped
      <4>4. StatusExplained'
        BY <1>5, <2>1, <4>1
      <4> QED BY <1>1, <2>1, <3>1, <3>2, <3>3, <4>1, <4>3, <4>4, NoAdmSound, AdmMoves DEF AccessTyped
    <3>5. CASE adm[a].op # "enable"
      <4>1. PICK o : o = [pc |-> "lookup", op |-> adm[a].op, arg |-> adm[a].arg]
        OBVIOUS
      <4>2. adm' = [adm EXCEPT ![a] = o]
        BY <1>3, <1>9, <2>4, <3>5, <4>1 DEF A!ChangeStatus
      <4>3. AdmSound(o) /\ o.pc = "lookup"
        <5>1. AdmPending("lookup", adm[a].op, adm[a].arg)
          BY <1>0, <2>1, <3>5 DEF AdmPending
        <5> QED BY <4>1, <5>1, AdmRecord
      <4>4. KeysExplained'
        BY <1>1, <4>2, <4>3 DEF KeysExplained, AccessTyped
      <4>5. StatusExplained'
        BY <1>5, <2>1, <4>2
      <4> QED BY <1>1, <2>1, <3>1, <3>2, <3>3, <4>2, <4>3, <4>4, <4>5, AdmMoves DEF AccessTyped
    <3> QED BY <3>4, <3>5
  <2> QED BY <2>3, <2>4
<1>10. ASSUME A!Removed(a), adm[a].pc \in {"lookup", "remove"}
       PROVE  \E o : adm' = [adm EXCEPT ![a] = o] /\ AdmSound(o)
  <2>1. adm[a].op = "delete" => AdmSound([pc |-> "delete", op |-> adm[a].op, arg |-> adm[a].arg])
    <3>1. adm[a].op = "delete" => AdmPending("delete", adm[a].op, adm[a].arg)
      BY DEF AdmPending
    <3> QED BY <3>1, AdmRecord
  <2> QED BY <1>2, <1>3, <1>10, <2>1, NoAdmSound DEF A!Removed
<1>11. CASE A!RemoveLookup(a)
  <2>1. /\ adm[a].pc = "lookup" /\ staleKeys' = staleKeys \cup (keys \ {lastKey})
        /\ UNCHANGED <<client, connected, domain, keys, lastKey, cached, session, msg, events, staleStatus>>
    BY <1>11 DEF A!RemoveLookup
  <2>2. CASE lastKey = None
    <3>1. PICK o : adm' = [adm EXCEPT ![a] = o] /\ AdmSound(o)
      BY <1>10, <1>11, <2>1, <2>2 DEF A!RemoveLookup
    <3>2. KeysExplained'
      BY <1>1, <2>1, <2>2, AccessAssumption DEF KeysExplained, AccessTyped
    <3>3. StatusExplained'
      BY <1>5, <2>1, <3>1
    <3> QED BY <1>1, <2>1, <3>1, <3>2, <3>3, AdmMoves DEF AccessTyped
  <2>3. CASE lastKey # None
    <3>1. PICK o : o = [pc |-> "remove", op |-> adm[a].op, arg |-> lastKey]
      OBVIOUS
    <3>2. adm' = [adm EXCEPT ![a] = o]
      <4>1. PICK x : x = [pc |-> "remove", op |-> adm[a].op, arg |-> adm[a].arg]
        OBVIOUS
      <4>2. [adm[a] EXCEPT !.pc = "remove"] = x
        <5>1. adm[a] = [pc |-> adm[a].pc, op |-> adm[a].op, arg |-> adm[a].arg]
          BY <1>1, AdmFields
        <5> QED BY <4>1, <5>1
      <4>3. [x EXCEPT !.arg = lastKey] = o
        BY <3>1, <4>1
      <4>4. [adm[a] EXCEPT !.pc = "remove", !.arg = lastKey] = o
        BY <4>2, <4>3
      <4>5. adm' = [adm EXCEPT ![a] = [adm[a] EXCEPT !.pc = "remove", !.arg = lastKey]]
        BY <1>1, <1>11, <2>3 DEF A!RemoveLookup, AccessTyped
      <4> QED BY <4>4, <4>5
    <3>3. AdmSound(o) /\ o.pc = "remove"
      <4>1. AdmPending("remove", adm[a].op, lastKey)
        BY <1>0, <1>1, <2>1, <2>3 DEF AdmPending, AccessTyped
      <4> QED BY <3>1, <4>1, AdmRecord
    <3>4. KeysExplained'
      BY <1>1, <3>2, <3>3 DEF KeysExplained, AccessTyped
    <3>5. StatusExplained'
      BY <1>5, <2>1, <3>2
    <3> QED BY <1>1, <2>1, <3>2, <3>3, <3>4, <3>5, AdmMoves DEF AccessTyped
  <2> QED BY <2>2, <2>3
<1>12. CASE A!Remove(a)
  <2>1. /\ adm[a].pc = "remove" /\ keys' = keys \ {adm[a].arg} /\ lastKey' = None
        /\ staleKeys' = staleKeys \cup (keys \ {adm[a].arg})
        /\ UNCHANGED <<client, connected, domain, cached, session, msg, events, staleStatus>>
    BY <1>12 DEF A!Remove
  <2>2. PICK o : adm' = [adm EXCEPT ![a] = o] /\ AdmSound(o)
    BY <1>10, <1>12, <2>1 DEF A!Remove
  <2>3. KeysExplained'
    BY <2>1 DEF KeysExplained
  <2>4. StatusExplained'
    BY <1>5, <2>1, <2>2
  <2> QED BY <1>1, <2>1, <2>2, <2>3, <2>4, AdmMoves DEF AccessTyped
<1>13. CASE A!Delete(a)
  <2>1. /\ adm[a].pc = "delete" /\ client' = [client EXCEPT !.status = None]
        /\ staleKeys' = IF client.status = "enabled" THEN staleKeys \cup keys \cup A!Saving ELSE staleKeys
        /\ adm' = [adm EXCEPT ![a] = A!NoAdm]
        /\ UNCHANGED <<connected, domain, keys, lastKey, cached, session, msg, events, staleStatus>>
    BY <1>2, <1>13 DEF A!Delete
  <2>2. A!Saving \subseteq A!Tokens
    BY DEF AccessInv, MsgSound, A!Saving
  <2>3. client' \in [status : {"enabled", "disabled", "deleted", None}, secret : Secrets]
    BY <1>1, <2>1 DEF AccessTyped
  <2>4. client.status # "enabled" => A!Saving \subseteq staleKeys
    <3> SUFFICES ASSUME client.status # "enabled", NEW r \in Senders, msg[r].pc \in {"save", "saveID"}
                 PROVE  msg[r].token \in staleKeys
      BY DEF A!Saving
    <3>1. ~A!Valid(msg[r].token)
      BY DEF A!Valid
    <3> QED BY <3>1 DEF AccessInv, MsgSound
  <2>5. KeysExplained'
    <3>1. CASE client.status = "enabled"
      BY <2>1, <3>1 DEF KeysExplained
    <3>2. CASE client.status # "enabled"
      <4>1. \A k \in keys : ~A!Valid(k)
        BY <3>2 DEF A!Valid
      <4>2. /\ staleKeys' = staleKeys /\ keys' = keys
            /\ \A b \in Admins : adm[b].pc \in {"lookup", "remove"} => adm'[b] = adm[b]
        BY <1>1, <2>1, <3>2 DEF AccessTyped
      <4> QED BY <1>1, <4>1, <4>2 DEF KeysExplained
    <3> QED BY <3>1, <3>2
  <2>6. StatusExplained'
    BY <1>5, <2>1
  <2>7. A!Saving \subseteq staleKeys' /\ staleKeys \subseteq staleKeys' /\ staleKeys' \subseteq A!Tokens
    BY <1>1, <2>1, <2>2, <2>4 DEF AccessTyped
  <2> QED BY <1>1, <2>1, <2>3, <2>5, <2>6, <2>7, NoAdmSound, AdmMoves DEF AccessTyped
<1>14. CASE A!UpdateDomain(a)
  <2>1. /\ adm[a].pc = "domain" /\ domain' = adm[a].arg
        /\ staleStatus' = (staleStatus \/ \E r \in Senders : msg[r].pc = "saveStatus")
        /\ UNCHANGED <<client, connected, keys, lastKey, cached, session, msg, events, staleKeys>>
    BY <1>14 DEF A!UpdateDomain
  <2>2. PICK o : o = [pc |-> "clear", op |-> adm[a].op, arg |-> adm[a].arg]
    OBVIOUS
  <2>3. adm' = [adm EXCEPT ![a] = o]
    BY <1>3, <1>14, <2>2 DEF A!UpdateDomain
  <2>4. AdmSound(o) /\ o.pc = "clear" /\ domain' \in A!DomainStatus
    <3>1. adm[a].arg \in A!DomainStatus /\ AdmPending("clear", adm[a].op, adm[a].arg)
      BY <1>0, <2>1 DEF AdmPending
    <3> QED BY <2>1, <2>2, <3>1, AdmRecord
  <2>5. KeysExplained'
    BY <1>4, <2>1, <2>3
  <2>6. StatusExplained'
    BY <1>1, <2>3, <2>4 DEF StatusExplained, AccessTyped
  <2> QED BY <1>1, <2>1, <2>3, <2>4, <2>5, <2>6, AdmMoves DEF AccessTyped
<1>15. CASE A!RemoveStatus(a)
  <2>1. /\ adm[a].pc = "clear" /\ cached' = None /\ adm' = [adm EXCEPT ![a] = A!NoAdm]
        /\ UNCHANGED <<client, connected, domain, keys, lastKey, session, msg, events, staleKeys, staleStatus>>
    BY <1>2, <1>15 DEF A!RemoveStatus
  <2>2. KeysExplained'
    BY <1>4, <2>1
  <2>3. StatusExplained'
    BY <2>1 DEF StatusExplained
  <2> QED BY <1>1, <2>1, <2>2, <2>3, NoAdmSound, AdmMoves DEF AccessTyped
<1>16. CASE A!Interrupt(a)
  <2>1. /\ adm' = [adm EXCEPT ![a] = A!NoAdm]
        /\ staleKeys' = IF adm[a].pc \in {"lookup", "remove"} THEN staleKeys \cup keys ELSE staleKeys
        /\ staleStatus' = (staleStatus \/ adm[a].pc = "clear")
        /\ UNCHANGED <<client, connected, domain, keys, lastKey, cached, session, msg>>
    BY <1>2, <1>16 DEF A!Interrupt
  <2>2. events' \in 0 .. MaxEvents
    BY <1>1, <1>16, AccessAssumption DEF A!Interrupt, AccessTyped
  <2>3. KeysExplained'
    <3>1. CASE adm[a].pc \in {"lookup", "remove"}
      BY <2>1, <3>1 DEF KeysExplained
    <3>2. CASE adm[a].pc \notin {"lookup", "remove"}
      BY <1>4, <2>1, <3>2
    <3> QED BY <3>1, <3>2
  <2>4. StatusExplained'
    <3>1. CASE adm[a].pc = "clear"
      BY <2>1, <3>1 DEF StatusExplained
    <3>2. CASE adm[a].pc # "clear"
      BY <1>5, <2>1, <3>2
    <3> QED BY <3>1, <3>2
  <2>5. staleKeys \subseteq staleKeys' /\ staleKeys' \subseteq A!Tokens
    BY <1>1, <2>1 DEF AccessTyped
  <2> QED BY <1>1, <2>1, <2>2, <2>3, <2>4, <2>5, NoAdmSound, AdmMoves DEF AccessTyped
<1> QED BY <1>6, <1>7, <1>8, <1>9, <1>11, <1>12, <1>13, <1>14, <1>15, <1>16 DEF A!Work

\* Keys of the caches expire, and a connection or a session ends.
LEMMA OtherStep ==
  ASSUME AccessInv,
         \/ \E b \in BOOLEAN : A!Connection(b)
         \/ A!Disconnect \/ A!ExpireID \/ A!ExpireStatus \/ (\E k \in A!Tokens : A!ExpireKey(k))
  PROVE  AccessInv'
<1> USE DEF A!rows, A!caches, A!hist
<1>1. AccessTyped
  BY DEF AccessInv
<1>2. ASSUME UNCHANGED <<client, domain, keys, msg, adm, cached, staleKeys, staleStatus>>,
             connected' \in BOOLEAN, session' \in BOOLEAN, lastKey' \in {lastKey, None},
             events' \in 0 .. MaxEvents
      PROVE  AccessInv'
  <2>1. AccessTyped'
    BY <1>1, <1>2 DEF AccessTyped
  <2>2. \A r \in Senders : MsgSound(msg[r])'
    BY <1>2 DEF AccessInv, MsgSound, A!Valid
  <2>3. \A a \in Admins : AdmSound(adm[a])'
    BY <1>2 DEF AccessInv
  <2>4. A!StaleExplained'
    BY <1>2 DEF AccessInv, A!StaleExplained, A!Valid
  <2> QED BY <2>1, <2>2, <2>3, <2>4 DEF AccessInv
<1>3. ASSUME NEW b \in BOOLEAN, A!Connection(b)
      PROVE  AccessInv'
  <2>1. events' \in 0 .. MaxEvents
    BY <1>1, <1>3, AccessAssumption DEF A!Connection, AccessTyped
  <2>2. connected' \in BOOLEAN
    BY <1>3 DEF A!Connection
  <2> QED BY <1>1, <1>2, <1>3, <2>1, <2>2 DEF A!Connection, AccessTyped
<1>4. CASE A!Disconnect
  BY <1>1, <1>2, <1>4 DEF A!Disconnect, AccessTyped
<1>5. CASE A!ExpireID
  BY <1>1, <1>2, <1>5 DEF A!ExpireID, AccessTyped
<1>6. CASE A!ExpireStatus
  <2>1. /\ cached' = None
        /\ staleStatus' = (\E r \in Senders : msg[r].pc = "saveStatus" /\ msg[r].status # domain)
        /\ UNCHANGED <<client, connected, domain, keys, lastKey, session, msg, adm, events, staleKeys>>
    BY <1>6 DEF A!ExpireStatus
  <2>2. AccessTyped'
    BY <1>1, <2>1 DEF AccessTyped
  <2>3. \A r \in Senders : MsgSound(msg[r])'
    BY <2>1 DEF AccessInv, MsgSound, A!Valid
  <2>4. \A a \in Admins : AdmSound(adm[a])'
    BY <2>1 DEF AccessInv
  <2>5. A!StaleExplained'
    BY <2>1 DEF AccessInv, A!StaleExplained, A!Valid
  <2> QED BY <2>2, <2>3, <2>4, <2>5 DEF AccessInv
<1>7. ASSUME NEW k \in A!Tokens, A!ExpireKey(k)
      PROVE  AccessInv'
  <2>1. /\ keys' = keys \ {k} /\ staleKeys' = staleKeys \ ({k} \ A!Saving)
        /\ UNCHANGED <<client, connected, domain, lastKey, cached, session, msg, adm, events, staleStatus>>
    BY <1>7 DEF A!ExpireKey
  <2>2. AccessTyped'
    BY <1>1, <2>1 DEF AccessTyped
  <2>3. \A r \in Senders : msg[r].pc \in {"save", "saveID"} /\ msg[r].token \in staleKeys
                             => msg[r].token \in staleKeys'
    BY <2>1 DEF A!Saving
  <2>4. \A r \in Senders : MsgSound(msg[r])'
    BY <2>1, <2>3 DEF AccessInv, MsgSound, A!Valid
  <2>5. \A a \in Admins : AdmSound(adm[a])'
    BY <2>1 DEF AccessInv
  <2>6. A!StaleExplained'
    BY <2>1 DEF AccessInv, A!StaleExplained, A!Valid
  <2> QED BY <2>2, <2>4, <2>5, <2>6 DEF AccessInv
<1> QED BY <1>3, <1>4, <1>5, <1>6, <1>7

\* A new client has empty caches, and nothing is in flight.
LEMMA AccessInit == A!Init => AccessInv
<1> SUFFICES ASSUME A!Init
             PROVE  AccessInv
  OBVIOUS
<1>1. (CHOOSE s \in Secrets : TRUE) \in Secrets
  BY AccessAssumption
<1>2. AccessTyped
  <2>1. PICK s \in Secrets : client = [status |-> "enabled", secret |-> s]
    BY <1>1 DEF A!Init
  <2>2. client \in [status : {"enabled", "disabled", "deleted", None}, secret : Secrets]
    BY <2>1
  <2>3. events \in 0 .. MaxEvents
    BY AccessAssumption DEF A!Init
  <2>4. /\ domain \in A!DomainStatus /\ cached \in A!DomainStatus \cup {None}
        /\ keys \subseteq A!Tokens /\ lastKey \in A!Tokens \cup {None}
        /\ staleKeys \subseteq A!Tokens /\ connected \in BOOLEAN /\ session \in BOOLEAN
    BY DEF A!Init, A!DomainStatus
  <2>5. msg = [r \in Senders |-> msg[r]] /\ adm = [a \in Admins |-> adm[a]]
    BY DEF A!Init
  <2> QED BY <2>2, <2>3, <2>4, <2>5 DEF AccessTyped
<1>3. \A r \in Senders : MsgSound(msg[r])
  BY NoMsgSound DEF A!Init
<1>4. \A a \in Admins : AdmSound(adm[a])
  BY NoAdmSound DEF A!Init
<1>5. A!StaleExplained
  BY DEF A!Init, A!StaleExplained
<1> QED BY <1>2, <1>3, <1>4, <1>5 DEF AccessInv

\* Every step of messages, operations and caches keeps the invariant.
LEMMA AccessStep == AccessInv /\ [A!Next]_aVars => AccessInv'
<1> SUFFICES ASSUME AccessInv, [A!Next]_aVars
             PROVE  AccessInv'
  OBVIOUS
<1>1. CASE A!Next
  BY <1>1, MsgStep, AdmStep, OtherStep DEF A!Next
<1>2. CASE UNCHANGED aVars
  <2>1. AccessTyped' /\ A!StaleExplained'
    BY <1>2 DEF aVars, AccessInv, AccessTyped, A!StaleExplained, A!Valid
  <2>2. \A r \in Senders : MsgSound(msg[r])'
    BY <1>2 DEF aVars, AccessInv, MsgSound, A!Valid
  <2>3. \A a \in Admins : AdmSound(adm[a])'
    BY <1>2 DEF aVars, AccessInv
  <2> QED BY <2>1, <2>2, <2>3 DEF AccessInv
<1> QED BY <1>1, <1>2

\* The invariant of the access to channels holds of every behaviour.
LEMMA AccessInductive == PartsSpec => []AccessInv
<1>1. PartsInit => AccessInv
  BY AccessInit DEF PartsInit
<1>2. AccessInv /\ [PartsNext]_allVars => AccessInv'
  BY AccessStep DEF PartsNext, allVars
<1> QED BY <1>1, <1>2, PTL DEF PartsSpec

\* A cached answer is outdated only for one of the reasons StaleExplained lists,
\* for any number of messages and administrators at work.
THEOREM NoUnexplainedStaleness == PartsSpec => []StaleExplained
<1>1. AccessInv => StaleExplained
  BY DEF AccessInv, StaleExplained
<1> QED BY <1>1, AccessInductive, PTL

\* The client, its domain, the caches, and what is in flight keep their type.
THEOREM AccessTypeCorrect == PartsSpec => []A!TypeOK
<1>1. AccessInv => A!TypeOK
  <2> SUFFICES ASSUME AccessInv
               PROVE  A!TypeOK
    OBVIOUS
  <2>1. \A r \in Senders : msg[r].token \in A!Tokens \cup {None}
    BY DEF AccessInv, MsgSound
  <2>2. \A a \in Admins : adm[a].pc = "idle" <=> adm[a] = A!NoAdm
    BY AdmFields DEF AccessInv
  <2> QED BY <2>1, <2>2 DEF AccessInv, AccessTyped, A!TypeOK
<1> QED BY <1>1, AccessInductive, PTL
=============================================================================
