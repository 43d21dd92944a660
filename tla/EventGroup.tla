----------------------------- MODULE EventGroup -----------------------------
(***************************************************************************)
(* The subscribers of a stream of the Redis event store.  They all join    *)
(* one consumer group, from which each reads what no member has read yet.  *)
(* An entry of the stream is named by its position.                        *)
(***************************************************************************)
EXTENDS Naturals, Sequences, SequencesExt

CONSTANTS Consumers,   \* subscribers of the stream
          eventCount,  \* the entries one XReadGroup returns at most
          MaxEntries   \* bound: entries added to the stream

VARIABLES entries,  \* the length of the stream
          group,    \* the consumer group exists
          cursor,   \* the last entry delivered to the group
          batch,    \* batch[s]: the entries s has read and not handled
          running,  \* the subscribers whose loop runs
          handled   \* handled[s]: the entries s has handled, in order

vars == <<entries, group, cursor, batch, running, handled>>

TypeOK == /\ entries \in 0..MaxEntries /\ cursor \in 0..entries /\ group \in BOOLEAN
          /\ running \subseteq Consumers
          /\ batch \in [Consumers -> Seq(1..cursor)] /\ handled \in [Consumers -> Seq(1..cursor)]

Init == /\ entries = 0 /\ group = FALSE /\ cursor = 0 /\ running = {}
        /\ batch = [s \in Consumers |-> <<>>] /\ handled = [s \in Consumers |-> <<>>]

\* A publisher adds an entry.
XAdd == /\ entries < MaxEntries /\ entries' = entries + 1
        /\ UNCHANGED <<group, cursor, batch, running, handled>>

\* Subscribe: the first to come creates the group, at the end of the stream; a
\* group that exists is joined as it is.
Subscribe(s) == /\ s \notin running /\ running' = running \cup {s}
                /\ group' = TRUE /\ cursor' = IF group THEN cursor ELSE entries
                /\ UNCHANGED <<entries, batch, handled>>

\* Mutant: the loop reads from the start of the stream what it has not handled.
ReadPending(s) == /\ s \in running /\ batch[s] = <<>>
                  /\ batch' = [batch EXCEPT ![s] = SelectSeq([i \in 1..entries |-> i],
                                                   LAMBDA i : i \notin ToSet(handled[s]))]
                  /\ cursor' = entries
                  /\ UNCHANGED <<entries, group, running, handled>>

\* XReadGroup with ">".
Read(s) == /\ s \in running /\ batch[s] = <<>> /\ cursor < entries
           /\ LET n == IF entries - cursor < eventCount THEN entries - cursor ELSE eventCount
              IN  /\ batch' = [batch EXCEPT ![s] = [i \in 1..n |-> cursor + i]]
                  /\ cursor' = cursor + n
           /\ UNCHANGED <<entries, group, running, handled>>

\* handle: an entry is handled, or its handler fails and ends the batch; so
\* does an XACK that fails after it.
Handle(s) == /\ s \in running /\ batch[s] # <<>>
             /\ \/ /\ handled' = [handled EXCEPT ![s] = Append(@, Head(batch[s]))]
                   /\ \/ batch' = [batch EXCEPT ![s] = Tail(@)]
                      \/ batch' = [batch EXCEPT ![s] = <<>>]
                \/ batch' = [batch EXCEPT ![s] = <<>>] /\ UNCHANGED handled
             /\ UNCHANGED <<entries, group, cursor, running>>

\* The service stops; what it has read stays pending, and nobody reads that.
Stop(s) == /\ s \in running /\ running' = running \ {s}
           /\ batch' = [batch EXCEPT ![s] = <<>>]
           /\ UNCHANGED <<entries, group, cursor, handled>>

Next == \/ XAdd
        \/ \E s \in Consumers : Subscribe(s) \/ Read(s) \/ Handle(s) \/ Stop(s)

Spec == Init /\ [][Next]_vars

-----------------------------------------------------------------------------
\* The members of the group share the entries out: an entry is handled by one
\* subscriber and once, and a subscriber handles entries in stream order, also
\* across failures of its handler and its restarts.
HandledOnce == /\ \A s \in Consumers : \A i, j \in DOMAIN handled[s] :
                    i < j => handled[s][i] < handled[s][j]
               /\ \A s, t \in Consumers :
                    s # t => ToSet(handled[s]) \cap ToSet(handled[t]) = {}
=============================================================================
