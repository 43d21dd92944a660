---------------------------- MODULE OrderedLog ----------------------------
(***************************************************************************)
(* What a consumer that subscribes with Ordered (pkg/events/events.go) is  *)
(* promised: events take effect in the order of the stream.  Only the      *)
(* first event that is not settled has any effect on the state, possibly   *)
(* in part and possibly several times; it is settled once it has taken its *)
(* full effect, or it is given up when it grows too old.                   *)
(***************************************************************************)
EXTENDS Naturals, Sequences

CONSTANTS Effects(_, _),  \* states after (part of) the effect of an event on a state
          Initial         \* initial states

VARIABLES log,     \* events published so far
          done,    \* how many of them are settled
          state,   \* what the consumer keeps
          took,    \* the first event not settled has taken its full effect
          lost     \* positions of the events given up

vars == <<log, done, state, took, lost>>

Init == log = <<>> /\ done = 0 /\ state \in Initial /\ took = FALSE /\ lost = {}

Publish == /\ Len(log') = Len(log) + 1 /\ SubSeq(log', 1, Len(log)) = log
           /\ UNCHANGED <<done, state, took, lost>>

Apply == /\ done < Len(log)
         /\ state' \in Effects(state, log[done + 1])
         /\ took => took'
         /\ UNCHANGED <<log, done, lost>>

Settle == /\ took
          /\ done' = done + 1 /\ took' = FALSE
          /\ UNCHANGED <<log, state, lost>>

GiveUp == /\ done < Len(log)
          /\ done' = done + 1 /\ took' = FALSE
          /\ lost' = lost \cup {done + 1}
          /\ UNCHANGED <<log, state>>

Next == Publish \/ Apply \/ Settle \/ GiveUp

Spec == Init /\ [][Next]_vars
=============================================================================
