----------------------------- MODULE EventRelay -----------------------------
(***************************************************************************)
(* What the chat endpoint promises its client about the events due to it:  *)
(* it relays them in their order and leaves none out, and says so at the   *)
(* end only if the last has been relayed; or it breaks off and says that.  *)
(***************************************************************************)
EXTENDS Integers, Sequences

CONSTANT Event

VARIABLES
  due,    \* the events of the upstream service, in its order
  sent,   \* those the client has got
  over    \* "open", or how the response has ended

relayVars == <<due, sent, over>>

\* One write may carry several events.
Relay ==
  /\ over = "open"
  /\ \E n \in Len(sent) + 1..Len(due) : sent' = SubSeq(due, 1, n)
  /\ UNCHANGED <<due, over>>

Complete ==
  /\ over = "open" /\ sent = due
  /\ over' = "done"
  /\ UNCHANGED <<due, sent>>

\* The response ends with an error, or nobody listens any more.
Break ==
  /\ over = "open"
  /\ over' \in {"error", "gone"}
  /\ UNCHANGED <<due, sent>>

Init ==
  /\ due \in Seq(Event)
  /\ sent = <<>>
  /\ over = "open"

Next == Relay \/ Complete \/ Break

Spec == Init /\ [][Next]_relayVars
=============================================================================
