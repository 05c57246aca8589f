------------------------------- MODULE OneTime -------------------------------
(***************************************************************************)
(* What a one-time credential promises: it is taken at most once, and the  *)
(* request that has taken it yields at most one result for it.  A result   *)
(* may be a credential itself, as a refresh token is.                      *)
(***************************************************************************)
CONSTANT Credential

VARIABLES
  known,    \* the credentials ever handed out
  open,     \* those that can still be taken
  taken,    \* those taken by a request that has not answered
  yielded   \* <<c, d>>: credential c was exchanged for d

oneTimeVars == <<known, open, taken, yielded>>

Issue(c) ==
  /\ c \notin known
  /\ known' = known \cup {c}
  /\ open' = open \cup {c}
  /\ UNCHANGED <<taken, yielded>>

Take(c) ==
  /\ c \in open
  /\ open' = open \ {c}
  /\ taken' = taken \cup {c}
  /\ UNCHANGED <<known, yielded>>

Yield(c, d) ==
  /\ c \in taken /\ d \notin known
  /\ known' = known \cup {d}
  /\ open' = open \cup {d}
  /\ taken' = taken \ {c}
  /\ yielded' = yielded \cup {<<c, d>>}

\* Open credentials are withdrawn, or the request that took one gives up.
Withdraw(C) ==
  /\ C # {} /\ C \subseteq open \cup taken
  /\ open' = open \ C
  /\ taken' = taken \ C
  /\ UNCHANGED <<known, yielded>>

Init == known = {} /\ open = {} /\ taken = {} /\ yielded = {}

Next ==
  \/ \E c \in Credential : Issue(c) \/ Take(c)
  \/ \E c, d \in Credential : Yield(c, d)
  \/ \E C \in SUBSET Credential : Withdraw(C)

Spec == Init /\ [][Next]_oneTimeVars
=============================================================================
