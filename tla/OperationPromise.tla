-------------------------- MODULE OperationPromise --------------------------
(***************************************************************************)
(* What the service promises a client about an operation: once a 202 has   *)
(* accepted it, polling its id returns "no outcome yet" until it returns   *)
(* one of the four outcomes, and from then on that same outcome for ever,  *)
(* whether the answer comes from the hot table or from history.            *)
(***************************************************************************)
CONSTANTS Ops, Outcomes, NoAnswer

VARIABLES
  accepted,   \* the operations a 202 was given for
  answer      \* the outcome each one's status endpoint reports, or NoAnswer

Init ==
  /\ accepted = {}
  /\ answer = [o \in Ops |-> NoAnswer]

Accept(o) ==
  /\ o \notin accepted
  /\ accepted' = accepted \cup {o}
  /\ UNCHANGED answer

\* One transaction answers one operation.
Answer(o, outcome) ==
  /\ o \in accepted
  /\ answer[o] = NoAnswer
  /\ answer' = [answer EXCEPT ![o] = outcome]
  /\ UNCHANGED accepted

Next ==
  \E o \in Ops : \/ Accept(o)
                 \/ \E outcome \in Outcomes : Answer(o, outcome)

Safe == Init /\ [][Next]_<<accepted, answer>>

\* Every accepted operation is answered in the end.
Answered == \A o \in Ops : o \in accepted ~> answer[o] # NoAnswer

=============================================================================
