---------------------------- MODULE StageContract ----------------------------
(***************************************************************************)
(* What one pipeline stage promises its neighbours, without streams,       *)
(* consumers, leases or scripts: every entry is settled once, and the      *)
(* entries it leaves downstream appear in the same step that settles it.   *)
(***************************************************************************)
EXTENDS Naturals

CONSTANTS
  Ids,    \* entries of the stage's input
  Dest    \* destinations an entry can be forwarded to

VARIABLES
  fate,   \* what has become of each entry
  out     \* out[m][d]: entries standing in destination d on behalf of m

contractVars == <<fate, out>>

Fate == {"absent", "queued", "pending", "settled"}

Init ==
  /\ fate = [m \in Ids |-> "absent"]
  /\ out = [m \in Ids |-> [d \in Dest |-> 0]]

Move(S, from, to) ==
  /\ \A m \in S : fate[m] = from
  /\ fate' = [m \in Ids |-> IF m \in S THEN to ELSE fate[m]]

Arrive == \E S \in SUBSET Ids : Move(S, "absent", "queued") /\ UNCHANGED out

Deliver == \E S \in SUBSET Ids : Move(S, "queued", "pending") /\ UNCHANGED out

\* All of S is settled together; an empty D is an acknowledgement that
\* forwards nothing.
Settle ==
  \E S \in SUBSET Ids, D \in SUBSET Dest :
    /\ Move(S, "pending", "settled")
    /\ out' = [m \in Ids |->
                 [d \in Dest |-> IF m \in S /\ d \in D THEN 1 ELSE out[m][d]]]

Next == Arrive \/ Deliver \/ Settle

Spec == Init /\ [][Next]_contractVars
=============================================================================
