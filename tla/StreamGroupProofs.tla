-------------------------- MODULE StreamGroupProofs --------------------------
(***************************************************************************)
(* Proofs about the consumer group for every number of consumers, every    *)
(* stream length and every read count.                                     *)
(***************************************************************************)
EXTENDS StreamGroup, TLAPS

\* A leaf is tried with Zenon, then with SMT; leaves that need arithmetic or
\* the extensionality of functions go to SMT at once.
USE ZenonT(20), SMTT(30)

\* The inductive invariant: neither ExactlyOnceHandoff nor NothingLost is
\* inductive alone.  A script may add an entry downstream only because a
\* pending source has none there yet; that it has none is what keeps NothingLost.
GroupInv == GroupTypeOK /\ ExactlyOnceHandoff /\ NothingLost

\* What leaving the pending list and adding downstream do to one entry.
LEMMA SettleOne ==
  ASSUME GroupTypeOK, NEW S \in SUBSET Ids, NEW D \in SUBSET Dest,
         out' = Added(S, D)
  PROVE  /\ out' \in [Ids -> [Dest -> Nat]]
         /\ \A m \in Ids, d \in Dest :
              out'[m][d] = IF m \in S /\ d \in D THEN out[m][d] + 1 ELSE out[m][d]
<1>1. \A m \in Ids, d \in Dest : out[m][d] \in Nat
  BY DEF GroupTypeOK
<1>2. \A m \in Ids, d \in Dest :
        (IF m \in S /\ d \in D THEN out[m][d] + 1 ELSE out[m][d]) \in Nat
  BY SMTT(30), <1>1
<1>. QED
  BY <1>2 DEF Added

\* Leaving the pending list keeps the types and touches no other entry.
LEMMA UnlistType ==
  ASSUME GroupTypeOK, NEW S \in SUBSET Ids, Unlist(S)
  PROVE  /\ pel' \in [Ids -> Consumers \cup {None}]
         /\ idle' \in SUBSET Ids
         /\ \A m \in Ids : pel'[m] = IF m \in S THEN None ELSE pel[m]
         /\ idle' = idle \ S
  BY DEF GroupTypeOK, Unlist

\* The group starts in the invariant.
LEMMA GroupInitInv == GroupInit => GroupInv
  BY SMTT(30), StreamGroupAssumption
  DEF GroupInit, GroupInv, GroupTypeOK, ExactlyOnceHandoff, NothingLost,
      Standing, Settled, Pending, Ids, Dest

\* Moving pending entries S out of the pending list while adding one entry to
\* every destination of D for each of them keeps the invariant.
LEMMA ForwardKeepsInv ==
  ASSUME GroupInv, NEW S \in SUBSET Ids, NEW D \in SUBSET Dest,
         S \subseteq Pending, D # {}, Unlist(S), out' = Added(S, D),
         UNCHANGED <<added, cursor, acked>>
  PROVE  GroupInv'
<1>. USE DEF GroupInv
<1>1. GroupTypeOK'
  BY SettleOne, UnlistType DEF GroupTypeOK
<1>2. \A m \in Ids : m \in S => ~Settled(m) /\ m <= cursor
  BY SMTT(30) DEF NothingLost, Pending, Ids, GroupTypeOK
<1>3. \A m \in Ids : m \in S => \A d \in Dest : out[m][d] = 0
  BY SMTT(30), <1>2 DEF Settled, Standing, GroupTypeOK
<1>4. \A m \in Ids : (m \in Pending)' <=> m \in Pending /\ m \notin S
  BY UnlistType DEF Pending
<1>5. \A m \in Ids : Standing(m)' <=> Standing(m) \/ m \in S
  <2>. SUFFICES ASSUME NEW m \in Ids PROVE Standing(m)' <=> Standing(m) \/ m \in S
    OBVIOUS
  <2>1. \A d \in Dest : out'[m][d] = IF m \in S /\ d \in D THEN out[m][d] + 1 ELSE out[m][d]
    BY SMTT(30), SettleOne
  <2>2. \A d \in Dest : out[m][d] \in Nat
    BY DEF GroupTypeOK
  <2>3. CASE m \in S
    <3>1. PICK d \in D : TRUE
      OBVIOUS
    <3>2. out'[m][d] > 0
      BY SMTT(30), <2>1, <2>2, <2>3
    <3>. QED BY <2>3, <3>2 DEF Standing
  <2>4. CASE m \notin S
    BY <2>1, <2>4 DEF Standing
  <2>. QED BY <2>3, <2>4
<1>6. ExactlyOnceHandoff'
  <2>1. \A m \in Ids, d \in Dest : out'[m][d] <= 1
    <3>1. \A m \in Ids, d \in Dest :
            out'[m][d] = IF m \in S /\ d \in D THEN out[m][d] + 1 ELSE out[m][d]
      BY SettleOne
    <3>. QED BY SMTT(30), <3>1, <1>3 DEF ExactlyOnceHandoff
  <2>2. \A m \in Ids : (m \in Pending)' \/ m > cursor' => ~Standing(m)'
    BY SMTT(30), <1>2, <1>4, <1>5 DEF ExactlyOnceHandoff, Ids, GroupTypeOK
  <2>. QED BY <2>1, <2>2 DEF ExactlyOnceHandoff
<1>7. NothingLost'
  <2>1. \A m \in Ids : Settled(m)' <=> Settled(m) \/ m \in S
    BY <1>5 DEF Settled
  <2>2. (idle \subseteq Pending)'
    BY SMTT(30), UnlistType, <1>4 DEF NothingLost, Pending, GroupTypeOK
  <2>. QED
    BY <1>2, <1>4, <2>1, <2>2 DEF NothingLost, GroupTypeOK, Ids
<1>. QED BY <1>1, <1>6, <1>7

\* Every step of any client keeps the invariant.
LEMMA GroupNextInv == GroupInv /\ [GroupNext]_groupVars => GroupInv'
<1>. SUFFICES ASSUME GroupInv, [GroupNext]_groupVars PROVE GroupInv'
  OBVIOUS
<1>. USE DEF GroupInv
<1>0. GroupTypeOK /\ ExactlyOnceHandoff /\ NothingLost
  OBVIOUS
<1>a. 1 .. cursor \subseteq Ids
  BY SMTT(30), StreamGroupAssumption DEF GroupTypeOK, Ids
<1>1. CASE EnqueueToStream
  <2>1. GroupTypeOK'
    BY SMTT(30), <1>1, StreamGroupAssumption DEF EnqueueToStream, GroupTypeOK
  <2>2. ExactlyOnceHandoff'
    BY <1>1 DEF EnqueueToStream, ExactlyOnceHandoff, Pending, Standing
  <2>3. NothingLost'
    BY SMTT(30), <1>1 DEF EnqueueToStream, NothingLost, Pending, Standing, Settled, GroupTypeOK
  <2>. QED BY <2>1, <2>2, <2>3
<1>2. ASSUME NEW c \in Consumers, ReadMessages(c) PROVE GroupInv'
  <2>1. /\ cursor' \in 0 .. MaxLen /\ cursor <= cursor' /\ cursor' <= added
        /\ \A m \in Ids : m \in Unread <=> cursor < m /\ m <= cursor'
    BY SMTT(30), <1>2, StreamGroupAssumption
    DEF ReadMessages, Unread, GroupTypeOK, NothingLost, Ids
  <2>2. GroupTypeOK'
    BY <1>2, <2>1 DEF ReadMessages, GroupTypeOK
  <2>3. \A m \in Ids : (m \in Pending)' <=> m \in Pending \/ m \in Unread
    BY <1>2, StreamGroupAssumption DEF ReadMessages, Pending
  <2>4. \A m \in Ids : /\ Standing(m)' <=> Standing(m)
                       /\ Settled(m)' <=> Settled(m)
    BY <1>2 DEF ReadMessages, Standing, Settled
  <2>5. ExactlyOnceHandoff'
    <3>1. \A m \in Ids, d \in Dest : out'[m][d] <= 1
      BY <1>2 DEF ReadMessages, ExactlyOnceHandoff
    <3>2. \A m \in Ids : (m \in Pending)' \/ m > cursor' => ~Standing(m)'
      BY SMTT(30), <2>1, <2>3, <2>4 DEF ExactlyOnceHandoff, Ids, GroupTypeOK
    <3>. QED BY <3>1, <3>2 DEF ExactlyOnceHandoff
  <2>6. NothingLost'
    <3>1. (idle \subseteq Pending)'
      BY <1>2, <2>3 DEF ReadMessages, NothingLost, GroupTypeOK
    <3>2. added' = added
      BY <1>2 DEF ReadMessages
    <3>. QED
      BY SMTT(30), <2>1, <2>3, <2>4, <3>1, <3>2 DEF NothingLost, Ids, GroupTypeOK
  <2>. QED BY <2>2, <2>5, <2>6
<1>3. ASSUME NEW c \in Consumers, ClaimIdleMessages(c) PROVE GroupInv'
  <2>1. IdleHead \subseteq idle /\ idle \subseteq Pending
    BY DEF IdleHead, NothingLost
  <2>2. GroupTypeOK'
    BY <1>3 DEF ClaimIdleMessages, GroupTypeOK
  <2>3. \A m \in Ids : (m \in Pending)' <=> m \in Pending
    BY <1>3, <2>1, StreamGroupAssumption DEF ClaimIdleMessages, Pending
  <2>4. ExactlyOnceHandoff'
    BY <1>3, <2>3 DEF ClaimIdleMessages, ExactlyOnceHandoff, Standing
  <2>5. NothingLost'
    BY <1>3, <2>1, <2>3 DEF ClaimIdleMessages, NothingLost, Standing, Settled, GroupTypeOK
  <2>. QED BY <2>2, <2>4, <2>5
<1>4. ASSUME NEW c \in Consumers, NEW m \in 1 .. cursor, RenewMessageLease(c, m)
      PROVE GroupInv'
  BY <1>4 DEF RenewMessageLease, GroupTypeOK, ExactlyOnceHandoff, NothingLost,
              Pending, Standing, Settled
<1>5. ASSUME NEW m \in Ids, LeaseTimeout(m) PROVE GroupInv'
  BY <1>5 DEF LeaseTimeout, GroupTypeOK, ExactlyOnceHandoff, NothingLost,
              Pending, Standing, Settled
<1>6. ASSUME NEW m \in 1 .. cursor, AckMessage(m) PROVE GroupInv'
  <2>0. m \in Ids /\ {m} \in SUBSET Ids
    BY <1>a
  <2>1. Unlist({m})
    BY <1>6 DEF AckMessage
  <2>2. /\ pel' \in [Ids -> Consumers \cup {None}]
        /\ idle' \in SUBSET Ids
        /\ \A n \in Ids : pel'[n] = IF n \in {m} THEN None ELSE pel[n]
        /\ idle' = idle \ {m}
    BY <2>0, <2>1, UnlistType
  <2>3. GroupTypeOK'
    BY <1>6, <2>0, <2>2 DEF AckMessage, GroupTypeOK
  <2>4. \A n \in Ids : (n \in Pending)' <=> n \in Pending /\ n # m
    BY <2>2 DEF Pending
  <2>5. \A n \in Ids : /\ Standing(n)' <=> Standing(n)
                       /\ Settled(n)' <=> Settled(n) \/ (n = m /\ m \in Pending)
    BY <1>6 DEF AckMessage, Standing, Settled
  <2>6. ExactlyOnceHandoff'
    BY <1>6, <2>4, <2>5 DEF AckMessage, ExactlyOnceHandoff
  <2>7. NothingLost'
    <3>1. (idle \subseteq Pending)'
      BY <2>2, <2>4 DEF NothingLost, GroupTypeOK
    <3>2. added' = added /\ cursor' = cursor
      BY <1>6 DEF AckMessage
    <3>. QED
      BY <2>0, <2>4, <2>5, <3>1, <3>2 DEF NothingLost, Ids, GroupTypeOK
  <2>. QED BY <2>3, <2>6, <2>7
<1>7. ASSUME NEW m \in 1 .. cursor, NEW d \in Dest, HandoffAndAck(m, d) PROVE GroupInv'
  <2>0. m \in Ids /\ {m} \in SUBSET Ids /\ {d} \in SUBSET Dest /\ {d} # {}
    BY <1>a
  <2>1. CASE m \in Pending
    <3>1. {m} \subseteq Pending /\ Unlist({m}) /\ out' = Added({m}, {d})
          /\ UNCHANGED <<added, cursor, acked>>
      BY <1>7, <2>1 DEF HandoffAndAck
    <3>. QED BY <2>0, <3>1, ForwardKeepsInv
  <2>2. CASE m \notin Pending
    <3>1. pel' = pel /\ idle' = idle
      BY <1>7, <2>0, <2>2 DEF HandoffAndAck, Unlist, Pending, GroupTypeOK, NothingLost
    <3>. QED
      BY <1>7, <2>2, <3>1 DEF HandoffAndAck, GroupTypeOK, ExactlyOnceHandoff, NothingLost,
                              Pending, Standing, Settled
  <2>. QED BY <2>1, <2>2
<1>8. ASSUME NEW S \in SUBSET (1 .. cursor), NEW D \in SUBSET Dest, D # {},
             ForwardManyFrom(S, D)
      PROVE GroupInv'
  <2>0. S \in SUBSET Ids
    BY <1>a
  <2>1. CASE S \subseteq Pending
    <3>1. Unlist(S) /\ out' = Added(S, D) /\ UNCHANGED <<added, cursor, acked>>
      BY <1>8, <2>1 DEF ForwardManyFrom
    <3>. QED BY <1>8, <2>0, <2>1, <3>1, ForwardKeepsInv
  <2>2. CASE ~(S \subseteq Pending)
    BY <1>8, <2>2 DEF ForwardManyFrom, groupVars, GroupTypeOK, ExactlyOnceHandoff,
                      NothingLost, Pending, Standing, Settled
  <2>. QED BY <2>1, <2>2
<1>9. ASSUME NEW c \in Consumers, NEW m \in 1 .. cursor, GuardedHandoff(c, m) PROVE GroupInv'
  <2>0. m \in Ids /\ {m} \in SUBSET Ids /\ {"next"} \in SUBSET Dest
    BY <1>a DEF Dest
  <2>1. CASE pel[m] = c
    <3>1. {m} \subseteq Pending
      BY <2>0, <2>1, StreamGroupAssumption DEF Pending
    <3>2. Unlist({m}) /\ out' = Added({m}, {"next"}) /\ UNCHANGED <<added, cursor, acked>>
      BY <1>9, <2>1 DEF GuardedHandoff
    <3>. QED BY <2>0, <3>1, <3>2, ForwardKeepsInv
  <2>2. CASE pel[m] # c
    BY <1>9, <2>2 DEF GuardedHandoff, groupVars, GroupTypeOK, ExactlyOnceHandoff,
                      NothingLost, Pending, Standing, Settled
  <2>. QED BY <2>1, <2>2
<1>10. CASE UNCHANGED groupVars
  BY <1>10 DEF groupVars, GroupTypeOK, ExactlyOnceHandoff, NothingLost,
               Pending, Standing, Settled
<1>11. ASSUME NEW c \in Consumers, NEW S \in SUBSET (1 .. cursor), ClaimListed(c, S)
       PROVE GroupInv'
  <2>1. idle \subseteq Pending
    BY DEF NothingLost
  <2>2. GroupTypeOK'
    BY <1>11 DEF ClaimListed, GroupTypeOK
  <2>3. \A m \in Ids : (m \in Pending)' <=> m \in Pending
    BY <1>11, <2>1, StreamGroupAssumption DEF ClaimListed, Pending
  <2>4. ExactlyOnceHandoff'
    BY <1>11, <2>3 DEF ClaimListed, ExactlyOnceHandoff, Standing
  <2>5. NothingLost'
    BY <1>11, <2>1, <2>3 DEF ClaimListed, NothingLost, Standing, Settled, GroupTypeOK
  <2>. QED BY <2>2, <2>4, <2>5
<1>. QED
  BY <1>1, <1>2, <1>3, <1>4, <1>5, <1>6, <1>7, <1>8, <1>9, <1>10, <1>11 DEF GroupNext

\* The inductive invariant holds for any clients of the group.
THEOREM GroupInvariance == GroupSpec => []GroupInv
  BY GroupInitInv, GroupNextInv, PTL DEF GroupSpec

\* The state of the stream and its group keeps its shape.
THEOREM GroupTypeCorrect == GroupSpec => []GroupTypeOK
<1>1. GroupInv => GroupTypeOK
  BY DEF GroupInv
<1>. QED BY <1>1, GroupInvariance, PTL

\* handoff, forward_many and the guarded handoff leave at most one entry per
\* destination for each source, for any number of consumers racing on it.
THEOREM HandoffExactlyOnce == GroupSpec => []ExactlyOnceHandoff
<1>1. GroupInv => ExactlyOnceHandoff
  BY DEF GroupInv
<1>. QED BY <1>1, GroupInvariance, PTL

\* A delivered entry is pending or settled, never both and never neither.
THEOREM GroupLosesNothing == GroupSpec => []NothingLost
<1>1. GroupInv => NothingLost
  BY DEF GroupInv
<1>. QED BY <1>1, GroupInvariance, PTL
-----------------------------------------------------------------------------
(* Settlement is final, and the group implements the stage contract.       *)

\* The three shapes every step of the group has, as the contract sees it.
LEMMA StepShape ==
  ASSUME GroupInv, [GroupNext]_groupVars
  PROVE  \/ /\ UNCHANGED <<cursor, out, acked>>
            /\ added' \in {added, added + 1}
            /\ \A m \in Ids : (pel'[m] = None) <=> (pel[m] = None)
         \/ \E c \in Consumers : ReadMessages(c)
         \/ \E S \in SUBSET Pending, D \in SUBSET Dest :
              /\ Unlist(S)
              /\ out' = Added(S, D)
              /\ acked' \subseteq acked \cup S /\ acked \subseteq acked'
              /\ UNCHANGED <<added, cursor>>
<1>. USE DEF GroupInv
<1>a. 1 .. cursor \subseteq Ids
  BY SMTT(30), StreamGroupAssumption DEF GroupTypeOK, Ids
<1>1. CASE EnqueueToStream
  BY <1>1 DEF EnqueueToStream
<1>3. ASSUME NEW c \in Consumers, ClaimIdleMessages(c)
      PROVE /\ UNCHANGED <<cursor, out, acked, added>>
            /\ \A m \in Ids : (pel'[m] = None) <=> (pel[m] = None)
  BY <1>3, StreamGroupAssumption DEF ClaimIdleMessages, IdleHead, NothingLost, Pending
<1>4. ASSUME NEW c \in Consumers, NEW m \in 1 .. cursor, RenewMessageLease(c, m)
      PROVE UNCHANGED <<cursor, out, acked, added, pel>>
  BY <1>4 DEF RenewMessageLease
<1>5. ASSUME NEW m \in Ids, LeaseTimeout(m)
      PROVE UNCHANGED <<cursor, out, acked, added, pel>>
  BY <1>5 DEF LeaseTimeout
<1>6. ASSUME NEW m \in 1 .. cursor, AckMessage(m)
      PROVE \E S \in SUBSET Pending, D \in SUBSET Dest :
              /\ Unlist(S)
              /\ out' = Added(S, D)
              /\ acked' \subseteq acked \cup S /\ acked \subseteq acked'
              /\ UNCHANGED <<added, cursor>>
  <2>1. Unlist({m} \cap Pending)
    BY <1>6, <1>a DEF AckMessage, Unlist, Pending, NothingLost, GroupTypeOK
  <2>2. out' = Added({m} \cap Pending, {})
    BY <1>6 DEF AckMessage, Added, GroupTypeOK
  <2>. QED BY SMTT(30), <1>6, <2>1, <2>2 DEF AckMessage
<1>7. ASSUME NEW m \in 1 .. cursor, NEW d \in Dest, HandoffAndAck(m, d)
      PROVE \E S \in SUBSET Pending, D \in SUBSET Dest :
              /\ Unlist(S)
              /\ out' = Added(S, D)
              /\ acked' \subseteq acked \cup S /\ acked \subseteq acked'
              /\ UNCHANGED <<added, cursor>>
  <2>1. Unlist({m} \cap Pending)
    BY <1>7, <1>a DEF HandoffAndAck, Unlist, Pending, NothingLost, GroupTypeOK
  <2>2. CASE m \in Pending
    BY <1>7, <2>1, <2>2 DEF HandoffAndAck
  <2>3. CASE m \notin Pending
    <3>1. out' = Added({m} \cap Pending, {})
      BY <1>7, <2>3 DEF HandoffAndAck, Added, GroupTypeOK
    <3>. QED BY <1>7, <2>1, <3>1 DEF HandoffAndAck
  <2>. QED BY <2>2, <2>3
<1>8. ASSUME NEW S \in SUBSET (1 .. cursor), NEW D \in SUBSET Dest, ForwardManyFrom(S, D)
      PROVE \/ \E T \in SUBSET Pending, E \in SUBSET Dest :
                 /\ Unlist(T)
                 /\ out' = Added(T, E)
                 /\ acked' \subseteq acked \cup T /\ acked \subseteq acked'
                 /\ UNCHANGED <<added, cursor>>
            \/ UNCHANGED groupVars
  BY <1>8 DEF ForwardManyFrom
<1>9. ASSUME NEW c \in Consumers, NEW m \in 1 .. cursor, GuardedHandoff(c, m)
      PROVE \/ \E T \in SUBSET Pending, E \in SUBSET Dest :
                 /\ Unlist(T)
                 /\ out' = Added(T, E)
                 /\ acked' \subseteq acked \cup T /\ acked \subseteq acked'
                 /\ UNCHANGED <<added, cursor>>
            \/ UNCHANGED groupVars
  <2>1. CASE pel[m] = c
    <3>1. {m} \in SUBSET Pending /\ {"next"} \in SUBSET Dest
      BY <1>a, <2>1, StreamGroupAssumption DEF Pending, Dest
    <3>. QED BY <1>9, <2>1, <3>1 DEF GuardedHandoff
  <2>2. CASE pel[m] # c
    BY <1>9, <2>2 DEF GuardedHandoff
  <2>. QED BY <2>1, <2>2
<1>10. CASE UNCHANGED groupVars
  BY <1>10 DEF groupVars
<1>11. ASSUME NEW c \in Consumers, NEW S \in SUBSET (1 .. cursor), ClaimListed(c, S)
       PROVE /\ UNCHANGED <<cursor, out, acked, added>>
             /\ \A m \in Ids : (pel'[m] = None) <=> (pel[m] = None)
  BY <1>11, StreamGroupAssumption DEF ClaimListed, NothingLost, Pending
<1>. QED
  <2>1. CASE UNCHANGED groupVars
    BY <2>1, <1>10
  <2>2. CASE EnqueueToStream
    BY <2>2, <1>1
  <2>3. CASE \E c \in Consumers : ReadMessages(c)
    BY <2>3
  <2>4. CASE \E c \in Consumers : ClaimIdleMessages(c)
    BY <2>4, <1>3
  <2>5. CASE \E c \in Consumers, S \in SUBSET (1 .. cursor) : ClaimListed(c, S)
    BY <2>5, <1>11
  <2>6. CASE \E c \in Consumers, m \in 1 .. cursor : RenewMessageLease(c, m)
    BY <2>6, <1>4
  <2>7. CASE \E m \in Ids : LeaseTimeout(m)
    BY <2>7, <1>5
  <2>8. CASE \E m \in 1 .. cursor : AckMessage(m)
    BY <2>8, <1>6
  <2>9. CASE \E m \in 1 .. cursor, d \in Dest : HandoffAndAck(m, d)
    BY <2>9, <1>7
  <2>10. CASE \E S \in SUBSET (1 .. cursor), D \in SUBSET Dest : ForwardManyFrom(S, D)
    BY <2>10, <2>1, <1>8
  <2>11. CASE \E c \in Consumers, m \in 1 .. cursor : GuardedHandoff(c, m)
    BY <2>11, <2>1, <1>9
  <2>. QED
    BY <2>1, <2>2, <2>3, <2>4, <2>5, <2>6, <2>7, <2>8, <2>9, <2>10, <2>11 DEF GroupNext

\* What a step may do to an entry that is already settled: nothing.
LEMMA SettledStep ==
  ASSUME GroupInv, [GroupNext]_groupVars, NEW m \in Ids, Settled(m)
  PROVE  out'[m] = out[m] /\ (m \in acked' <=> m \in acked) /\ pel'[m] = None
<1>. USE DEF GroupInv
<1>0. m <= cursor /\ m \notin Pending /\ pel[m] = None
  BY SMTT(30) DEF NothingLost, Pending, Ids, GroupTypeOK
<1>1. CASE /\ UNCHANGED <<cursor, out, acked>>
           /\ added' \in {added, added + 1}
           /\ \A n \in Ids : (pel'[n] = None) <=> (pel[n] = None)
  BY <1>0, <1>1
<1>2. ASSUME NEW c \in Consumers, ReadMessages(c) PROVE out'[m] = out[m] /\ (m \in acked' <=> m \in acked) /\ pel'[m] = None
  BY SMTT(30), <1>0, <1>2 DEF ReadMessages, Unread, GroupTypeOK, Ids
<1>3. ASSUME NEW S \in SUBSET Pending, NEW D \in SUBSET Dest,
             Unlist(S), out' = Added(S, D),
             acked' \subseteq acked \cup S, acked \subseteq acked'
      PROVE  out'[m] = out[m] /\ (m \in acked' <=> m \in acked) /\ pel'[m] = None
  <2>1. m \notin S
    BY <1>0
  <2>. QED BY <1>0, <1>3, <2>1 DEF Unlist, Added, GroupTypeOK
<1>. QED BY <1>1, <1>2, <1>3, StepShape

\* Settlement is final: an acknowledged entry is never forwarded later, and a
\* forwarded one is never forwarded, acknowledged or made pending again.
THEOREM SettlementFinal == GroupSpec => SettlementIsFinal
<1>1. GroupInv /\ [GroupNext]_groupVars => [SettledStays]_groupVars
  BY SettledStep DEF SettledStays
<1>. QED BY <1>1, GroupInvariance, PTL DEF GroupSpec, SettlementIsFinal

\* Each step of the group is a step of the stage contract or a stutter.
LEMMA ContractStep ==
  ASSUME GroupInv, [GroupNext]_groupVars
  PROVE  [Contract!Next]_(Contract!contractVars)
<1>. USE DEF GroupInv
<1>. DEFINE F == [m \in Ids |-> FateOf(m)]
<1>0. /\ added \in Nat /\ cursor \in Nat /\ MaxLen \in Nat /\ Ids = 1 .. MaxLen
      /\ cursor <= added
  BY SMTT(30), StreamGroupAssumption DEF GroupTypeOK, NothingLost, Ids
<1>1. CASE /\ UNCHANGED <<cursor, out, acked>>
           /\ added' \in {added, added + 1}
           /\ \A n \in Ids : (pel'[n] = None) <=> (pel[n] = None)
  <2>. DEFINE S == {m \in Ids : m > added /\ m <= added'}
  <2>1. \A m \in S : F[m] = "absent"
    BY DEF FateOf
  <2>2. F' = [m \in Ids |-> IF m \in S THEN "queued" ELSE F[m]]
    BY SMTT(30), <1>0, <1>1 DEF FateOf
  <2>3. S \in SUBSET Ids
    OBVIOUS
  <2>. QED
    BY <1>1, <2>1, <2>2, <2>3 DEF Contract!Next, Contract!Arrive, Contract!Move
<1>2. ASSUME NEW c \in Consumers, ReadMessages(c) PROVE Contract!Next
  <2>1. /\ cursor' \in Nat /\ cursor <= cursor' /\ cursor' <= added
        /\ \A m \in Ids : m \in Unread <=> cursor < m /\ m <= cursor'
    BY SMTT(30), <1>0, <1>2, StreamGroupAssumption DEF ReadMessages, Unread
  <2>2. Unread \in SUBSET Ids
    BY DEF Unread
  <2>3. \A m \in Unread : F[m] = "queued"
    BY SMTT(30), <1>0, <2>1, <2>2 DEF FateOf
  <2>4. F' = [m \in Ids |-> IF m \in Unread THEN "pending" ELSE F[m]]
    BY SMTT(30), <1>0, <1>2, <2>1, StreamGroupAssumption DEF FateOf, ReadMessages
  <2>5. out' = out
    BY <1>2 DEF ReadMessages
  <2>. QED
    BY <2>2, <2>3, <2>4, <2>5 DEF Contract!Next, Contract!Deliver, Contract!Move
<1>3. ASSUME NEW S \in SUBSET Pending, NEW D \in SUBSET Dest,
             Unlist(S), out' = Added(S, D), UNCHANGED <<added, cursor>>
      PROVE  Contract!Next
  <2>1. S \in SUBSET Ids
    BY DEF Pending
  <2>2. \A m \in S : m <= cursor /\ pel[m] # None /\ ~Standing(m)
    BY SMTT(30), <1>0 DEF Pending, NothingLost, Settled
  <2>3. \A m \in S : F[m] = "pending"
    BY SMTT(30), <1>0, <2>1, <2>2 DEF FateOf
  <2>4. F' = [m \in Ids |-> IF m \in S THEN "settled" ELSE F[m]]
    BY SMTT(30), <1>0, <1>3, <2>1, <2>2 DEF FateOf, Unlist
  <2>5. \A m \in S, d \in Dest : out[m][d] + 1 = 1
    BY SMTT(30), <2>1, <2>2 DEF Standing, GroupTypeOK
  <2>6. out' = [m \in Ids |->
                  [d \in Dest |-> IF m \in S /\ d \in D THEN 1 ELSE out[m][d]]]
    BY <1>3, <2>5 DEF Added
  <2>. QED
    BY <2>1, <2>3, <2>4, <2>6 DEF Contract!Next, Contract!Settle, Contract!Move
<1>. QED BY <1>1, <1>2, <1>3, StepShape

\* The consumer group implements the stage contract.
THEOREM GroupImplementsContract == GroupSpec => StageContractHolds
<1>1. GroupInit => Contract!Init
  BY SMTT(30), StreamGroupAssumption DEF GroupInit, Contract!Init, FateOf, Ids
<1>2. GroupInv /\ [GroupNext]_groupVars => [Contract!Next]_(Contract!contractVars)
  BY ContractStep
<1>. QED
  BY <1>1, <1>2, GroupInvariance, PTL DEF GroupSpec, StageContractHolds, Contract!Spec
=============================================================================
