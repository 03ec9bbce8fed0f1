----------------------------- MODULE StreamGroup -----------------------------
(***************************************************************************)
(* One Redis stream with its consumer group, and the queue operations      *)
(* scicomp-rq runs against it.  Every operation is one Redis command or    *)
(* one Lua script, so it is one atomic step.  The clients are arbitrary:   *)
(* any consumer may issue any operation on any entry at any time, which    *)
(* covers stale consumers, retries and delayed commands.                   *)
(***************************************************************************)
EXTENDS Naturals, FiniteSets

CONSTANTS
  Consumers,   \* consumer names; one per worker process
  None,        \* "no consumer": the entry is not in the pending list
  MaxLen,      \* bound: entries ever added to the stream
  Count        \* max_dequeue_items, the COUNT of a read or of a reclaim

ASSUME StreamGroupAssumption ==
  /\ MaxLen \in Nat \ {0}
  /\ Count \in Nat \ {0}
  /\ None \notin Consumers

Ids == 1 .. MaxLen
Dest == {"next", "dlq"}

VARIABLES
  added,    \* the stream holds entries 1 .. added
  cursor,   \* last-delivered-id of the group
  pel,      \* pending entries list: entry -> consumer, or None
  idle,     \* pending entries whose idle time has reached reclaim_idle_ms
  out,      \* out[m][d]: entries standing in destination d made from m
  acked     \* entries removed from the pending list by a plain XACK

groupVars == <<added, cursor, pel, idle, out, acked>>

Pending == {m \in Ids : pel[m] # None}

GroupTypeOK ==
  /\ added \in 0 .. MaxLen
  /\ cursor \in 0 .. MaxLen
  /\ pel \in [Ids -> Consumers \cup {None}]
  /\ idle \in SUBSET Ids
  /\ out \in [Ids -> [Dest -> Nat]]
  /\ acked \in SUBSET Ids

GroupInit ==
  /\ added = 0
  /\ cursor = 0
  /\ pel = [m \in Ids |-> None]
  /\ idle = {}
  /\ out = [m \in Ids |-> [d \in Dest |-> 0]]
  /\ acked = {}
-----------------------------------------------------------------------------
(* Delivery.                                                               *)

\* XADD by the previous stage.
EnqueueToStream ==
  /\ added < MaxLen
  /\ added' = added + 1
  /\ UNCHANGED <<cursor, pel, idle, out, acked>>

\* XREADGROUP ... COUNT Count >: the oldest entries never delivered.
Unread == {m \in Ids : cursor < m /\ m <= added /\ m <= cursor + Count}

\* Mutant: the cursor moves by COUNT even when fewer entries exist.
ReadMessagesOverrun(c) ==
  /\ cursor' = cursor + Count
  /\ pel' = [m \in Ids |-> IF m \in Unread THEN c ELSE pel[m]]
  /\ UNCHANGED <<added, idle, out, acked>>

ReadMessages(c) ==
  /\ cursor' = IF cursor + Count < added THEN cursor + Count ELSE added
  /\ pel' = [m \in Ids |-> IF m \in Unread THEN c ELSE pel[m]]
  /\ UNCHANGED <<added, idle, out, acked>>

\* XAUTOCLAIM ... 0-0 COUNT Count: the oldest idle entries, whoever owns them.
IdleHead == {m \in idle : Cardinality({n \in idle : n < m}) < Count}

ClaimIdleMessages(c) ==
  /\ pel' = [m \in Ids |-> IF m \in IdleHead THEN c ELSE pel[m]]
  /\ idle' = idle \ IdleHead
  /\ UNCHANGED <<added, cursor, out, acked>>

\* The same on a server without XAUTOCLAIM: XCLAIM of the entries S that an
\* earlier XPENDING listed, of which only those idle by now change hands.
ClaimListed(c, S) ==
  /\ pel' = [m \in Ids |-> IF m \in S \cap idle THEN c ELSE pel[m]]
  /\ idle' = idle \ S
  /\ UNCHANGED <<added, cursor, out, acked>>

\* LUA_RENEW_MESSAGE_LEASE: refreshes the idle time of an entry c still owns.
RenewMessageLease(c, m) ==
  /\ idle' = IF pel[m] = c THEN idle \ {m} ELSE idle
  /\ UNCHANGED <<added, cursor, pel, out, acked>>

\* The clock: a pending entry that nobody refreshed for reclaim_idle_ms.
LeaseTimeout(m) ==
  /\ m \in Pending \ idle
  /\ idle' = idle \cup {m}
  /\ UNCHANGED <<added, cursor, pel, out, acked>>
-----------------------------------------------------------------------------
(* Settlement.                                                             *)

\* The entries XACK removes from the pending list.
Unlist(S) ==
  /\ pel' = [m \in Ids |-> IF m \in S THEN None ELSE pel[m]]
  /\ idle' = idle \ S

\* XADD to each destination in D on behalf of every source in S.  The entries
\* one call adds to a destination stand and fall together and count as one.
Added(S, D) ==
  [m \in Ids |->
     [d \in Dest |-> IF m \in S /\ d \in D THEN out[m][d] + 1 ELSE out[m][d]]]

\* XACK; the number of entries it removed is not looked at.
AckMessage(m) ==
  /\ Unlist({m})
  /\ acked' = acked \cup ({m} \cap Pending)
  /\ UNCHANGED <<added, cursor, out>>

\* Mutant: the XDEL that takes the new entry back is missing.
HandoffNoRollback(m, d) ==
  /\ Unlist({m})
  /\ out' = Added({m}, {d})
  /\ UNCHANGED <<added, cursor, acked>>

\* LUA_HANDOFF: XADD first, then XACK; an XACK that removed nothing takes the
\* new entry back with XDEL.
HandoffAndAck(m, d) ==
  /\ Unlist({m})
  /\ out' = IF m \in Pending THEN Added({m}, {d}) ELSE out
  /\ UNCHANGED <<added, cursor, acked>>

\* Mutant: one pending source is enough.
ForwardManyAnyPending(S, D) ==
  IF S \cap Pending # {}
  THEN /\ Unlist(S)
       /\ out' = Added(S, D)
       /\ UNCHANGED <<added, cursor, acked>>
  ELSE UNCHANGED groupVars

\* Mutant: sources are acknowledged before the check that may refuse.
ForwardManyAckFirst(S, D) ==
  /\ Unlist(S)
  /\ out' = IF S \subseteq Pending THEN Added(S, D) ELSE out
  /\ UNCHANGED <<added, cursor, acked>>

\* LUA_FORWARD_MANY: refuses before any write unless every source is pending.
\* (A run hash of another type would abort it half-way; nothing makes one.)
ForwardManyFrom(S, D) ==
  IF S \subseteq Pending
  THEN /\ Unlist(S)
       /\ out' = Added(S, D)
       /\ UNCHANGED <<added, cursor, acked>>
  ELSE UNCHANGED groupVars

\* Mutant: the guarded script does not look at the pending list.
GuardedHandoffUnfenced(c, m) ==
  /\ Unlist({m})
  /\ out' = Added({m}, {"next"})
  /\ UNCHANGED <<added, cursor, acked>>

\* HANDOFF_AND_COMMIT_FINALIZATION_LUA as the stream sees it: the source must
\* be pending and owned by the calling consumer.  (The claim it also checks
\* belongs to the collect role.)
GuardedHandoff(c, m) ==
  IF pel[m] = c
  THEN /\ Unlist({m})
       /\ out' = Added({m}, {"next"})
       /\ UNCHANGED <<added, cursor, acked>>
  ELSE UNCHANGED groupVars
-----------------------------------------------------------------------------
GroupNext ==
  \/ EnqueueToStream
  \/ \E c \in Consumers : ReadMessages(c)
  \/ \E c \in Consumers : ClaimIdleMessages(c)
  \/ \E c \in Consumers, S \in SUBSET (1 .. cursor) :
       Cardinality(S) <= Count /\ ClaimListed(c, S)
  \/ \E c \in Consumers, m \in 1 .. cursor : RenewMessageLease(c, m)
  \/ \E m \in Ids : LeaseTimeout(m)
  \/ \E m \in 1 .. cursor : AckMessage(m)
  \/ \E m \in 1 .. cursor, d \in Dest : HandoffAndAck(m, d)
  \/ \E S \in SUBSET (1 .. cursor), D \in SUBSET Dest :
       S # {} /\ D # {} /\ ForwardManyFrom(S, D)
  \/ \E c \in Consumers, m \in 1 .. cursor : GuardedHandoff(c, m)

GroupSpec == GroupInit /\ [][GroupNext]_groupVars
-----------------------------------------------------------------------------
Standing(m) == \E d \in Dest : out[m][d] > 0
Settled(m) == Standing(m) \/ m \in acked

\* However many consumers hand the same entry off, and whatever they believe
\* about its lease, at most one entry per destination ever results, and none
\* while the entry is still pending (MessageSink::handoff, traits.rs).
ExactlyOnceHandoff ==
  \A m \in Ids :
    /\ \A d \in Dest : out[m][d] <= 1
    /\ m \in Pending \/ m > cursor => ~Standing(m)

\* A delivered entry is either still pending, so that some consumer can
\* reclaim it, or it has been settled; and only pending entries can be idle.
NothingLost ==
  /\ cursor <= added
  /\ idle \subseteq Pending
  /\ \A m \in Ids : m <= cursor => (m \in Pending <=> ~Settled(m))
  /\ \A m \in Ids : m > cursor => m \notin Pending /\ ~Settled(m)

SettledStays ==
  \A m \in Ids : Settled(m) =>
    /\ out'[m] = out[m]
    /\ m \in acked' <=> m \in acked
    /\ pel'[m] = None

\* An entry that was acknowledged without forwarding is never forwarded later,
\* and what stands downstream stays there: settlement is final.
SettlementIsFinal == [][SettledStays]_groupVars

FateOf(m) ==
  IF m > added THEN "absent"
  ELSE IF m > cursor THEN "queued"
  ELSE IF pel[m] # None THEN "pending" ELSE "settled"

Contract == INSTANCE StageContract WITH fate <- [m \in Ids |-> FateOf(m)]

\* The group implements the contract of a stage: whatever scripts the clients
\* send, entries arrive, are delivered, and are settled in one step together
\* with everything that stands downstream for them.
StageContractHolds == Contract!Spec
=============================================================================
