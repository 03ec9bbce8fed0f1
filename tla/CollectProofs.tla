---------------------------- MODULE CollectProofs ----------------------------
(***************************************************************************)
(* Proofs about the collect role for every number of workers, children,    *)
(* reports and faults, with claims and leases expiring at any moment.      *)
(***************************************************************************)
EXTENDS Collect, StreamGroupProofs, FiniteSetTheorems

\* A leaf is tried with Zenon, then with SMT; leaves that need arithmetic or
\* the extensionality of functions go to SMT at once.
USE ZenonT(20), SMTT(30)

Away == {"idle", "down"}

\* A worker inside the handler handles a delivered message.
Held ==
  \A c \in Consumers :
    /\ msg[c] \in 0 .. cursor
    /\ at[c] \notin Away => msg[c] # 0

Base == GroupInv /\ CollectTypeOK /\ Held

\* The two halves of CollectTypeOK beside GroupTypeOK: the shared state and
\* the workers.
StoreOK ==
  /\ child \in [Ids -> Children]
  /\ bad \in SUBSET Ids
  /\ group \in BOOLEAN /\ terminal \in BOOLEAN
  /\ collected \in SUBSET Ids
  /\ fin \in {"free", "claimed", "committed"}
  /\ owner \in Consumers \cup {None}
  /\ stage \in {"executing", "next"}
  /\ faults \in 0 .. MaxFaults
  /\ delayed \in {"setnx", "reset", "touch", "done"}
  /\ aggregates \in SUBSET SUBSET Ids

WorkerOK ==
  /\ at \in [Consumers -> At]
  /\ msg \in [Consumers -> Ids \cup {0}]
  /\ count \in [Consumers -> Nat]
  /\ snap \in [Consumers -> SUBSET Ids]
  /\ mine \in [Consumers -> BOOLEAN]

\* CollectTypeOK is its three parts.
LEMMA TypeParts == CollectTypeOK <=> GroupTypeOK /\ StoreOK /\ WorkerOK
  BY DEF CollectTypeOK, StoreOK, WorkerOK

\* The messages of S report different children.
Distinct(S) == \A m, n \in S : child[m] = child[n] => m = n

\* A list of results has a length, and results of different children that are
\* as many as the children are all of them.
LEMMA ResultsCount ==
  ASSUME NEW S \in SUBSET Ids, child \in [Ids -> Children]
  PROVE  /\ Cardinality(S) \in Nat
         /\ Distinct(S) /\ Cardinality(S) >= Cardinality(Children) => Of(S) = Children
<1>1. IsFiniteSet(Children) /\ Cardinality(Children) \in Nat
  BY CollectAssumption, FS_CardinalityType
<1>2. IsFiniteSet(Ids)
  BY SMTT(30), StreamGroupAssumption, FS_Interval DEF Ids
<1>3. Cardinality(S) \in Nat
  BY <1>2, FS_Subset, FS_CardinalityType
<1>4. ASSUME Distinct(S), Cardinality(S) >= Cardinality(Children) PROVE Of(S) = Children
  <2>. DEFINE f == [m \in S |-> child[m]]
  <2>1. f \in Injection(S, Children)
    BY <1>4 DEF Distinct, Injection, IsInjective
  <2>2. Cardinality(S) <= Cardinality(Children)
        /\ (Cardinality(S) = Cardinality(Children) <=> f \in Surjection(S, Children))
    BY <1>1, <2>1, FS_Injection
  <2>3. f \in Surjection(S, Children)
    BY SMTT(30), <1>1, <1>3, <1>4, <2>2
  <2>. QED BY <2>3 DEF Surjection, Of
<1>. QED BY <1>3, <1>4

\* The group as the scheduler leaves it satisfies Base.
LEMMA BaseInit == Init => Base /\ GroupInit
<1>. SUFFICES ASSUME Init PROVE Base
  BY DEF Init
<1>1. GroupInv /\ GroupTypeOK
  BY GroupInitInv DEF Init, GroupInv
<1>2. StoreOK
  <2>1. child \in [Ids -> Children] /\ bad \in SUBSET Ids
    BY CollectAssumption DEF Init
  <2>2. faults \in 0 .. MaxFaults
    BY SMTT(30), CollectAssumption DEF Init
  <2>3. delayed \in {"setnx", "reset", "touch", "done"}
    BY CollectAssumption DEF Init
  <2>. QED BY <2>1, <2>2, <2>3 DEF Init, StoreOK
<1>3. WorkerOK
  BY DEF Init, WorkerOK, At
<1>4. CollectTypeOK
  BY <1>1, <1>2, <1>3, TypeParts
<1>5. Held
  BY SMTT(30) DEF Init, Held, GroupInit, Away
<1>. QED BY <1>1, <1>4, <1>5 DEF Base

\* A worker inside process_message holds a real, delivered message.
LEMMA HeldMessage ==
  ASSUME Base, NEW c \in Consumers, at[c] \notin Away
  PROVE  msg[c] \in 1 .. cursor /\ msg[c] \in Ids
  BY SMTT(30), StreamGroupAssumption DEF Base, Held, CollectTypeOK, GroupTypeOK, Ids

\* The workers use the stream only through the operations of StreamGroup.
LEMMA CollectGroupStep ==
  ASSUME Base, [Next]_vars
  PROVE  [GroupNext]_groupVars
<1>d. "next" \in Dest /\ "dlq" \in Dest
  BY DEF Dest
<1>1. ASSUME NEW c \in Consumers, Handle(c) PROVE [GroupNext]_groupVars
  <2>1. CASE HandoffToRunAndCommit(c)
    <3>1. msg[c] \in 1 .. cursor
      BY <2>1, HeldMessage DEF HandoffToRunAndCommit, Away
    <3>2. GuardedHandoff(c, msg[c]) \/ UNCHANGED groupVars
      BY <2>1 DEF HandoffToRunAndCommit
    <3>. QED BY <3>1, <3>2 DEF GroupNext
  <2>2. CASE Ack(c)
    <3>1. msg[c] \in 1 .. cursor /\ AckMessage(msg[c])
      BY <2>2, HeldMessage DEF Ack, Away
    <3>. QED BY <3>1 DEF GroupNext
  <2>3. CASE LeaveOrDlq(c)
    <3>1. msg[c] \in 1 .. cursor /\ (HandoffAndAck(msg[c], "dlq") \/ UNCHANGED groupVars)
      BY <2>3, HeldMessage DEF LeaveOrDlq, Away
    <3>. QED BY <3>1, <1>d DEF GroupNext
  <2>4. CASE ~(HandoffToRunAndCommit(c) \/ Ack(c) \/ LeaveOrDlq(c))
    BY <1>1, <2>4
    DEF Handle, IsTerminal, AddResult, IsTerminalAfterMissing, PersistProgress,
        IsFinalizationCommitted, ClaimFinalization, IsCommittedAfterClaim, LoadMeta,
        IsTerminalAfterGone, LoadItems, CommitFinalization, MarkTerminal, DiscardGroup,
        ReleaseFinalizationClaim, Reads
  <2>. QED BY <2>1, <2>2, <2>3, <2>4
<1>2. ASSUME NEW c \in Consumers, Take(c) PROVE GroupNext
  BY <1>2 DEF Take, GroupNext
<1>3. ASSUME NEW c \in Consumers, CancelHandler(c) \/ StoreFails(c) \/ Exit(c)
      PROVE UNCHANGED groupVars
  BY <1>3 DEF CancelHandler, StoreFails, Exit
<1>4. ASSUME NEW m \in Ids, LeaseExpires(m) PROVE GroupNext
  BY <1>4 DEF LeaseExpires, GroupNext
<1>5. CASE ChildReports
  BY <1>5 DEF ChildReports, GroupNext
<1>6. CASE ClaimExpires \/ InitGroup \/ UNCHANGED vars
  BY <1>6 DEF ClaimExpires, InitGroup, vars
<1>. QED BY <1>1, <1>2, <1>3, <1>4, <1>5, <1>6 DEF Next

\* The group's invariant is kept and its cursor never moves back.
LEMMA CollectCursor ==
  ASSUME Base, [Next]_vars
  PROVE  GroupInv' /\ cursor \in Nat /\ cursor' \in Nat /\ cursor <= cursor'
<1>1. GroupInv /\ GroupInv'
  BY CollectGroupStep, GroupNextInv DEF Base
<1>2. cursor \in Nat /\ cursor' \in Nat
  BY SMTT(30), <1>1, StreamGroupAssumption DEF GroupInv, GroupTypeOK
<1>3. ASSUME NEW c \in Consumers, ReadMessages(c) PROVE cursor <= cursor'
  BY SMTT(30), <1>3, <1>1, <1>2, StreamGroupAssumption
  DEF ReadMessages, GroupInv, NothingLost, GroupTypeOK
<1>4. [GroupNext]_groupVars
  BY CollectGroupStep
<1>. QED BY SMTT(30), <1>1, <1>2, <1>3, <1>4, StepShape

\* Within the handler a worker changes its place and a local; msg stays.
LEMMA StepInside ==
  ASSUME Base, GroupInv', cursor \in Nat, cursor' \in Nat, cursor <= cursor',
         NEW c \in Consumers, at[c] \notin Away, NEW l \in At, Goto(c, l),
         UNCHANGED msg, StoreOK',
         count' \in [Consumers -> Nat], snap' \in [Consumers -> SUBSET Ids],
         mine' \in [Consumers -> BOOLEAN]
  PROVE  Base'
<1>1. WorkerOK'
  BY TypeParts DEF Base, Goto, WorkerOK
<1>2. Held'
  BY SMTT(30) DEF Base, Held, Goto, CollectTypeOK
<1>. QED BY <1>1, <1>2 DEF Base, GroupInv, CollectTypeOK, StoreOK, WorkerOK

\* Leaving the handler forgets the message and the locals.
LEMMA StepOut ==
  ASSUME Base, GroupInv', cursor \in Nat, cursor' \in Nat, cursor <= cursor',
         NEW c \in Consumers, NEW l \in Away, Leave(c, l), StoreOK'
  PROVE  Base'
<1>1. WorkerOK'
  BY TypeParts DEF Base, Leave, Goto, WorkerOK, Away, At
<1>2. Held'
  BY SMTT(30) DEF Base, Held, Leave, Goto, CollectTypeOK, Away
<1>. QED BY <1>1, <1>2 DEF Base, GroupInv, CollectTypeOK, StoreOK, WorkerOK

\* Steps of Redis, time, the children and the scheduler touch no worker.
LEMMA StepOutside ==
  ASSUME Base, GroupInv', cursor \in Nat, cursor' \in Nat, cursor <= cursor',
         UNCHANGED workerVars, StoreOK'
  PROVE  Base'
<1>1. WorkerOK'
  BY TypeParts DEF Base, workerVars, WorkerOK
<1>2. Held'
  BY SMTT(30) DEF Base, Held, workerVars, CollectTypeOK
<1>. QED BY <1>1, <1>2 DEF Base, GroupInv, CollectTypeOK, StoreOK, WorkerOK

\* Every step of the collect workers, the scheduler and time keeps the types.
LEMMA BaseNext == Base /\ [Next]_vars => Base'
<1>. SUFFICES ASSUME Base, [Next]_vars PROVE Base'
  OBVIOUS
<1>a. GroupInv' /\ cursor \in Nat /\ cursor' \in Nat /\ cursor <= cursor'
  BY CollectCursor
<1>b. StoreOK /\ WorkerOK
  BY TypeParts DEF Base
<1>c. ASSUME NEW c \in Consumers, at[c] \notin Away
      PROVE  msg[c] \in Ids
  BY <1>c, HeldMessage
<1>1. ASSUME NEW c \in Consumers, Handle(c) PROVE Base'
  <2>. USE DEF At
  <2>1. CASE IsTerminal(c) \/ IsTerminalAfterMissing(c) \/ IsFinalizationCommitted(c)
             \/ LoadMeta(c) \/ IsTerminalAfterGone(c)
    <3>1. at[c] \notin Away /\ Reads(c) /\ (\E l \in At : Goto(c, l))
      BY <2>1 DEF IsTerminal, IsTerminalAfterMissing, IsFinalizationCommitted,
                  LoadMeta, IsTerminalAfterGone, Away
    <3>2. UNCHANGED <<msg, count, snap, mine>> /\ StoreOK'
      BY <1>b, <3>1 DEF Reads, storeVars, reportVars, StoreOK
    <3>. QED BY <1>a, <1>b, <3>1, <3>2, StepInside DEF WorkerOK
  <2>2. CASE AddResult(c)
    <3>1. at[c] \notin Away /\ (\E l \in At : Goto(c, l))
          /\ UNCHANGED <<msg, snap, mine>>
      BY <2>2 DEF AddResult, Away
    <3>2. StoreOK'
      BY SMTT(30), <1>b, <1>c, <2>2, <3>1 DEF AddResult, reportVars, StoreOK
    <3>3. Cardinality(collected') \in Nat
      BY <1>b, <3>2, ResultsCount DEF StoreOK
    <3>4. count' \in [Consumers -> Nat]
      BY <1>b, <2>2, <3>3 DEF AddResult, WorkerOK
    <3>. QED BY <1>a, <1>b, <3>1, <3>2, <3>4, StepInside DEF WorkerOK
  <2>3. CASE PersistProgress(c) \/ ClaimFinalization(c) \/ CommitFinalization(c)
             \/ MarkTerminal(c) \/ DiscardGroup(c)
    <3>1. at[c] \notin Away /\ (\E l \in At : Goto(c, l))
          /\ UNCHANGED <<msg, count, snap, mine>>
      BY <2>3 DEF PersistProgress, ClaimFinalization, CommitFinalization,
                  MarkTerminal, DiscardGroup, Away
    <3>2. StoreOK'
      BY <1>b, <2>3 DEF PersistProgress, ClaimFinalization, CommitFinalization,
                        MarkTerminal, DiscardGroup, reportVars,
                        StoreOK
    <3>. QED BY <1>a, <1>b, <3>1, <3>2, StepInside DEF WorkerOK
  <2>4. CASE LoadItems(c)
    <3>1. at[c] \notin Away /\ (\E l \in At : Goto(c, l)) /\ UNCHANGED <<msg, count, mine>>
      BY <2>4 DEF LoadItems, Away
    <3>2. StoreOK' /\ snap' \in [Consumers -> SUBSET Ids]
      BY <1>b, <2>4 DEF LoadItems, storeVars, reportVars, StoreOK, WorkerOK
    <3>. QED BY <1>a, <1>b, <3>1, <3>2, StepInside DEF WorkerOK
  <2>5. CASE HandoffToRunAndCommit(c)
    <3>1. at[c] \notin Away /\ (\E l \in At : Goto(c, l)) /\ UNCHANGED <<msg, count, snap>>
      BY <2>5 DEF HandoffToRunAndCommit, Away
    <3>2. faults' \in 0 .. MaxFaults
      BY SMTT(30), <1>b, <2>5, CollectAssumption DEF HandoffToRunAndCommit, StoreOK
    <3>3. aggregates' \in SUBSET SUBSET Ids /\ mine' \in [Consumers -> BOOLEAN]
      <4>1. snap[c] \in SUBSET Ids
        BY <1>b DEF WorkerOK
      <4>2. aggregates' = aggregates \/ aggregates' = aggregates \cup {snap[c]}
        BY <2>5 DEF HandoffToRunAndCommit
      <4>3. mine' = mine \/ mine' = [mine EXCEPT ![c] = TRUE]
        BY <2>5 DEF HandoffToRunAndCommit
      <4>4. mine' \in [Consumers -> BOOLEAN]
        BY <1>b, <4>3 DEF WorkerOK
      <4>. QED BY <1>b, <4>1, <4>2, <4>4 DEF StoreOK
    <3>4. StoreOK'
      BY <1>b, <2>5, <3>2, <3>3 DEF HandoffToRunAndCommit, reportVars, StoreOK
    <3>. QED BY <1>a, <1>b, <3>1, <3>3, <3>4, StepInside DEF WorkerOK
  <2>6. CASE IsCommittedAfterClaim(c) \/ ReleaseFinalizationClaim(c)
    <3>1. at[c] \notin Away /\ StoreOK'
      BY <1>b, <2>6 DEF IsCommittedAfterClaim, ReleaseFinalizationClaim, Away,
                        storeVars, reportVars, StoreOK
    <3>2. \/ (\E l \in At : Goto(c, l)) /\ UNCHANGED <<msg, count, snap, mine>>
          \/ Leave(c, "idle")
      BY <2>6 DEF IsCommittedAfterClaim, ReleaseFinalizationClaim
    <3>3. "idle" \in Away
      BY DEF Away
    <3>. QED BY <1>a, <1>b, <3>1, <3>2, <3>3, StepInside, StepOut DEF WorkerOK
  <2>7. CASE Ack(c) \/ LeaveOrDlq(c)
    <3>1. Leave(c, "idle") /\ StoreOK' /\ "idle" \in Away
      BY <1>b, <2>7 DEF Ack, LeaveOrDlq, storeVars, reportVars, StoreOK, Away
    <3>. QED BY <1>a, <3>1, StepOut
  <2>. QED
    BY <1>1, <2>1, <2>2, <2>3, <2>4, <2>5, <2>6, <2>7 DEF Handle
<1>2. ASSUME NEW c \in Consumers, Take(c) PROVE Base'
  <2>1. StoreOK'
    BY <1>b, <1>2 DEF Take, storeVars, reportVars, StoreOK
  <2>2. PICK m \in Ids : /\ \/ Unread = {m} /\ ReadMessages(c)
                            \/ IdleHead = {m} /\ ClaimIdleMessages(c)
                         /\ msg' = [msg EXCEPT ![c] = m]
    BY <1>2 DEF Take
  <2>3. m \in 1 .. cursor'
    <3>1. CASE Unread = {m} /\ ReadMessages(c)
      <4>1. m \in Ids /\ cursor < m /\ m <= added /\ m <= cursor + Count
        BY <3>1 DEF Unread
      <4>2. cursor' = IF cursor + Count < added THEN cursor + Count ELSE added
        BY <3>1 DEF ReadMessages
      <4>3. added \in Nat
        BY SMTT(30), StreamGroupAssumption DEF Base, GroupInv, GroupTypeOK
      <4>. QED BY SMTT(30), <1>a, <4>1, <4>2, <4>3, StreamGroupAssumption DEF Ids
    <3>2. CASE IdleHead = {m} /\ ClaimIdleMessages(c)
      <4>1. m \in idle /\ cursor' = cursor
        BY <3>2 DEF IdleHead, ClaimIdleMessages
      <4>2. m \in Ids /\ m <= cursor
        BY SMTT(30), <1>a, <4>1, StreamGroupAssumption
        DEF Base, GroupInv, NothingLost, GroupTypeOK, Pending, Ids
      <4>. QED BY SMTT(30), <1>a, <4>1, <4>2, StreamGroupAssumption DEF Ids
    <3>. QED BY <2>2, <3>1, <3>2
  <2>4. WorkerOK'
    BY <1>b, <1>2, <2>2 DEF Take, Goto, WorkerOK, At
  <2>5. Held'
    BY SMTT(30), <1>a, <1>b, <1>2, <2>2, <2>3 DEF Base, Held, Take, Goto, WorkerOK
  <2>. QED
    BY <1>a, <2>1, <2>4, <2>5 DEF Base, GroupInv, CollectTypeOK, StoreOK, WorkerOK
<1>3. ASSUME NEW c \in Consumers, CancelHandler(c) \/ Exit(c) PROVE Base'
  <2>1. (\E l \in Away : Leave(c, l)) /\ StoreOK'
    BY <1>b, <1>3 DEF CancelHandler, Exit, storeVars, reportVars, StoreOK, Away
  <2>. QED BY <1>a, <2>1, StepOut
<1>4. ASSUME NEW c \in Consumers, StoreFails(c) PROVE Base'
  <2>1. at[c] \notin Away /\ (\E l \in At : Goto(c, l)) /\ UNCHANGED <<msg, count, snap, mine>>
    BY <1>4 DEF StoreFails, Away, At
  <2>2. faults' \in 0 .. MaxFaults
    BY SMTT(30), <1>b, <1>4, CollectAssumption DEF StoreFails, StoreOK
  <2>3. StoreOK'
    BY <1>b, <1>4, <2>2 DEF StoreFails, storeVars, reportVars, StoreOK
  <2>. QED BY <1>a, <1>b, <2>1, <2>3, StepInside DEF WorkerOK
<1>5. CASE (\E m \in Ids : LeaseExpires(m)) \/ ClaimExpires \/ ChildReports \/ InitGroup
           \/ UNCHANGED vars
  <2>1. UNCHANGED workerVars
    BY <1>5 DEF LeaseExpires, ClaimExpires, ChildReports, InitGroup, vars, workerVars
  <2>2. StoreOK'
    BY <1>b, <1>5
    DEF LeaseExpires, ClaimExpires, ChildReports, InitGroup, vars, storeVars, reportVars, StoreOK
  <2>. QED BY <1>a, <2>1, <2>2, StepOutside
<1>. QED BY <1>1, <1>2, <1>3, <1>4, <1>5 DEF Next

\* Base holds in every run of the collect stage.
THEOREM CollectBase == Spec => []Base
  BY BaseInit, BaseNext, PTL DEF Spec

\* The group, the finalization key and the workers keep their types.
THEOREM CollectTypeCorrect == Spec => []CollectTypeOK
<1>1. Base => CollectTypeOK
  BY DEF Base
<1>. QED BY <1>1, CollectBase, PTL

\* The collect stage is a client of the consumer group: what is proved of the
\* group holds of it.
THEOREM CollectImplementsGroup == Spec => GroupSpec
<1>1. Base /\ [Next]_vars => [GroupNext]_groupVars
  BY CollectGroupStep
<1>2. Init => GroupInit
  BY BaseInit
<1>. QED BY <1>1, <1>2, CollectBase, PTL DEF Spec, GroupSpec
-----------------------------------------------------------------------------
(* Finalization, while no second scheduler is inside init_group.           *)

\* fail_fast may stop: a delivered report says that a child of S failed.
Hit(S) == FailFast /\ \E n \in bad : n <= cursor /\ child[n] \in Of(S)

\* The results that justify handing the parent off.
Ready(S) == Of(S) = Children \/ Hit(S)

\* A report that may be acknowledged: its child is collected, or fail_fast has
\* already seen a failure.
Kept(m) == child[m] \in Of(collected) \/ Hit(collected)

\* The group and the finalization key against the handoff.
StoreInv ==
  /\ delayed = "done"
  /\ fin = "committed" <=> Handed # {}
  /\ \A m, n \in Handed : m = n
  /\ ~group \/ terminal \/ stage = "next" => fin = "committed"
  /\ Distinct(collected)
  /\ fin = "claimed" => Ready(collected)
  /\ \A a \in aggregates : Ready(a)

\* What a worker's place says about the store.  Its own claim may be gone by
\* then: everything but the cleanup is about a group not yet finalized.
PlaceInv(c) ==
  /\ at[c] \in {"commit", "mark", "discard", "drop"} => fin = "committed"
  /\ fin # "committed" =>
       /\ at[c] \in {"progress", "committed?"} /\ ShouldFinalize(c) => Ready(collected)
       /\ at[c] \in {"claim", "meta", "items"} => Ready(collected)
       /\ at[c] = "handoff" => Ready(snap[c])
       /\ at[c] \in {"progress", "committed?", "ok"} => Kept(msg[c])
       /\ at[c] = "ok" => ~(FailFast /\ msg[c] \in bad)

\* The acknowledged reports.
ReportInv ==
  fin # "committed" => \A m \in acked : Kept(m) /\ ~(FailFast /\ m \in bad)

FinInv == StoreInv /\ ReportInv /\ \A c \in Consumers : PlaceInv(c)

\* The only step that hands the parent off is the guarded one.
LEMMA HandedStep ==
  ASSUME Base, [Next]_vars
  PROVE  \/ /\ Handed' = Handed
            /\ ~(\E c \in Consumers : HandoffToRunAndCommit(c) /\ fin = "claimed"
                                         /\ owner = c /\ pel[msg[c]] = c)
         \/ \E c \in Consumers :
              /\ HandoffToRunAndCommit(c) /\ fin = "claimed" /\ owner = c /\ pel[msg[c]] = c
              /\ msg[c] \in Ids
              /\ Handed' = Handed \cup {msg[c]}
<1>. USE DEF Handed
<1>d. "next" \in Dest /\ "dlq" \in Dest /\ GroupTypeOK
  BY DEF Dest, Base, GroupInv
<1>1. ASSUME NEW c \in Consumers, HandoffToRunAndCommit(c), fin = "claimed",
             owner = c, pel[msg[c]] = c
      PROVE  msg[c] \in Ids /\ Handed' = Handed \cup {msg[c]}
  <2>1. msg[c] \in Ids /\ {msg[c]} \in SUBSET Ids /\ {"next"} \in SUBSET Dest
    BY <1>1, <1>d, HeldMessage DEF HandoffToRunAndCommit, Away
  <2>2. out' = Added({msg[c]}, {"next"})
    BY <1>1 DEF HandoffToRunAndCommit, GuardedHandoff
  <2>3. \A m \in Ids : out'[m]["next"] = IF m = msg[c] THEN out[m]["next"] + 1 ELSE out[m]["next"]
    BY <2>1, <2>2, <1>d DEF Added
  <2>4. \A m \in Ids : out[m]["next"] \in Nat
    BY <1>d DEF GroupTypeOK
  <2>. QED BY SMTT(30), <2>1, <2>3, <2>4
<1>2. ASSUME ~(\E c \in Consumers : HandoffToRunAndCommit(c) /\ fin = "claimed"
                                     /\ owner = c /\ pel[msg[c]] = c)
      PROVE  Handed' = Handed
  <2>1. out' = out \/ \E m \in Ids : out' = Added({m}, {"dlq"})
    <3>1. ASSUME NEW c \in Consumers, Handle(c) PROVE <2>1
      <4>1. CASE HandoffToRunAndCommit(c)
        BY <1>2, <4>1 DEF HandoffToRunAndCommit, groupVars
      <4>2. CASE Ack(c)
        BY <4>2 DEF Ack, AckMessage
      <4>3. CASE LeaveOrDlq(c)
        <5>1. msg[c] \in Ids
          BY <4>3, HeldMessage DEF LeaveOrDlq, Away
        <5>. QED BY <4>3, <5>1 DEF LeaveOrDlq, HandoffAndAck, groupVars
      <4>4. CASE ~(HandoffToRunAndCommit(c) \/ Ack(c) \/ LeaveOrDlq(c))
        BY <3>1, <4>4
        DEF Handle, IsTerminal, AddResult, IsTerminalAfterMissing, PersistProgress,
            IsFinalizationCommitted, ClaimFinalization, IsCommittedAfterClaim, LoadMeta,
            IsTerminalAfterGone, LoadItems, CommitFinalization, MarkTerminal, DiscardGroup,
            ReleaseFinalizationClaim, Reads, groupVars
      <4>. QED BY <4>1, <4>2, <4>3, <4>4
    <3>2. ASSUME NEW c \in Consumers, Take(c) \/ CancelHandler(c) \/ StoreFails(c) \/ Exit(c)
          PROVE out' = out
      BY <3>2 DEF Take, CancelHandler, StoreFails, Exit, ReadMessages, ClaimIdleMessages, groupVars
    <3>3. ASSUME NEW m \in Ids, LeaseExpires(m) PROVE out' = out
      BY <3>3 DEF LeaseExpires, LeaseTimeout
    <3>4. CASE ChildReports \/ ClaimExpires \/ InitGroup \/ UNCHANGED vars
      BY <3>4 DEF ChildReports, EnqueueToStream, ClaimExpires, InitGroup, vars, groupVars
    <3>. QED BY <3>1, <3>2, <3>3, <3>4 DEF Next
  <2>2. \A m \in Ids : out'[m]["next"] = out[m]["next"]
    <3>1. ASSUME NEW n \in Ids, out' = Added({n}, {"dlq"})
          PROVE  \A m \in Ids : out'[m]["next"] = out[m]["next"]
      BY <1>d, <3>1 DEF Added
    <3>. QED BY <2>1, <3>1
  <2>. QED BY <2>2
<1>. QED BY <1>1, <1>2

\* The reports are what they are.
LEMMA ReportsFixed == [Next]_vars => UNCHANGED reportVars
<1>. SUFFICES ASSUME [Next]_vars PROVE UNCHANGED reportVars
  OBVIOUS
<1>1. ASSUME NEW c \in Consumers, Handle(c) PROVE UNCHANGED reportVars
  BY <1>1
  DEF Handle, IsTerminal, AddResult, IsTerminalAfterMissing, PersistProgress,
      IsFinalizationCommitted, ClaimFinalization, IsCommittedAfterClaim, LoadMeta,
      IsTerminalAfterGone, LoadItems, HandoffToRunAndCommit, CommitFinalization,
      MarkTerminal, DiscardGroup, ReleaseFinalizationClaim, Ack, LeaveOrDlq, Reads
<1>2. ASSUME NEW c \in Consumers, Take(c) \/ CancelHandler(c) \/ StoreFails(c) \/ Exit(c)
      PROVE UNCHANGED reportVars
  BY <1>2 DEF Take, CancelHandler, StoreFails, Exit
<1>3. CASE (\E m \in Ids : LeaseExpires(m)) \/ ClaimExpires \/ ChildReports \/ InitGroup
           \/ UNCHANGED vars
  BY <1>3 DEF LeaseExpires, ClaimExpires, ChildReports, InitGroup, vars
<1>. QED BY <1>1, <1>2, <1>3 DEF Next

\* The stream delivers more and more reports: what justified a handoff still does.
LEMMA ReadyStays ==
  ASSUME Base, [Next]_vars
  PROVE  \A S \in SUBSET Ids : Ready(S) => Ready(S)'
<1>1. child' = child /\ bad' = bad /\ bad \in SUBSET Ids
  BY ReportsFixed DEF reportVars, Base, CollectTypeOK
<1>2. cursor \in Nat /\ cursor' \in Nat /\ cursor <= cursor'
  BY CollectCursor
<1>3. \A n \in Ids : n <= cursor => n <= cursor'
  BY SMTT(30), <1>2, StreamGroupAssumption DEF Ids
<1>. QED BY <1>1, <1>3 DEF Ready, Hit, Of

\* The finalization invariant holds of the freshly initialized group.
LEMMA FinInit == Init /\ delayed = "done" => FinInv
<1>. SUFFICES ASSUME Init, delayed = "done" PROVE FinInv
  OBVIOUS
<1>d. "next" \in Dest /\ "dlq" \in Dest
  BY DEF Dest
<1>1. Handed = {} /\ acked = {}
  BY SMTT(30), <1>d DEF Init, GroupInit, Handed
<1>2. StoreInv
  BY <1>1 DEF Init, StoreInv, Distinct
<1>3. ReportInv
  BY <1>1 DEF Init, ReportInv
<1>4. \A c \in Consumers : PlaceInv(c)
  BY DEF Init, PlaceInv
<1>. QED BY <1>2, <1>3, <1>4 DEF FinInv

\* The commit itself: the claim the script checks is what makes it the first.
LEMMA FinCommit ==
  ASSUME Base, [Next]_vars, FinInv, NEW c \in Consumers, HandoffToRunAndCommit(c),
         fin = "claimed", owner = c, pel[msg[c]] = c,
         msg[c] \in Ids, Handed' = Handed \cup {msg[c]}
  PROVE  FinInv'
<1>. USE DEF FinInv
<1>1. /\ fin' = "committed" /\ stage' = "next" /\ aggregates' = aggregates \cup {snap[c]}
      /\ at[c] = "handoff"
      /\ UNCHANGED <<group, collected, terminal, delayed>>
  BY DEF HandoffToRunAndCommit, GuardedHandoff
<1>2. Ready(snap[c])
  BY <1>1 DEF PlaceInv
<1>3. StoreInv'
  <2>1. Handed = {}
    BY DEF StoreInv
  <2>2. \A a \in aggregates' : Ready(a)
    BY <1>1, <1>2 DEF StoreInv
  <2>3. aggregates' \in SUBSET SUBSET Ids
    BY BaseNext DEF Base, CollectTypeOK
  <2>4. \A a \in aggregates' : Ready(a)'
    BY <2>2, <2>3, ReadyStays
  <2>5. Distinct(collected)'
    BY <1>1, ReportsFixed DEF StoreInv, Distinct, reportVars
  <2>. QED BY <1>1, <2>1, <2>4, <2>5 DEF StoreInv
<1>4. ReportInv'
  BY <1>1 DEF ReportInv
<1>5. \A d \in Consumers : PlaceInv(d)'
  BY <1>1 DEF PlaceInv
<1>. QED BY <1>3, <1>4, <1>5

\* After the commit only the cleanup changes the store.
LEMMA FinAfter ==
  ASSUME Base, [Next]_vars, FinInv, fin = "committed", Handed' = Handed
  PROVE  FinInv'
<1>. USE DEF FinInv
<1>d. delayed = "done"
  BY DEF StoreInv
<1>1. /\ fin' = "committed" /\ UNCHANGED <<delayed, aggregates>>
      /\ collected' \subseteq collected
  <2>1. ASSUME NEW c \in Consumers, Handle(c) PROVE <1>1
    BY <2>1
    DEF Handle, IsTerminal, AddResult, IsTerminalAfterMissing, PersistProgress,
        IsFinalizationCommitted, ClaimFinalization, IsCommittedAfterClaim, LoadMeta,
        IsTerminalAfterGone, LoadItems, HandoffToRunAndCommit, CommitFinalization,
        MarkTerminal, DiscardGroup, ReleaseFinalizationClaim, Ack, LeaveOrDlq,
        Reads, storeVars
  <2>2. ASSUME NEW c \in Consumers, Take(c) \/ CancelHandler(c) \/ StoreFails(c) \/ Exit(c)
        PROVE <1>1
    BY <2>2 DEF Take, CancelHandler, StoreFails, Exit, storeVars
  <2>3. ASSUME NEW m \in Ids, LeaseExpires(m) PROVE <1>1
    BY <2>3 DEF LeaseExpires, storeVars
  <2>4. CASE ChildReports \/ ClaimExpires \/ InitGroup \/ UNCHANGED vars
    BY <1>d, <2>4 DEF ChildReports, ClaimExpires, InitGroup, vars, storeVars
  <2>. QED BY <2>1, <2>2, <2>3, <2>4 DEF Next
<1>2. StoreInv'
  <2>1. aggregates \in SUBSET SUBSET Ids
    BY DEF Base, CollectTypeOK
  <2>2. \A a \in aggregates' : Ready(a)'
    BY <1>1, <2>1, ReadyStays DEF StoreInv
  <2>3. Distinct(collected)'
    BY <1>1, ReportsFixed DEF StoreInv, Distinct, reportVars
  <2>. QED BY <1>1, <2>2, <2>3 DEF StoreInv
<1>3. ReportInv'
  BY <1>1 DEF ReportInv
<1>4. \A d \in Consumers : PlaceInv(d)'
  BY <1>1 DEF PlaceInv
<1>. QED BY <1>2, <1>3, <1>4

\* Results are only added before the commit, so what a worker was entitled to
\* do, and what was kept, stays so.
LEMMA Grows ==
  ASSUME Base, Base', [Next]_vars, collected \subseteq collected'
  PROVE  /\ Ready(collected) => Ready(collected)'
         /\ \A m \in Ids : Kept(m) => Kept(m)'
<1>1. child' = child /\ bad' = bad /\ bad \in SUBSET Ids
  BY ReportsFixed DEF reportVars, Base, CollectTypeOK
<1>2. cursor \in Nat /\ cursor' \in Nat /\ cursor <= cursor'
  BY CollectCursor
<1>3. \A n \in Ids : n <= cursor => n <= cursor'
  BY SMTT(30), <1>2, StreamGroupAssumption DEF Ids
<1>4. Of(collected) \subseteq Of(collected)'
  BY <1>1 DEF Of
<1>5. Of(collected)' \subseteq Children
  BY SMTT(30) DEF Of, Base, CollectTypeOK
<1>6. Hit(collected) => Hit(collected)'
  BY <1>1, <1>3, <1>4 DEF Hit
<1>. QED BY <1>1, <1>4, <1>5, <1>6 DEF Ready, Kept

\* A worker that did not move keeps its invariant while results are added.
LEMMA OtherPlaces ==
  ASSUME Base, Base', [Next]_vars, NEW c \in Consumers, PlaceInv(c),
         fin # "committed", fin' # "committed", collected \subseteq collected',
         at'[c] = at[c], msg'[c] = msg[c], count'[c] = count[c], snap'[c] = snap[c]
  PROVE  PlaceInv(c)'
<1>1. at[c] \notin Away => msg[c] \in Ids
  BY HeldMessage
<1>2. child' = child /\ bad' = bad
  BY ReportsFixed DEF reportVars
<1>3. ShouldFinalize(c)' <=> ShouldFinalize(c)
  BY <1>2 DEF ShouldFinalize
<1>4. Ready(snap[c]) => Ready(snap[c])'
  <2>1. snap[c] \in SUBSET Ids
    BY DEF Base, CollectTypeOK
  <2>. QED BY <2>1, ReadyStays DEF Ready, Hit, Of
<1>5. msg[c] \in Ids => (Kept(msg[c]) => Kept(msg[c])')
  BY Grows DEF Kept
<1>6. Ready(collected) => Ready(collected)'
  BY Grows
<1>. QED BY <1>1, <1>2, <1>3, <1>4, <1>5, <1>6 DEF PlaceInv, Away

\* Before the commit: reports are appended, claims come and go.
LEMMA FinBefore ==
  ASSUME Base, [Next]_vars, FinInv, fin # "committed", Handed' = Handed,
         ~(\E c \in Consumers : HandoffToRunAndCommit(c) /\ fin = "claimed"
                                 /\ owner = c /\ pel[msg[c]] = c)
  PROVE  FinInv'
<1>. USE DEF FinInv
<1>a. Base'
  BY BaseNext
<1>b. cursor \in Nat /\ cursor' \in Nat /\ cursor <= cursor'
  BY CollectCursor
<1>c. /\ delayed = "done" /\ Handed = {} /\ group /\ ~terminal /\ stage # "next"
      /\ fin = "claimed" => Ready(collected)
  BY DEF StoreInv, Base, CollectTypeOK
<1>d. \A c \in Consumers : at[c] \notin {"commit", "mark", "discard", "drop"}
  BY DEF PlaceInv
<1>r. child' = child /\ bad' = bad
  BY ReportsFixed DEF reportVars
<1>g. ASSUME collected \subseteq collected'
      PROVE  /\ Ready(collected) => Ready(collected)'
             /\ \A m \in acked : Kept(m) => Kept(m)'
             /\ \A c \in Consumers : at[c] \notin Away /\ msg'[c] = msg[c] =>
                  (Kept(msg[c]) => Kept(msg[c])')
  <2>1. acked \subseteq Ids
    BY DEF Base, GroupInv, GroupTypeOK
  <2>2. \A c \in Consumers : at[c] \notin Away => msg[c] \in Ids
    BY HeldMessage
  <2>3. /\ Ready(collected) => Ready(collected)'
        /\ \A m \in Ids : Kept(m) => Kept(m)'
    BY <1>a, <1>g, Grows
  <2>4. \A c \in Consumers : at[c] \notin Away /\ msg'[c] = msg[c] =>
          (Kept(msg[c]) => Kept(msg[c])')
    BY <2>2, <2>3 DEF Kept
  <2>. QED BY <2>1, <2>3, <2>4
<1>h. UNCHANGED aggregates => \A a \in aggregates' : Ready(a)'
  <2>1. aggregates \in SUBSET SUBSET Ids
    BY DEF Base, CollectTypeOK
  <2>. QED BY <2>1, ReadyStays DEF StoreInv
<1>. DEFINE Same == UNCHANGED <<delayed, group, terminal, aggregates, collected, acked>>
            Elsewhere(c) == \A d \in Consumers \ {c} :
              at'[d] = at[d] /\ msg'[d] = msg[d] /\ count'[d] = count[d] /\ snap'[d] = snap[d]
\* The part common to all steps that neither append nor acknowledge.
<1>q. ASSUME Same, stage' # "next", fin' # "committed",
             fin' = "claimed" => fin = "claimed" \/ Ready(collected)
      PROVE  StoreInv' /\ ReportInv'
  <2>1. Distinct(collected)'
    BY <1>q, <1>r DEF StoreInv, Distinct
  <2>2. StoreInv'
    BY <1>c, <1>g, <1>h, <1>q, <2>1 DEF StoreInv
  <2>3. ReportInv'
    BY <1>g, <1>q, <1>r DEF ReportInv
  <2>. QED BY <2>2, <2>3
<1>p. ASSUME NEW c \in Consumers, Elsewhere(c), fin' # "committed",
             collected \subseteq collected', PlaceInv(c)'
      PROVE  \A d \in Consumers : PlaceInv(d)'
  BY <1>a, <1>p, OtherPlaces
<1>w. WorkerOK
  BY TypeParts DEF Base
<1>1. ASSUME NEW c \in Consumers, Handle(c) PROVE FinInv'
  <2>1. CASE IsTerminal(c) \/ IsTerminalAfterMissing(c) \/ IsFinalizationCommitted(c)
             \/ LoadMeta(c) \/ IsTerminalAfterGone(c)
    <3>1. Same /\ UNCHANGED <<fin, stage, msg, count, snap>>
      BY <2>1 DEF IsTerminal, IsTerminalAfterMissing, IsFinalizationCommitted, LoadMeta,
                  IsTerminalAfterGone, Reads, storeVars, groupVars
    <3>2. Elsewhere(c)
      BY <1>w, <2>1, <3>1 DEF IsTerminal, IsTerminalAfterMissing, IsFinalizationCommitted,
                  LoadMeta, IsTerminalAfterGone, Goto, WorkerOK
    <3>3. PlaceInv(c)'
      <4>1. /\ ShouldFinalize(c)' <=> ShouldFinalize(c)
            /\ Ready(collected) => Ready(collected)'
            /\ at[c] \notin Away => (Kept(msg[c]) => Kept(msg[c])')
        BY <1>g, <1>r, <3>1 DEF ShouldFinalize
      <4>2. \/ at[c] = "terminal?" /\ at'[c] = "append"
            \/ at[c] = "missing?" /\ at'[c] = "err"
            \/ at[c] = "committed?" /\ ShouldFinalize(c) /\ at'[c] = "claim"
            \/ at[c] = "committed?" /\ ~ShouldFinalize(c) /\ at'[c] = "ok"
            \/ at[c] = "meta" /\ at'[c] = "items"
            \/ at[c] = "gone?" /\ at'[c] = "release"
        BY <1>c, <1>w, <2>1 DEF IsTerminal, IsTerminalAfterMissing, IsFinalizationCommitted,
                    LoadMeta, IsTerminalAfterGone, Goto, WorkerOK
      <4>3. ~ShouldFinalize(c) => ~(FailFast /\ msg[c] \in bad)
        BY DEF ShouldFinalize
      <4>. QED BY <1>r, <3>1, <4>1, <4>2, <4>3 DEF PlaceInv, Away
    <3>. QED BY <1>c, <1>p, <1>q, <3>1, <3>2, <3>3
  <2>2. CASE AddResult(c)
    <3>1. /\ UNCHANGED <<delayed, group, terminal, aggregates, acked, fin, stage, msg, snap, cursor>>
          /\ collected \subseteq collected' /\ at[c] = "append"
      BY <2>2 DEF AddResult, groupVars
    <3>2. Elsewhere(c)
      BY <1>w, <2>2, <3>1 DEF AddResult, Goto, WorkerOK
    <3>3. at'[c] \in {"progress", "committed?"} /\ count'[c] = Cardinality(collected')
      BY <1>c, <1>w, <2>2 DEF AddResult, Goto, WorkerOK
    <3>4. msg[c] \in Ids /\ msg[c] <= cursor /\ child[msg[c]] \in Children
      BY SMTT(30), <1>b, <3>1, HeldMessage DEF Away, Base, CollectTypeOK
    <3>5. child[msg[c]] \in Of(collected)' \/ fin = "claimed"
      BY <1>c, <1>r, <2>2 DEF AddResult, Of, Base, CollectTypeOK
    <3>6. fin = "claimed" => Ready(collected)'
      BY <1>c, <1>g, <3>1
    <3>7. Kept(msg[c])'
      BY <1>r, <3>1, <3>4, <3>5, <3>6 DEF Kept, Ready
    <3>8. Distinct(collected)'
      <4>1. \/ collected' = collected
            \/ collected' = collected \cup {msg[c]} /\ child[msg[c]] \notin Of(collected)
        BY <2>2 DEF AddResult
      <4>. QED BY <1>r, <4>1 DEF StoreInv, Distinct, Of
    <3>9. ShouldFinalize(c)' => Ready(collected)'
      <4>1. ASSUME count'[c] >= Cardinality(Children) PROVE Ready(collected)'
        <5>1. collected' \in SUBSET Ids /\ child' \in [Ids -> Children]
          BY <1>a DEF Base, CollectTypeOK
        <5>2. Of(collected') = Children
          <6>1. child \in [Ids -> Children] /\ Distinct(collected')
            BY <1>r, <3>8, <5>1 DEF Distinct
          <6>. QED BY <3>3, <4>1, <5>1, <6>1, ResultsCount
        <5>. QED BY <1>r, <5>2 DEF Ready, Of
      <4>2. ASSUME FailFast, msg'[c] \in bad' PROVE Ready(collected)'
        BY <1>r, <3>1, <3>4, <3>5, <3>6, <4>2 DEF Ready, Hit
      <4>. QED BY <4>1, <4>2 DEF ShouldFinalize
    <3>10. PlaceInv(c)'
      BY <3>3, <3>7, <3>9 DEF PlaceInv
    <3>11. StoreInv'
      BY <1>c, <1>h, <3>1, <3>6, <3>8 DEF StoreInv
    <3>12. ReportInv'
      BY <1>g, <1>r, <3>1 DEF ReportInv
    <3>. QED BY <1>p, <3>1, <3>2, <3>10, <3>11, <3>12
  <2>3. CASE PersistProgress(c) \/ ClaimFinalization(c)
    <3>1. Same /\ UNCHANGED <<msg, count, snap>> /\ fin' # "committed" /\ stage' # "next"
      BY <1>c, <2>3 DEF PersistProgress, ClaimFinalization, groupVars
    <3>2. Elsewhere(c)
      BY <1>w, <2>3, <3>1 DEF PersistProgress, ClaimFinalization, Goto, WorkerOK
    <3>3. fin' = "claimed" => fin = "claimed" \/ Ready(collected)
      BY <2>3 DEF PersistProgress, ClaimFinalization, PlaceInv
    <3>4. PlaceInv(c)'
      <4>1. /\ ShouldFinalize(c)' <=> ShouldFinalize(c)
            /\ Ready(collected) => Ready(collected)'
            /\ at[c] \notin Away => (Kept(msg[c]) => Kept(msg[c])')
        BY <1>g, <1>r, <3>1 DEF ShouldFinalize
      <4>2. \/ at[c] = "progress" /\ at'[c] = "committed?"
            \/ at[c] = "claim" /\ at'[c] \in {"meta", "blocked?"}
        BY <1>w, <2>3 DEF PersistProgress, ClaimFinalization, Goto, WorkerOK
      <4>. QED BY <1>r, <3>1, <4>1, <4>2 DEF PlaceInv, Away
    <3>. QED BY <1>p, <1>q, <3>1, <3>2, <3>3, <3>4
  <2>4. CASE LoadItems(c)
    <3>1. Same /\ UNCHANGED <<fin, stage, msg, count>> /\ at[c] = "items"
          /\ at'[c] = "handoff" /\ snap'[c] = collected
      BY <1>w, <2>4 DEF LoadItems, Goto, WorkerOK, storeVars, groupVars
    <3>2. Elsewhere(c)
      BY <1>w, <2>4 DEF LoadItems, Goto, WorkerOK
    <3>3. PlaceInv(c)'
      <4>1. Ready(collected)'
        BY <1>g, <3>1 DEF PlaceInv
      <4>. QED BY <3>1, <4>1 DEF PlaceInv, Ready, Hit, Of
    <3>. QED BY <1>c, <1>p, <1>q, <3>1, <3>2, <3>3
  <2>5. CASE HandoffToRunAndCommit(c)
    <3>1. Same /\ UNCHANGED <<fin, stage, msg, count, snap>>
      BY <1>1, <2>5 DEF HandoffToRunAndCommit, groupVars
    <3>2. Elsewhere(c) /\ at'[c] \in {"yield", "release"}
      BY <1>w, <2>5, <3>1 DEF HandoffToRunAndCommit, Goto, WorkerOK
    <3>3. PlaceInv(c)'
      BY <3>2 DEF PlaceInv
    <3>. QED BY <1>c, <1>p, <1>q, <3>1, <3>2, <3>3
  <2>6. CASE IsCommittedAfterClaim(c) \/ ReleaseFinalizationClaim(c)
    <3>1. Same /\ UNCHANGED stage /\ fin' # "committed" /\ (fin' = "claimed" => fin = "claimed")
      BY <2>6 DEF IsCommittedAfterClaim, ReleaseFinalizationClaim, storeVars, groupVars
    <3>2. Elsewhere(c) /\ at'[c] \in {"idle", "err"}
      BY <1>w, <2>6 DEF IsCommittedAfterClaim, ReleaseFinalizationClaim, Leave, Goto, WorkerOK
    <3>3. PlaceInv(c)'
      BY <3>2 DEF PlaceInv
    <3>. QED BY <1>c, <1>p, <1>q, <3>1, <3>2, <3>3
  <2>7. CASE Ack(c)
    <3>1. /\ UNCHANGED <<delayed, group, terminal, aggregates, collected, fin, stage>>
          /\ acked' \subseteq acked \cup {msg[c]} /\ at[c] = "ok"
      BY <2>7 DEF Ack, AckMessage, storeVars
    <3>2. Elsewhere(c) /\ at'[c] = "idle"
      BY <1>w, <2>7 DEF Ack, Leave, Goto, WorkerOK
    <3>3. PlaceInv(c)'
      BY <3>2 DEF PlaceInv
    <3>4. StoreInv'
      <4>1. Distinct(collected)'
        BY <1>r, <3>1 DEF StoreInv, Distinct
      <4>. QED BY <1>c, <1>g, <1>h, <3>1, <4>1 DEF StoreInv
    <3>5. ReportInv'
      <4>1. \A m \in acked' : Kept(m) /\ ~(FailFast /\ m \in bad)
        BY <3>1 DEF ReportInv, PlaceInv
      <4>2. acked' \subseteq Ids
        BY <1>a DEF Base, GroupInv, GroupTypeOK
      <4>3. \A m \in Ids : Kept(m) => Kept(m)'
        BY <1>a, <3>1, Grows
      <4>. QED BY <1>r, <4>1, <4>2, <4>3 DEF ReportInv
    <3>. QED BY <1>p, <3>1, <3>2, <3>3, <3>4, <3>5
  <2>8. CASE LeaveOrDlq(c)
    <3>1. Same /\ UNCHANGED <<fin, stage>>
      BY <2>8 DEF LeaveOrDlq, HandoffAndAck, storeVars, groupVars
    <3>2. Elsewhere(c) /\ at'[c] = "idle"
      BY <1>w, <2>8 DEF LeaveOrDlq, Leave, Goto, WorkerOK
    <3>3. PlaceInv(c)'
      BY <3>2 DEF PlaceInv
    <3>. QED BY <1>c, <1>p, <1>q, <3>1, <3>2, <3>3
  <2>9. ~(CommitFinalization(c) \/ MarkTerminal(c) \/ DiscardGroup(c))
    BY <1>d DEF CommitFinalization, MarkTerminal, DiscardGroup
  <2>. QED
    BY <1>1, <2>1, <2>2, <2>3, <2>4, <2>5, <2>6, <2>7, <2>8, <2>9 DEF Handle
<1>2. ASSUME NEW c \in Consumers, Take(c) \/ CancelHandler(c) \/ StoreFails(c) \/ Exit(c)
      PROVE FinInv'
  <2>1. Same /\ UNCHANGED <<fin, stage>>
    BY <1>2 DEF Take, CancelHandler, StoreFails, Exit, ReadMessages, ClaimIdleMessages,
                storeVars, groupVars
  <2>2. Elsewhere(c)
    BY <1>w, <1>2 DEF Take, CancelHandler, StoreFails, Exit, Leave, Goto, WorkerOK
  <2>3. at'[c] \in {"terminal?", "idle", "down", "release", "err"}
    BY <1>w, <1>2 DEF Take, CancelHandler, StoreFails, Exit, Leave, Goto, WorkerOK
  <2>4. PlaceInv(c)'
    BY <2>3 DEF PlaceInv
  <2>. QED BY <1>c, <1>p, <1>q, <2>1, <2>2, <2>4
<1>3. CASE (\E m \in Ids : LeaseExpires(m)) \/ ClaimExpires \/ ChildReports \/ InitGroup
           \/ UNCHANGED vars
  <2>1. /\ Same /\ UNCHANGED <<stage, at, msg, count, snap>> /\ fin' # "committed"
        /\ fin' = "claimed" => fin = "claimed"
    BY <1>3, <1>c DEF LeaseExpires, LeaseTimeout, ClaimExpires, ChildReports, EnqueueToStream,
                InitGroup, vars, workerVars, storeVars, groupVars
  <2>2. \A d \in Consumers : PlaceInv(d)'
    BY <1>a, <2>1, OtherPlaces
  <2>. QED BY <1>c, <1>q, <2>1, <2>2
<1>. QED BY <1>1, <1>2, <1>3 DEF Next

\* Every step keeps the finalization invariant.
LEMMA FinNext == Base /\ FinInv /\ [Next]_vars => FinInv'
<1>. SUFFICES ASSUME Base, FinInv, [Next]_vars PROVE FinInv'
  OBVIOUS
<1>1. CASE /\ Handed' = Handed
           /\ ~(\E c \in Consumers : HandoffToRunAndCommit(c) /\ fin = "claimed"
                                       /\ owner = c /\ pel[msg[c]] = c)
  BY <1>1, FinAfter, FinBefore
<1>. QED BY <1>1, HandedStep, FinCommit

\* The finalization invariant holds for any number of workers, reports and
\* faults, with claims and leases that may expire under a live worker.
THEOREM FinInvariance == delayed = "done" /\ Spec => [](Base /\ FinInv)
<1>1. Base /\ FinInv /\ [Next]_vars => (Base /\ FinInv)'
  BY BaseNext, FinNext
<1>2. Init /\ delayed = "done" => Base /\ FinInv
  BY BaseInit, FinInit
<1>. QED BY <1>1, <1>2, PTL DEF Spec

\* Single finalizer: the owner token and the consumer fence of the guarded
\* handoff let at most one worker hand the parent on, once.
THEOREM CollectSingleFinalizer == delayed = "done" /\ Spec => []SingleFinalizer
<1>1. Base /\ FinInv => SingleFinalizer
  <2>. SUFFICES ASSUME Base, FinInv PROVE SingleFinalizer
    OBVIOUS
  <2>1. \A m \in Ids : out[m]["next"] <= 1
    BY DEF Base, GroupInv, ExactlyOnceHandoff, Dest
  <2>. QED BY <2>1 DEF FinInv, StoreInv, SingleFinalizer
<1>. QED BY <1>1, FinInvariance, PTL

\* The aggregate handed off covers every child, or fail_fast stopped for a
\* failure reported of a child in it, although load_group reads it in two
\* commands, claims expire and children are reported repeatedly.
THEOREM CollectAggregateComplete == delayed = "done" /\ Spec => []AggregateComplete
<1>1. FinInv => AggregateComplete
  BY DEF FinInv, StoreInv, Ready, Hit, AggregateComplete
<1>. QED BY <1>1, FinInvariance, PTL

\* When all reports of a child agree, an aggregate that fail_fast cut short
\* holds the failure itself: only conflicting reports can hide it.
THEOREM CollectShowsFailure ==
  ReportsAgree /\ delayed = "done" /\ Spec => []AggregateShowsFailure
<1>1. ReportsAgree /\ [Next]_vars => ReportsAgree'
  BY ReportsFixed DEF ReportsAgree, reportVars
<1>2. Base /\ FinInv /\ ReportsAgree => AggregateShowsFailure
  <2>. SUFFICES ASSUME Base, FinInv, ReportsAgree, NEW a \in aggregates, Of(a) # Children
       PROVE  FailFast /\ a \cap bad # {}
    BY DEF AggregateShowsFailure
  <2>1. a \subseteq Ids /\ bad \subseteq Ids
    BY DEF Base, CollectTypeOK
  <2>2. PICK n \in bad : FailFast /\ child[n] \in Of(a)
    BY DEF FinInv, StoreInv, Ready, Hit
  <2>3. PICK m \in a : child[m] = child[n]
    BY <2>2 DEF Of
  <2>. QED BY <2>1, <2>2, <2>3 DEF ReportsAgree
<1>. QED BY <1>1, <1>2, FinInvariance, PTL DEF Spec

\* The parent is marked terminal only after its handoff.
THEOREM CollectTerminalAfterHandoff == delayed = "done" /\ Spec => []TerminalAfterHandoff
<1>1. FinInv => TerminalAfterHandoff
  BY DEF FinInv, StoreInv, TerminalAfterHandoff
<1>. QED BY <1>1, FinInvariance, PTL

\* A report that was acknowledged is not lost while the parent waits; fail_fast
\* drops one only for a failure report that is pending or in the DLQ.
THEOREM CollectKeepsReports == delayed = "done" /\ Spec => []ReportsKept
<1>1. Base /\ FinInv => ReportsKept
  <2>. SUFFICES ASSUME Base, FinInv, Handed = {}, NEW m \in acked, child[m] \notin Of(collected)
       PROVE  FailFast /\ \E n \in bad : n \in Pending \/ out[n]["dlq"] > 0
    BY DEF ReportsKept
  <2>1. fin # "committed" /\ Hit(collected)
    BY DEF FinInv, StoreInv, ReportInv, Kept
  <2>2. PICK n \in bad : FailFast /\ n <= cursor
    BY <2>1 DEF Hit
  <2>3. n \in Ids /\ n \notin acked
    BY <2>1, <2>2 DEF FinInv, ReportInv, Base, CollectTypeOK
  <2>4. ~(out[n]["next"] > 0)
    BY <2>3 DEF Handed
  <2>5. ASSUME ~(out[n]["dlq"] > 0) PROVE n \in Pending
    <3>1. ~Settled(n)
      BY <2>3, <2>4, <2>5 DEF Settled, Standing, Dest
    <3>. QED BY <2>2, <2>3, <3>1 DEF Base, GroupInv, NothingLost
  <2>. QED BY <2>2, <2>5
<1>. QED BY <1>1, FinInvariance, PTL

\* A late progress write never takes a parent that moved on back to executing.
THEOREM CollectStageNeverRegresses == delayed = "done" /\ Spec => StageNeverRegresses
<1>1. Base /\ FinInv /\ [Next]_vars => [StageStays]_vars
  <2>. SUFFICES ASSUME Base, FinInv, [Next]_vars, stage = "next" PROVE stage' = "next"
    BY DEF StageStays
  <2>1. fin = "committed" /\ delayed = "done"
    BY DEF FinInv, StoreInv
  <2>2. ASSUME NEW c \in Consumers, Handle(c) PROVE stage' = "next"
    BY <2>1, <2>2
    DEF Handle, IsTerminal, AddResult, IsTerminalAfterMissing, PersistProgress,
        IsFinalizationCommitted, ClaimFinalization, IsCommittedAfterClaim, LoadMeta,
        IsTerminalAfterGone, LoadItems, HandoffToRunAndCommit, CommitFinalization,
        MarkTerminal, DiscardGroup, ReleaseFinalizationClaim, Ack, LeaveOrDlq,
        Reads, storeVars
  <2>3. ASSUME NEW c \in Consumers, Take(c) \/ CancelHandler(c) \/ StoreFails(c) \/ Exit(c)
        PROVE stage' = "next"
    BY <2>3 DEF Take, CancelHandler, StoreFails, Exit, storeVars
  <2>4. CASE (\E m \in Ids : LeaseExpires(m)) \/ ClaimExpires \/ ChildReports \/ InitGroup
             \/ UNCHANGED vars
    BY <2>1, <2>4 DEF LeaseExpires, ChildReports, ClaimExpires, InitGroup, vars, storeVars
  <2>. QED BY <2>2, <2>3, <2>4 DEF Next
<1>. QED BY <1>1, FinInvariance, PTL DEF Spec, StageNeverRegresses
=============================================================================
