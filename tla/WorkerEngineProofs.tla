------------------------- MODULE WorkerEngineProofs -------------------------
(***************************************************************************)
(* Proofs about the worker engine, for every number of processes, batch    *)
(* size, retry limit and handler behaviour.                                *)
(***************************************************************************)
EXTENDS WorkerEngine, StreamGroupProofs

\* A leaf is tried with Zenon, then with SMT; leaves that need arithmetic or
\* the extensionality of functions go to SMT at once.
USE ZenonT(20), SMTT(30)

\* A process only refers to entries the group has delivered, and a process
\* past NextMessage has a current message.
Busy == {"handling", "stopping", "ack", "clear", "record", "dlq", "mark"}

Located ==
  \A c \in Consumers :
    /\ batch[c] \subseteq 1 .. cursor
    /\ cur[c] \in 0 .. cursor
    /\ pc[c] \in Busy => cur[c] # 0
    /\ \A m \in Ids : hb[c][m] # "off" => m <= cursor

EngineInv == GroupInv /\ TypeOK /\ Located

\* The engine starts in the invariant, its stream as the group starts.
LEMMA EngineInit == Init => EngineInv /\ GroupInit
<1>. SUFFICES ASSUME Init PROVE EngineInv
  BY DEF Init
<1>1. GroupInv /\ GroupTypeOK
  BY GroupInitInv DEF Init, GroupInv
<1>2. TypeOK
  BY SMTT(30), <1>1, WorkerEngineAssumption
  DEF Init, TypeOK, PC, Heartbeat, GuardState, Reply, Tally
<1>3. Located
  BY SMTT(30) DEF Init, Located, GroupInit, Busy
<1>. QED BY <1>1, <1>2, <1>3 DEF EngineInv

\* The steps of the loop and of the heartbeats are steps of an arbitrary
\* client of the group: the engine has no access to the stream but through
\* the operations of StreamGroup.
LEMMA EngineGroupStep ==
  ASSUME EngineInv, [Next]_vars
  PROVE  [GroupNext]_groupVars
<1>. USE DEF EngineInv
<1>0. \A c \in Consumers : pc[c] \in Busy => cur[c] \in 1 .. cursor
  BY SMTT(30), StreamGroupAssumption DEF Located, TypeOK, GroupTypeOK
<1>d. "next" \in Dest /\ "dlq" \in Dest
  BY DEF Dest
<1>1. ASSUME NEW c \in Consumers, Loop(c) PROVE [GroupNext]_groupVars
  <2>1. CASE ReclaimIdle(c)
    BY <2>1 DEF ReclaimIdle, GroupNext
  <2>2. CASE PollStream(c)
    BY <2>2 DEF PollStream, GroupNext
  <2>3. CASE RoleHandoff(c)
    <3>1. cur[c] \in 1 .. cursor /\ HandoffAndAck(cur[c], "next")
      BY <2>3, <1>0 DEF RoleHandoff, Handling, Busy
    <3>. QED BY <3>1, <1>d DEF GroupNext
  <2>4. CASE GuardedRun(c)
    <3>1. cur[c] \in 1 .. cursor /\ (GuardedHandoff(c, cur[c]) \/ UNCHANGED groupVars)
      BY <2>4, <1>0 DEF GuardedRun, Handling, Busy
    <3>. QED BY <3>1 DEF GroupNext
  <2>5. CASE Ack(c)
    <3>1. cur[c] \in 1 .. cursor /\ AckMessage(cur[c])
      BY <2>5, <1>0 DEF Ack, Busy
    <3>. QED BY <3>1 DEF GroupNext
  <2>6. CASE MoveToDlq(c)
    <3>1. cur[c] \in 1 .. cursor /\ (HandoffAndAck(cur[c], "dlq") \/ UNCHANGED groupVars)
      BY <2>6, <1>0 DEF MoveToDlq, Busy
    <3>. QED BY <3>1, <1>d DEF GroupNext
  <2>7. CASE \/ Start(c) \/ NextMessage(c) \/ GuardedStart(c) \/ GuardedFinish(c)
             \/ RoleReturn(c) \/ CancelHandler(c) \/ StopHeartbeat(c)
             \/ ClearFailureAttempt(c) \/ RecordFailureAttempt(c) \/ MarkRequestFailed(c)
    BY <2>7 DEF Start, NextMessage, GuardedStart, GuardedFinish, RoleReturn,
                CancelHandler, StopHeartbeat, ClearFailureAttempt,
                RecordFailureAttempt, MarkRequestFailed
  <2>. QED
    BY <1>1, <2>1, <2>2, <2>3, <2>4, <2>5, <2>6, <2>7 DEF Loop
<1>2. ASSUME NEW c \in Consumers, NEW m \in Ids, HeartbeatTick(c, m)
      PROVE [GroupNext]_groupVars
  <2>1. m \in 1 .. cursor /\ RenewMessageLease(c, m)
    BY SMTT(30), <1>2, StreamGroupAssumption DEF HeartbeatTick, Located, TypeOK, GroupTypeOK, Ids
  <2>. QED BY <2>1 DEF GroupNext
<1>3. ASSUME NEW c \in Consumers, NEW m \in Ids, HeartbeatResolve(c, m)
      PROVE UNCHANGED groupVars
  BY <1>3 DEF HeartbeatResolve
<1>4. ASSUME NEW m \in Ids, LeaseExpires(m) PROVE GroupNext
  BY <1>4 DEF LeaseExpires, GroupNext
<1>5. ASSUME NEW c \in Consumers, Exit(c) PROVE UNCHANGED groupVars
  BY <1>5 DEF Exit
<1>6. CASE Enqueue
  BY <1>6 DEF Enqueue, GroupNext
<1>7. CASE UNCHANGED vars
  BY <1>7 DEF vars
<1>. QED BY <1>1, <1>2, <1>3, <1>4, <1>5, <1>6, <1>7 DEF Next

\* Where the group's cursor and the current message are after a step.
LEMMA CursorGrows ==
  ASSUME EngineInv, [Next]_vars
  PROVE  /\ GroupInv'
         /\ cursor \in Nat /\ cursor' \in Nat /\ cursor <= cursor'
         /\ cursor' \in 0 .. MaxLen
<1>1. GroupInv /\ GroupInv'
  BY EngineGroupStep, GroupNextInv DEF EngineInv
<1>2. cursor \in Nat /\ cursor' \in Nat /\ cursor' \in 0 .. MaxLen
  BY SMTT(30), <1>1, StreamGroupAssumption DEF GroupInv, GroupTypeOK
<1>3. cursor <= cursor'
  <2>1. ASSUME NEW c \in Consumers, ReadMessages(c) PROVE cursor <= cursor'
    BY SMTT(30), <2>1, <1>1, <1>2, StreamGroupAssumption
    DEF ReadMessages, GroupInv, NothingLost, GroupTypeOK
  <2>2. [GroupNext]_groupVars
    BY EngineGroupStep
  <2>. QED
    BY SMTT(30), <1>1, <1>2, <2>1, <2>2, StepShape
<1>. QED BY <1>1, <1>2, <1>3

\* The engine's variables by what writes them: the loop and the heartbeats, and
\* the failure accounting.
LoopOK ==
  /\ pc \in [Consumers -> PC]
  /\ follow \in [Consumers -> {"poll", "reclaim"}]
  /\ batch \in [Consumers -> SUBSET Ids]
  /\ cur \in [Consumers -> Ids \cup {0}]
  /\ hb \in [Consumers -> [Ids -> Heartbeat]]
  /\ guard \in [Consumers -> GuardState]
  /\ reply \in [Consumers -> Reply]
  /\ Located

TallyOK ==
  /\ attempts \in [Ids -> Tally]
  /\ local \in [Consumers -> [Ids -> Tally]]
  /\ failed \in SUBSET Ids
  /\ failures \in [Ids -> Tally]
  /\ succeeded \in SUBSET Ids

\* The type invariant and Located, split by what the steps touch.
LEMMA TypeOKParts == TypeOK /\ Located <=> GroupTypeOK /\ LoopOK /\ TallyOK
  BY DEF TypeOK, LoopOK, TallyOK

\* Writing one field of one process's row of a table.
LEMMA SetCell ==
  ASSUME NEW A, NEW B, NEW T, NEW f \in [A -> [B -> T]],
         NEW a \in A, NEW b, NEW t \in T,
         NEW g, g = [f EXCEPT ![a][b] = t]
  PROVE  /\ g \in [A -> [B -> T]]
         /\ \A x \in A, y \in B : g[x][y] = IF x = a /\ y = b THEN t ELSE f[x][y]
<1>1. [f[a] EXCEPT ![b] = t] \in [B -> T]
  OBVIOUS
<1>2. g = [f EXCEPT ![a] = [f[a] EXCEPT ![b] = t]]
  OBVIOUS
<1>3. g \in [A -> [B -> T]]
  BY <1>1, <1>2
<1>4. \A x \in A, y \in B : g[x][y] = IF x = a /\ y = b THEN t ELSE f[x][y]
  BY <1>2
<1>. QED BY <1>3, <1>4

\* Facts about the cursor every case below uses.
Grown == /\ MaxLen \in Nat /\ cursor \in Nat /\ cursor' \in Nat
         /\ cursor <= cursor' /\ cursor' <= MaxLen

\* Located needs looking at only for the process that takes the step.
LEMMA LocatedStep ==
  ASSUME LoopOK, Grown, NEW c \in Consumers,
         \A d \in Consumers : d # c =>
           /\ pc'[d] = pc[d] /\ batch'[d] = batch[d] /\ cur'[d] = cur[d]
           /\ \A m \in Ids : hb'[d][m] = hb[d][m],
         batch'[c] \subseteq 1 .. cursor' \/ batch'[c] \subseteq batch[c],
         cur'[c] \in {0, cur[c]} \/ cur'[c] \in batch[c],
         pc'[c] \in Busy => cur'[c] # 0,
         \A m \in Ids : hb'[c][m] # "off" => hb[c][m] # "off" \/ m <= cursor'
  PROVE  Located'
<1>. USE DEF Grown
<1>0. 1 .. cursor \subseteq 1 .. cursor' /\ 0 .. cursor \subseteq 0 .. cursor'
      /\ 1 .. cursor' \subseteq 0 .. cursor'
  BY SMTT(30)
<1>. SUFFICES ASSUME NEW d \in Consumers
              PROVE /\ batch'[d] \subseteq 1 .. cursor'
                    /\ cur'[d] \in 0 .. cursor'
                    /\ pc'[d] \in Busy => cur'[d] # 0
                    /\ \A m \in Ids : hb'[d][m] # "off" => m <= cursor'
  BY DEF Located
<1>1. /\ batch[d] \subseteq 1 .. cursor /\ cur[d] \in 0 .. cursor
      /\ pc[d] \in Busy => cur[d] # 0
      /\ \A m \in Ids : hb[d][m] # "off" => m <= cursor
  BY DEF LoopOK, Located
<1>2. batch'[d] \subseteq 1 .. cursor'
  BY <1>0, <1>1
<1>3. cur'[d] \in 0 .. cursor'
  BY SMTT(30), <1>0, <1>1
<1>4. pc'[d] \in Busy => cur'[d] # 0
  BY <1>1
<1>5. \A m \in Ids : hb'[d][m] # "off" => m <= cursor'
  BY SMTT(30), <1>1 DEF Ids
<1>. QED BY <1>2, <1>3, <1>4, <1>5

\* A step that only moves a process's program counter, its handler's reply or
\* its guard.
LEMMA QuietLoop ==
  ASSUME LoopOK, Grown, NEW c \in Consumers, NEW p \in PC,
         pc' = [pc EXCEPT ![c] = p], p \in Busy => pc[c] \in Busy,
         follow' = follow, batch' = batch, cur' = cur, hb' = hb,
         guard' \in [Consumers -> GuardState], reply' \in [Consumers -> Reply]
  PROVE  LoopOK'
<1>1. Located'
  <2>1. pc'[c] \in Busy => cur'[c] # 0
    BY DEF LoopOK, Located
  <2>. QED BY <2>1, LocatedStep DEF LoopOK
<1>. QED BY <1>1 DEF LoopOK

\* The loop is done with its message.
LEMMA AdvanceLoop ==
  ASSUME LoopOK, Grown, NEW c \in Consumers, Advance(c)
  PROVE  LoopOK'
<1>1. /\ hb' \in [Consumers -> [Ids -> Heartbeat]]
      /\ \A x \in Consumers, y \in Ids :
           hb'[x][y] = IF x = c /\ y = cur[c] THEN "off" ELSE hb[x][y]
  <2>1. hb' = [hb EXCEPT ![c][cur[c]] = "off"]
    BY DEF Advance
  <2>2. hb \in [Consumers -> [Ids -> Heartbeat]] /\ "off" \in Heartbeat
    BY DEF LoopOK, Heartbeat
  <2>. QED BY <2>1, <2>2, SetCell
<1>2. /\ pc' \in [Consumers -> PC] /\ cur' \in [Consumers -> Ids \cup {0}]
      /\ guard' \in [Consumers -> GuardState] /\ reply' \in [Consumers -> Reply]
      /\ batch' = batch /\ follow' = follow
      /\ pc'[c] \notin Busy /\ cur'[c] = 0
      /\ \A d \in Consumers : d # c => pc'[d] = pc[d] /\ cur'[d] = cur[d]
  BY DEF Advance, Goto, LoopOK, PC, GuardState, Reply, Busy
<1>3. Located'
  BY SMTT(30), <1>1, <1>2, LocatedStep
<1>. QED BY <1>1, <1>2, <1>3 DEF LoopOK

\* A batch of delivered entries begins.
LEMMA BeginBatchLoop ==
  ASSUME LoopOK, Grown, NEW c \in Consumers, NEW S \in SUBSET Ids,
         S \subseteq 1 .. cursor', NEW f \in {"poll", "reclaim"}, BeginBatch(c, S, f)
  PROVE  LoopOK'
<1>1. /\ hb' \in [Consumers -> [Ids -> Heartbeat]]
      /\ \A m \in Ids : hb'[c][m] = IF m \in S THEN "on" ELSE "off"
      /\ \A d \in Consumers : d # c => hb'[d] = hb[d]
  <2>1. [m \in Ids |-> IF m \in S THEN "on" ELSE "off"] \in [Ids -> Heartbeat]
    BY DEF Heartbeat
  <2>. QED BY <2>1 DEF BeginBatch, LoopOK
<1>2. /\ pc' \in [Consumers -> PC] /\ batch' \in [Consumers -> SUBSET Ids]
      /\ follow' \in [Consumers -> {"poll", "reclaim"}]
      /\ cur' = cur /\ guard' = guard /\ reply' = reply
      /\ pc'[c] \notin Busy /\ batch'[c] = S
      /\ \A d \in Consumers : d # c => pc'[d] = pc[d] /\ batch'[d] = batch[d]
  BY DEF BeginBatch, Goto, LoopOK, PC, Busy
<1>3. \A m \in Ids : hb'[c][m] # "off" => m <= cursor'
  <2>1. \A m \in S : m <= cursor'
    BY SMTT(30) DEF Grown
  <2>. QED BY <1>1, <2>1
<1>4. Located'
  <2>1. \A d \in Consumers : d # c =>
          /\ pc'[d] = pc[d] /\ batch'[d] = batch[d] /\ cur'[d] = cur[d]
          /\ \A m \in Ids : hb'[d][m] = hb[d][m]
    BY <1>1, <1>2
  <2>2. /\ batch'[c] \subseteq 1 .. cursor' /\ cur'[c] \in {0, cur[c]}
        /\ pc'[c] \in Busy => cur'[c] # 0
        /\ \A m \in Ids : hb'[c][m] # "off" => hb[c][m] # "off" \/ m <= cursor'
    BY <1>2, <1>3
  <2>. QED BY <2>1, <2>2, LocatedStep
<1>. QED BY <1>1, <1>2, <1>4 DEF LoopOK

\* Every step of every process keeps the shape of the engine's state.
LEMMA EngineNextInv == EngineInv /\ [Next]_vars => EngineInv'
<1>. SUFFICES ASSUME EngineInv, [Next]_vars PROVE LoopOK' /\ TallyOK'
  BY CursorGrows, TypeOKParts DEF EngineInv, GroupInv, TypeOK, LoopOK, TallyOK
<1>a. LoopOK /\ TallyOK /\ GroupTypeOK
  BY TypeOKParts DEF EngineInv
<1>b. Grown
  BY SMTT(30), CursorGrows, StreamGroupAssumption DEF Grown
<1>c. 0 \in Tally /\ \A n \in Tally : Bump(n) \in Tally
  BY SMTT(30), WorkerEngineAssumption DEF Tally, Bump
<1>d. \A c \in Consumers : pc[c] \in Busy => cur[c] \in Ids
  BY <1>a DEF LoopOK, Located
<1>e. ASSUME UNCHANGED <<attempts, local, failed, failures, succeeded>> PROVE TallyOK'
  BY <1>a, <1>e DEF TallyOK
<1>. USE <1>a, <1>b
<1>1. ASSUME NEW c \in Consumers, Loop(c) PROVE LoopOK' /\ TallyOK'
  <2>1. CASE Start(c)
    BY <2>1, <1>e, QuietLoop DEF Start, Goto, PC, Busy, LoopOK
  <2>2. CASE ReclaimIdle(c)
    <3>1. IdleHead \in SUBSET Ids /\ IdleHead \subseteq 1 .. cursor'
      <4>1. IdleHead \subseteq idle /\ idle \subseteq Pending /\ Pending \subseteq 1 .. cursor
        BY SMTT(30) DEF IdleHead, EngineInv, GroupInv, NothingLost, GroupTypeOK, Pending, Ids, Grown
      <4>. QED BY SMTT(30), <4>1 DEF Grown, GroupTypeOK
    <3>. QED BY <2>2, <3>1, <1>e, BeginBatchLoop DEF ReclaimIdle, BeginBatch
  <2>3. CASE PollStream(c)
    <3>1. Unread \in SUBSET Ids /\ Unread \subseteq 1 .. cursor'
      BY SMTT(30), <2>3, StreamGroupAssumption
      DEF PollStream, ReadMessages, Unread, Ids, Grown, GroupTypeOK
    <3>. QED BY <2>3, <3>1, <1>e, BeginBatchLoop DEF PollStream, BeginBatch
  <2>4. CASE NextMessage(c)
    <3>1. TallyOK'
      BY <2>4, <1>e DEF NextMessage
    <3>2. PICK m \in batch[c] :
            /\ batch' = [batch EXCEPT ![c] = @ \ {m}]
            /\ IF hb[c][m] = "lost"
               THEN /\ Goto(c, IF batch[c] = {m} THEN follow[c] ELSE "dispatch")
                    /\ hb' = [hb EXCEPT ![c][m] = "off"]
                    /\ UNCHANGED cur
               ELSE /\ Goto(c, "handling")
                    /\ cur' = [cur EXCEPT ![c] = m]
                    /\ UNCHANGED hb
      BY <2>4 DEF NextMessage
    <3>3. m \in Ids /\ m # 0
      BY SMTT(30) DEF LoopOK, Ids
    <3>4. /\ hb' \in [Consumers -> [Ids -> Heartbeat]]
          /\ \A x \in Consumers, y \in Ids : hb'[x][y] = hb[x][y] \/ (x = c /\ hb'[x][y] = "off")
      <4>1. CASE hb[c][m] = "lost"
        <5>1. hb \in [Consumers -> [Ids -> Heartbeat]] /\ "off" \in Heartbeat
          BY DEF LoopOK, Heartbeat
        <5>2. hb' = [hb EXCEPT ![c][m] = "off"]
          BY <3>2, <4>1
        <5>3. /\ hb' \in [Consumers -> [Ids -> Heartbeat]]
              /\ \A x \in Consumers, y \in Ids :
                   hb'[x][y] = IF x = c /\ y = m THEN "off" ELSE hb[x][y]
          BY <5>1, <5>2, SetCell
        <5>. QED BY <5>3
      <4>2. CASE hb[c][m] # "lost"
        BY <3>2, <4>2 DEF LoopOK
      <4>. QED BY <4>1, <4>2
    <3>5. /\ pc' \in [Consumers -> PC]
          /\ \A d \in Consumers : d # c => pc'[d] = pc[d]
      BY <3>2 DEF Goto, PC, LoopOK
    <3>8. /\ batch' \in [Consumers -> SUBSET Ids] /\ batch'[c] \subseteq batch[c]
          /\ \A d \in Consumers : d # c => batch'[d] = batch[d]
      BY <3>2 DEF LoopOK
    <3>9. /\ cur' \in [Consumers -> Ids \cup {0}] /\ cur'[c] \in {cur[c], m}
          /\ \A d \in Consumers : d # c => cur'[d] = cur[d]
      BY <3>2, <3>3 DEF LoopOK
    <3>10. pc'[c] \in Busy => cur'[c] # 0
      <4>1. CASE hb[c][m] = "lost"
        BY <3>2, <4>1 DEF Goto, Busy, LoopOK
      <4>2. CASE hb[c][m] # "lost"
        BY <3>2, <3>3, <4>2 DEF LoopOK
      <4>. QED BY <4>1, <4>2
    <3>6. Located'
      BY SMTT(30), <3>2, <3>4, <3>5, <3>8, <3>9, <3>10, LocatedStep
    <3>7. UNCHANGED <<follow, guard, reply>>
      BY <2>4 DEF NextMessage
    <3>. QED BY <3>1, <3>4, <3>5, <3>6, <3>7, <3>8, <3>9 DEF LoopOK
  <2>5. CASE RoleHandoff(c)
    <3>1. reply' \in [Consumers -> Reply]
      BY <2>5 DEF RoleHandoff, LoopOK, Reply
    <3>2. pc' = [pc EXCEPT ![c] = pc[c]] /\ pc[c] \in PC
      BY <2>5 DEF RoleHandoff, LoopOK
    <3>. QED BY <2>5, <3>1, <3>2, <1>e, QuietLoop DEF RoleHandoff, LoopOK
  <2>6. CASE GuardedStart(c)
    <3>1. guard' \in [Consumers -> GuardState]
      BY <2>6 DEF GuardedStart, LoopOK, GuardState
    <3>2. pc' = [pc EXCEPT ![c] = pc[c]] /\ pc[c] \in PC
      BY <2>6 DEF GuardedStart, LoopOK
    <3>. QED BY <2>6, <3>1, <3>2, <1>e, QuietLoop DEF GuardedStart, LoopOK
  <2>7. CASE GuardedRun(c)
    <3>1. reply' \in [Consumers -> Reply]
      BY <2>7 DEF GuardedRun, LoopOK, Reply
    <3>2. pc' = [pc EXCEPT ![c] = pc[c]] /\ pc[c] \in PC
      BY <2>7 DEF GuardedRun, LoopOK
    <3>. QED BY <2>7, <3>1, <3>2, <1>e, QuietLoop DEF GuardedRun, LoopOK
  <2>8. CASE GuardedFinish(c)
    <3>1. guard' \in [Consumers -> GuardState]
      BY <2>8 DEF GuardedFinish, LoopOK, GuardState
    <3>2. pc' = [pc EXCEPT ![c] = pc[c]] /\ pc[c] \in PC
      BY <2>8 DEF GuardedFinish, LoopOK
    <3>. QED BY <2>8, <3>1, <3>2, <1>e, QuietLoop DEF GuardedFinish, LoopOK
  <2>9. CASE RoleReturn(c)
    <3>1. reply' \in [Consumers -> Reply]
      BY <2>9 DEF RoleReturn, LoopOK, Reply
    <3>2. pc[c] \in Busy /\ cur[c] \in Ids /\ "stopping" \in PC
      BY <2>9, <1>d DEF RoleReturn, Busy, PC
    <3>3. LoopOK'
      BY <2>9, <3>1, <3>2, QuietLoop DEF RoleReturn, Goto, LoopOK
    <3>4. TallyOK'
      BY SMTT(30), <2>9, <3>2, <1>c DEF RoleReturn, TallyOK
    <3>. QED BY <3>3, <3>4
  <2>10. CASE CancelHandler(c)
    BY <2>10, <1>e, AdvanceLoop DEF CancelHandler
  <2>11. CASE StopHeartbeat(c)
    <3>1. TallyOK'
      BY <2>11, <1>e DEF StopHeartbeat
    <3>2. CASE Advance(c)
      BY <3>1, <3>2, AdvanceLoop
    <3>3. CASE ~Advance(c)
      <4>1. PICK l \in {"ack", "clear", "record"} : Goto(c, l)
        BY <2>11, <3>3 DEF StopHeartbeat
      <4>2. /\ hb' = [hb EXCEPT ![c][cur[c]] = "off"]
            /\ UNCHANGED <<follow, batch, cur, guard, reply>>
        BY <2>11, <3>3 DEF StopHeartbeat
      <4>3. /\ hb' \in [Consumers -> [Ids -> Heartbeat]]
            /\ \A x \in Consumers, y \in Ids :
                 hb'[x][y] = IF x = c /\ y = cur[c] THEN "off" ELSE hb[x][y]
        <5>1. hb \in [Consumers -> [Ids -> Heartbeat]] /\ "off" \in Heartbeat
          BY DEF LoopOK, Heartbeat
        <5>. QED BY <4>2, <5>1, SetCell
      <4>4. /\ pc' \in [Consumers -> PC] /\ cur'[c] # 0
            /\ \A d \in Consumers : d # c => pc'[d] = pc[d]
        BY <2>11, <4>1, <4>2 DEF StopHeartbeat, Goto, PC, Busy, LoopOK, Located
      <4>5. Located'
        BY SMTT(30), <4>2, <4>3, <4>4, LocatedStep
      <4>. QED BY <3>1, <4>2, <4>3, <4>4, <4>5 DEF LoopOK
    <3>. QED BY <3>2, <3>3
  <2>12. CASE Ack(c)
    BY <2>12, <1>e, QuietLoop DEF Ack, Goto, PC, Busy, LoopOK
  <2>13. CASE ClearFailureAttempt(c)
    <3>1. LoopOK'
      BY <2>13, AdvanceLoop DEF ClearFailureAttempt
    <3>2. attempts' \in [Ids -> Tally]
      BY <2>13, <1>c DEF ClearFailureAttempt, TallyOK
    <3>3. local' \in [Consumers -> [Ids -> Tally]]
      <4>1. local' = [local EXCEPT ![c][cur[c]] = 0]
        BY <2>13 DEF ClearFailureAttempt
      <4>. QED BY <4>1, <1>c, SetCell DEF TallyOK
    <3>. QED BY <2>13, <3>1, <3>2, <3>3 DEF ClearFailureAttempt, TallyOK
  <2>14. CASE RecordFailureAttempt(c)
    <3>0. cur[c] \in Ids /\ pc[c] \in Busy
      BY <2>14, <1>d DEF RecordFailureAttempt, Busy
    <3>1. ASSUME NEW n, AfterRecord(c, n) PROVE LoopOK'
      <4>1. CASE Advance(c)
        BY <4>1, AdvanceLoop
      <4>2. CASE Goto(c, "dlq") /\ UNCHANGED <<follow, batch, cur, hb, guard, reply>>
        BY <4>2, <3>0, QuietLoop DEF Goto, PC, LoopOK
      <4>. QED BY <3>1, <4>1, <4>2 DEF AfterRecord
    <3>2. LoopOK'
      BY <2>14, <3>1 DEF RecordFailureAttempt
    <3>3. attempts' \in [Ids -> Tally]
      BY SMTT(30), <2>14, <3>0, <1>c DEF RecordFailureAttempt, TallyOK
    <3>4. local' \in [Consumers -> [Ids -> Tally]]
      <4>. DEFINE row == [local[c] EXCEPT ![cur[c]] = Bump(local[c][cur[c]])]
      <4>1. local' = local \/ local' = [local EXCEPT ![c] = row]
        <5>1. \/ local' = local
              \/ local' = [local EXCEPT ![c][cur[c]] = Bump(@)]
          BY <2>14 DEF RecordFailureAttempt
        <5>2. [local EXCEPT ![c][cur[c]] = Bump(@)] = [local EXCEPT ![c] = row]
          BY <3>0 DEF TallyOK
        <5>. QED BY <5>1, <5>2
      <4>2. Bump(local[c][cur[c]]) \in Tally
        BY <3>0, <1>c DEF TallyOK
      <4>3. row \in [Ids -> Tally]
        BY <4>2 DEF TallyOK
      <4>. HIDE DEF row
      <4>. QED BY <4>1, <4>3 DEF TallyOK
    <3>. QED BY <2>14, <3>2, <3>3, <3>4 DEF RecordFailureAttempt, TallyOK
  <2>15. CASE MoveToDlq(c)
    <3>1. pc[c] \in Busy
      BY <2>15 DEF MoveToDlq, Busy
    <3>2. CASE Advance(c)
      BY <2>15, <3>2, <1>e, AdvanceLoop DEF MoveToDlq
    <3>3. CASE Goto(c, "mark") /\ UNCHANGED <<follow, batch, cur, hb, guard, reply>>
      BY <2>15, <3>1, <3>3, <1>e, QuietLoop DEF MoveToDlq, Goto, PC, LoopOK
    <3>. QED BY <2>15, <3>2, <3>3 DEF MoveToDlq
  <2>16. CASE MarkRequestFailed(c)
    <3>1. cur[c] \in Ids /\ pc[c] \in Busy
      BY <2>16, <1>d DEF MarkRequestFailed, Busy
    <3>2. LoopOK'
      BY <2>16, <3>1, QuietLoop DEF MarkRequestFailed, Goto, PC, LoopOK
    <3>. QED BY <2>16, <3>1, <3>2 DEF MarkRequestFailed, TallyOK
  <2>. QED
    BY <1>1, <2>1, <2>2, <2>3, <2>4, <2>5, <2>6, <2>7, <2>8, <2>9, <2>10,
       <2>11, <2>12, <2>13, <2>14, <2>15, <2>16 DEF Loop
<1>2. ASSUME NEW c \in Consumers, NEW m \in Ids, NEW v \in Heartbeat, hb[c][m] # "off",
             hb' = hb \/ hb' = [hb EXCEPT ![c][m] = v],
             UNCHANGED <<pc, follow, batch, cur, guard, reply,
                         attempts, local, failed, failures, succeeded>>
      PROVE LoopOK' /\ TallyOK'
  <2>1. /\ hb' \in [Consumers -> [Ids -> Heartbeat]]
        /\ \A x \in Consumers, y \in Ids : hb'[x][y] = hb[x][y] \/ (x = c /\ y = m)
    <3>1. hb \in [Consumers -> [Ids -> Heartbeat]]
      BY DEF LoopOK
    <3>2. CASE hb' = [hb EXCEPT ![c][m] = v]
      <4>1. /\ hb' \in [Consumers -> [Ids -> Heartbeat]]
            /\ \A x \in Consumers, y \in Ids :
                 hb'[x][y] = IF x = c /\ y = m THEN v ELSE hb[x][y]
        BY <3>1, <3>2, SetCell
      <4>. QED BY <4>1
    <3>3. CASE hb' = hb
      BY <3>1, <3>3
    <3>. QED BY <1>2, <3>2, <3>3
  <2>2. Located'
    BY SMTT(30), <1>2, <2>1, LocatedStep DEF LoopOK, Located
  <2>. QED BY <1>2, <1>e, <2>1, <2>2 DEF LoopOK
<1>3. \A g : Verdict(g) \in Heartbeat
  BY DEF Verdict, Heartbeat
<1>4. ASSUME NEW c \in Consumers, NEW m \in Ids, HeartbeatTick(c, m)
      PROVE LoopOK' /\ TallyOK'
  BY <1>2, <1>3, <1>4 DEF HeartbeatTick
<1>5. ASSUME NEW c \in Consumers, NEW m \in Ids, HeartbeatResolve(c, m)
      PROVE LoopOK' /\ TallyOK'
  BY <1>2, <1>3, <1>5 DEF HeartbeatResolve
<1>6. ASSUME NEW c \in Consumers, Exit(c) PROVE LoopOK' /\ TallyOK'
  <2>1. /\ pc' \in [Consumers -> PC] /\ batch' \in [Consumers -> SUBSET Ids]
        /\ cur' \in [Consumers -> Ids \cup {0}]
        /\ pc'[c] \notin Busy /\ batch'[c] = {} /\ cur'[c] = 0
        /\ \A d \in Consumers : d # c =>
             pc'[d] = pc[d] /\ batch'[d] = batch[d] /\ cur'[d] = cur[d]
    BY <1>6 DEF Exit, Goto, PC, Busy, LoopOK
  <2>2. /\ hb' \in [Consumers -> [Ids -> Heartbeat]]
        /\ \A m \in Ids : hb'[c][m] = "off"
        /\ \A d \in Consumers : d # c => hb'[d] = hb[d]
    BY <1>6 DEF Exit, LoopOK, Heartbeat
  <2>3. guard' \in [Consumers -> GuardState] /\ reply' \in [Consumers -> Reply]
    BY <1>6 DEF Exit, LoopOK, GuardState, Reply
  <2>4. Located'
    BY <2>1, <2>2, LocatedStep
  <2>5. TallyOK'
    BY <1>6, <1>c DEF Exit, TallyOK
  <2>. QED BY <1>6, <2>1, <2>2, <2>3, <2>4, <2>5 DEF Exit, LoopOK
<1>7. ASSUME UNCHANGED engineVars PROVE LoopOK' /\ TallyOK'
  BY SMTT(30), <1>7 DEF engineVars, LoopOK, TallyOK, Located, Grown, Ids
<1>. QED
  <2>1. CASE UNCHANGED vars
    BY <2>1, <1>7 DEF vars
  <2>2. CASE Next
    BY <2>2, <1>1, <1>4, <1>5, <1>6, <1>7 DEF Next, LeaseExpires, Enqueue
  <2>. QED BY <2>1, <2>2

\* The engine's inductive invariant holds for any number of processes.
THEOREM EngineInvariance == Spec => []EngineInv
  BY EngineInit, EngineNextInv, PTL DEF Spec

\* The engine's own state keeps its shape.
THEOREM EngineTypeCorrect == Spec => []TypeOK
<1>1. EngineInv => TypeOK
  BY DEF EngineInv
<1>. QED BY <1>1, EngineInvariance, PTL

\* Any number of worker processes running the engine are a client of the
\* group, so everything proved of the group holds of them.
THEOREM EngineImplementsGroup == Spec => GroupSpec
<1>1. Init => GroupInit
  BY EngineInit
<1>2. EngineInv /\ [Next]_vars => [GroupNext]_groupVars
  BY EngineGroupStep
<1>. QED BY <1>1, <1>2, EngineInvariance, PTL DEF Spec, GroupSpec
-----------------------------------------------------------------------------
(* How a message leaves the stage.                                         *)

\* What one step of the engine may do to one entry: nothing, acknowledge it
\* from "ack", or forward it to a single destination.
Fated(m) ==
  \/ out'[m] = out[m] /\ (m \in acked' <=> m \in acked)
  \/ /\ m \in Pending /\ out'[m] = out[m]
     /\ \E c \in Consumers : pc[c] = "ack" /\ cur[c] = m
  \/ /\ m \in Pending /\ (m \in acked' <=> m \in acked)
     /\ \E d \in Dest : \A e \in Dest : out'[m][e] = IF e = d THEN 1 ELSE 0

\* A pending entry has nothing downstream and was not acknowledged.
LEMMA PendingIsFresh ==
  ASSUME GroupInv, NEW m \in Ids, m \in Pending
  PROVE  m \notin acked /\ \A d \in Dest : out[m][d] = 0
<1>1. ~Settled(m)
  BY SMTT(30) DEF GroupInv, NothingLost, Ids, GroupTypeOK
<1>2. \A d \in Dest : out[m][d] \in Nat
  BY DEF GroupInv, GroupTypeOK
<1>. QED BY SMTT(30), <1>1, <1>2 DEF Settled, Standing

\* Forwarding one pending entry to one destination settles it one way.
LEMMA ForwardFated ==
  ASSUME GroupInv, NEW n \in Ids, NEW d \in Dest,
         n \in Pending, out' = Added({n}, {d}), acked' = acked
  PROVE  \A m \in Ids : Fated(m)
<1>. SUFFICES ASSUME NEW m \in Ids PROVE Fated(m)
  OBVIOUS
<1>1. CASE m = n
  BY SMTT(30), <1>1, PendingIsFresh DEF Fated, Added
<1>2. CASE m # n
  BY <1>2 DEF Fated, Added, GroupInv, GroupTypeOK
<1>. QED BY <1>1, <1>2

\* Every step of the engine settles an entry in one way or not at all.
LEMMA EngineFated ==
  ASSUME EngineInv, [Next]_vars
  PROVE  \A m \in Ids : Fated(m)
<1>. USE DEF EngineInv
<1>d. \A c \in Consumers : pc[c] \in Busy => cur[c] \in Ids
  BY DEF TypeOK, Located
<1>e. "next" \in Dest /\ "dlq" \in Dest
  BY DEF Dest
<1>0. ASSUME UNCHANGED <<out, acked>> PROVE \A m \in Ids : Fated(m)
  BY <1>0 DEF Fated
<1>h. ASSUME NEW n \in Ids, NEW d \in Dest, HandoffAndAck(n, d)
      PROVE \A m \in Ids : Fated(m)
  <2>1. CASE n \in Pending
    BY <1>h, <2>1, ForwardFated DEF HandoffAndAck
  <2>2. CASE n \notin Pending
    BY <1>h, <2>2, <1>0 DEF HandoffAndAck
  <2>. QED BY <2>1, <2>2
<1>1. ASSUME NEW c \in Consumers, Loop(c) PROVE \A m \in Ids : Fated(m)
  <2>1. CASE ReclaimIdle(c) \/ PollStream(c)
    BY <2>1, <1>0 DEF ReclaimIdle, PollStream, ClaimIdleMessages, ReadMessages
  <2>3. CASE RoleHandoff(c)
    BY <2>3, <1>d, <1>e, <1>h DEF RoleHandoff, Handling, Busy
  <2>4. CASE GuardedRun(c)
    <3>1. cur[c] \in Ids /\ (GuardedHandoff(c, cur[c]) \/ UNCHANGED groupVars)
      BY <2>4, <1>d DEF GuardedRun, Handling, Busy
    <3>2. CASE GuardedHandoff(c, cur[c]) /\ pel[cur[c]] = c
      <4>1. cur[c] \in Pending
        BY <3>1, <3>2, StreamGroupAssumption DEF Pending
      <4>. QED BY <3>1, <3>2, <4>1, <1>e, ForwardFated DEF GuardedHandoff
    <3>3. CASE (GuardedHandoff(c, cur[c]) /\ pel[cur[c]] # c) \/ UNCHANGED groupVars
      BY <3>1, <3>3, <1>0 DEF GuardedHandoff, groupVars
    <3>. QED BY <3>1, <3>2, <3>3
  <2>5. CASE Ack(c)
    BY <2>5 DEF Ack, AckMessage, Fated
  <2>6. CASE MoveToDlq(c)
    <3>1. CASE HandoffAndAck(cur[c], "dlq")
      BY <2>6, <3>1, <1>d, <1>e, <1>h DEF MoveToDlq, Busy
    <3>2. CASE UNCHANGED groupVars
      BY <3>2, <1>0 DEF groupVars
    <3>. QED BY <2>6, <3>1, <3>2 DEF MoveToDlq
  <2>7. CASE \/ Start(c) \/ NextMessage(c) \/ GuardedStart(c) \/ GuardedFinish(c)
             \/ RoleReturn(c) \/ CancelHandler(c) \/ StopHeartbeat(c)
             \/ ClearFailureAttempt(c) \/ RecordFailureAttempt(c) \/ MarkRequestFailed(c)
    BY <2>7, <1>0
    DEF Start, NextMessage, GuardedStart, GuardedFinish, RoleReturn,
        CancelHandler, StopHeartbeat, ClearFailureAttempt,
        RecordFailureAttempt, MarkRequestFailed, groupVars
  <2>. QED
    BY <1>1, <2>1, <2>3, <2>4, <2>5, <2>6, <2>7 DEF Loop
<1>2. CASE UNCHANGED vars
  BY <1>2, <1>0 DEF vars, groupVars
<1>3. CASE \/ \E c \in Consumers, m \in Ids : HeartbeatTick(c, m) \/ HeartbeatResolve(c, m)
           \/ \E m \in Ids : LeaseExpires(m)
           \/ \E c \in Consumers : Exit(c)
           \/ Enqueue
  BY <1>3, <1>0 DEF HeartbeatTick, HeartbeatResolve, RenewMessageLease, LeaseExpires,
                    LeaseTimeout, Exit, Enqueue, EnqueueToStream, groupVars
<1>. QED BY <1>1, <1>2, <1>3 DEF Next

\* The engine's invariant about how messages end: a process about to
\* acknowledge a message has seen a handler succeed on it, and a process about
\* to mark a run failed has put its message in the DLQ.
EndInv ==
  /\ SettledOneWay /\ AckedOnlyAfterSuccess /\ FailedImpliesDlq
  /\ \A c \in Consumers :
       /\ pc[c] = "ack" => cur[c] \in succeeded
       /\ pc[c] = "stopping" /\ reply[c] = "ok" => cur[c] \in succeeded
       /\ pc[c] = "mark" => out[cur[c]]["dlq"] > 0

\* How a process can come to acknowledge, to have succeeded, or to mark.
Turns(d) ==
  /\ pc'[d] = "ack" => /\ cur'[d] = cur[d]
                       /\ pc[d] = "ack" \/ (pc[d] = "stopping" /\ reply[d] = "ok")
  /\ pc'[d] = "stopping" /\ reply'[d] = "ok" =>
       \/ pc[d] = "stopping" /\ reply[d] = "ok" /\ cur'[d] = cur[d]
       \/ cur'[d] \in succeeded'
  /\ pc'[d] = "mark" => \/ pc[d] = "mark" /\ cur'[d] = cur[d]
                        \/ out'[cur'[d]]["dlq"] > 0

Monotone ==
  /\ succeeded \subseteq succeeded'
  /\ \A m \in failed' : m \in failed \/ \E c \in Consumers : pc[c] = "mark" /\ cur[c] = m

\* How a process gets to acknowledge or to mark a run: through the handler's
\* success and the DLQ handoff.
LEMMA EngineTurns ==
  ASSUME EngineInv, [Next]_vars
  PROVE  Monotone /\ \A d \in Consumers : Turns(d)
<1>a. /\ pc \in [Consumers -> PC] /\ cur \in [Consumers -> Ids \cup {0}]
      /\ reply \in [Consumers -> Reply] /\ follow \in [Consumers -> {"poll", "reclaim"}]
  BY DEF EngineInv, TypeOK
<1>0. ASSUME UNCHANGED <<pc, cur, reply, succeeded, failed>>
      PROVE  Monotone /\ \A d \in Consumers : Turns(d)
  BY <1>0 DEF Monotone, Turns
<1>s. ASSUME NEW c \in Consumers, Advance(c), UNCHANGED <<succeeded, failed>>
      PROVE  Monotone /\ \A d \in Consumers : Turns(d)
  BY <1>a, <1>s DEF Advance, Goto, Monotone, Turns
<1>g. ASSUME NEW c \in Consumers, NEW l, l \notin {"ack", "stopping", "mark"}, Goto(c, l),
             UNCHANGED <<succeeded, failed>>,
             \A d \in Consumers : d # c => cur'[d] = cur[d] /\ reply'[d] = reply[d]
      PROVE  Monotone /\ \A d \in Consumers : Turns(d)
  BY <1>a, <1>g DEF Goto, Monotone, Turns
<1>1. ASSUME NEW c \in Consumers, Loop(c)
      PROVE  Monotone /\ \A d \in Consumers : Turns(d)
  <2>1. CASE Start(c) \/ Ack(c)
    BY <2>1, <1>g DEF Start, Ack
  <2>2. CASE ReclaimIdle(c) \/ PollStream(c)
    BY <2>2, <1>g DEF ReclaimIdle, PollStream, BeginBatch
  <2>3. CASE NextMessage(c)
    <3>1. PICK l \in {"poll", "reclaim", "dispatch", "handling"} : Goto(c, l)
      BY <2>3, <1>a DEF NextMessage
    <3>2. \A d \in Consumers : d # c => cur'[d] = cur[d] /\ reply'[d] = reply[d]
      BY <2>3, <1>a DEF NextMessage
    <3>. QED BY <2>3, <3>1, <3>2, <1>g DEF NextMessage
  <2>4. CASE RoleHandoff(c) \/ GuardedRun(c)
    BY <2>4, <1>a DEF RoleHandoff, GuardedRun, Handling, Monotone, Turns
  <2>5. CASE GuardedStart(c) \/ GuardedFinish(c)
    BY <2>5, <1>0 DEF GuardedStart, GuardedFinish
  <2>6. CASE RoleReturn(c)
    BY <2>6, <1>a DEF RoleReturn, Goto, Monotone, Turns
  <2>7. CASE CancelHandler(c) \/ ClearFailureAttempt(c)
    BY <2>7, <1>s DEF CancelHandler, ClearFailureAttempt
  <2>8. CASE StopHeartbeat(c)
    <3>1. CASE Advance(c)
      BY <2>8, <3>1, <1>s DEF StopHeartbeat
    <3>2. CASE ~Advance(c)
      BY <2>8, <3>2, <1>a DEF StopHeartbeat, Goto, Monotone, Turns
    <3>. QED BY <3>1, <3>2
  <2>9. CASE RecordFailureAttempt(c)
    <3>1. CASE Advance(c)
      BY <2>9, <3>1, <1>s DEF RecordFailureAttempt
    <3>2. CASE ~Advance(c)
      BY <2>9, <3>2, <1>g DEF RecordFailureAttempt, AfterRecord
    <3>. QED BY <3>1, <3>2
  <2>10. CASE MoveToDlq(c)
    <3>1. CASE Advance(c)
      BY <2>10, <3>1, <1>s DEF MoveToDlq
    <3>2. CASE ~Advance(c)
      <4>1. /\ HandoffAndAck(cur[c], "dlq") /\ cur[c] \in Pending
            /\ Goto(c, "mark") /\ UNCHANGED <<cur, reply, succeeded, failed>>
        BY <2>10, <3>2 DEF MoveToDlq
      <4>2. cur[c] \in Ids /\ "dlq" \in Dest
        BY <4>1 DEF Pending, Dest
      <4>3. out'[cur[c]]["dlq"] > 0
        BY SMTT(30), <4>1, <4>2, PendingIsFresh DEF HandoffAndAck, Added, EngineInv
      <4>. QED BY <1>a, <4>1, <4>3 DEF Goto, Monotone, Turns
    <3>. QED BY <3>1, <3>2
  <2>11. CASE MarkRequestFailed(c)
    BY <2>11, <1>a DEF MarkRequestFailed, Goto, Monotone, Turns
  <2>. QED
    BY <1>1, <2>1, <2>2, <2>3, <2>4, <2>5, <2>6, <2>7, <2>8, <2>9, <2>10, <2>11 DEF Loop
<1>2. ASSUME NEW c \in Consumers, Exit(c)
      PROVE  Monotone /\ \A d \in Consumers : Turns(d)
  <2>1. \A d \in Consumers : d # c => cur'[d] = cur[d] /\ reply'[d] = reply[d]
    BY <1>2, <1>a DEF Exit
  <2>. QED BY <1>2, <2>1, <1>g DEF Exit
<1>3. CASE UNCHANGED vars
  BY <1>3, <1>0 DEF vars, engineVars
<1>4. CASE \/ \E c \in Consumers, m \in Ids : HeartbeatTick(c, m) \/ HeartbeatResolve(c, m)
           \/ \E m \in Ids : LeaseExpires(m)
           \/ Enqueue
  BY <1>4, <1>0 DEF HeartbeatTick, HeartbeatResolve, LeaseExpires, Enqueue, engineVars
<1>. QED BY <1>1, <1>2, <1>3, <1>4 DEF Next

\* Every step keeps how messages end.
LEMMA EndNextInv ==
  ASSUME EngineInv, EndInv, [Next]_vars
  PROVE  EndInv'
<1>a. GroupInv /\ GroupTypeOK' /\ \A m \in Ids : Fated(m)
  BY EngineFated, CursorGrows DEF EngineInv, GroupInv
<1>b. Monotone /\ \A d \in Consumers : Turns(d)
  BY EngineTurns
<1>c. "next" \in Dest /\ "dlq" \in Dest
  BY DEF Dest
<1>d. \A m \in Ids : m \in Pending => m \notin acked /\ out[m]["next"] = 0 /\ out[m]["dlq"] = 0
  BY <1>a, <1>c, PendingIsFresh
<1>e. \A m \in Ids : out[m]["dlq"] > 0 => out'[m]["dlq"] > 0
  BY SMTT(30), <1>a, <1>c, <1>d DEF Fated
<1>1. SettledOneWay'
  <2>. SUFFICES ASSUME NEW m \in Ids
                PROVE /\ out'[m]["next"] + out'[m]["dlq"] <= 1
                      /\ m \in acked' => \A d \in Dest : ~(out'[m][d] > 0)
    BY DEF SettledOneWay, Standing
  <2>1. CASE out'[m] = out[m] /\ (m \in acked' <=> m \in acked)
    BY <2>1 DEF EndInv, SettledOneWay, Standing
  <2>2. CASE m \in Pending /\ out'[m] = out[m]
    BY SMTT(30), <2>2, <1>d DEF Dest
  <2>3. CASE /\ m \in Pending /\ (m \in acked' <=> m \in acked)
             /\ \E d \in Dest : \A e \in Dest : out'[m][e] = IF e = d THEN 1 ELSE 0
    BY SMTT(30), <2>3, <1>c, <1>d DEF Dest
  <2>. QED BY <1>a, <2>1, <2>2, <2>3 DEF Fated
<1>2. AckedOnlyAfterSuccess'
  BY SMTT(30), <1>a, <1>b DEF EndInv, AckedOnlyAfterSuccess, Fated, Monotone, GroupTypeOK
<1>3. FailedImpliesDlq'
  <2>1. failed' \subseteq Ids
    BY EngineNextInv DEF EngineInv, TypeOK
  <2>. QED BY <1>b, <1>e, <2>1 DEF EndInv, FailedImpliesDlq, Monotone
<1>4. ASSUME NEW c \in Consumers
      PROVE /\ pc'[c] = "ack" => cur'[c] \in succeeded'
            /\ pc'[c] = "stopping" /\ reply'[c] = "ok" => cur'[c] \in succeeded'
            /\ pc'[c] = "mark" => out'[cur'[c]]["dlq"] > 0
  <2>1. pc[c] = "mark" => cur[c] \in Ids
    BY DEF EngineInv, TypeOK, Located, Busy
  <2>. QED BY <1>b, <1>e, <2>1 DEF EndInv, Turns, Monotone
<1>. QED BY <1>1, <1>2, <1>3, <1>4 DEF EndInv

\* How messages end, for any number of processes, messages and retries.
THEOREM EndInvariance == Spec => []EndInv
<1>1. Init => EndInv
  BY SMTT(30) DEF Init, GroupInit, EndInv, SettledOneWay, AckedOnlyAfterSuccess,
         FailedImpliesDlq, Standing, Dest
<1>2. EngineInv /\ EndInv /\ [Next]_vars => EndInv'
  BY EndNextInv
<1>. QED BY <1>1, <1>2, EngineInvariance, PTL DEF Spec

\* A message leaves the stage one way only, for any number of processes, stale
\* or not.
THEOREM EngineSettlesOneWay == Spec => []SettledOneWay
<1>1. EndInv => SettledOneWay
  BY DEF EndInv
<1>. QED BY <1>1, EndInvariance, PTL

\* Only messages some handler call succeeded on are acknowledged.
THEOREM EngineAcksOnlySuccess == Spec => []AckedOnlyAfterSuccess
<1>1. EndInv => AckedOnlyAfterSuccess
  BY DEF EndInv
<1>. QED BY <1>1, EndInvariance, PTL

\* Only runs whose message is in the DLQ are reported failed by the engine.
THEOREM EngineFailsOnlyDlq == Spec => []FailedImpliesDlq
<1>1. EndInv => FailedImpliesDlq
  BY DEF EndInv
<1>. QED BY <1>1, EndInvariance, PTL

\* The engine loses no message and hands each off at most once: the group's
\* invariants carry over.
THEOREM EngineLosesNothing == Spec => [](NothingLost /\ ExactlyOnceHandoff)
<1>1. EngineInv => NothingLost /\ ExactlyOnceHandoff
  BY DEF EngineInv, GroupInv
<1>. QED BY <1>1, EngineInvariance, PTL
=============================================================================
