--------------------------- MODULE Fluke45Proofs ---------------------------
(***************************************************************************)
(* Proofs about Fluke45, for any set of callers and any bounds.            *)
(***************************************************************************)
EXTENDS Fluke45, FiniteSets, FiniteSetTheorems, TLAPS

USE RunnerAssumption, MaxCallsAssumption, MaxCancelsAssumption, StaleMarksAssumption

(* The futures a caller, or _run, is about to create are fresh ones.       *)
Fresh ==
  /\ \A t \in Tasks : \A k \in 1..MaxCalls : k > calls[t] => fut[<<t, k>>] = "none"
  /\ \A t \in Tasks : pc[t] \in Waiting => /\ calls[t] >= 1
                                          /\ fut[<<t, calls[t]>>] = "none"
  /\ link = "closed" => pc[Runner] = "idle"
  /\ pc[Runner] \in {"idle", "start"} => calls[Runner] = 0

(* _pending_response is the one future that was created and not resolved.  *)
Holder == \A f \in Futures : fut[f] \in {"unset", "cancelled"} <=> pending = f

(* A task suspended in _ask awaits a future that exists.                   *)
Suspended == \A t \in Tasks : pc[t] \in {"awaiting", "cleanup"} =>
                                /\ on[t] \in Futures
                                /\ fut[on[t]] # "none"

IInv == TypeOK /\ Fresh /\ Holder /\ Suspended


-----------------------------------------------------------------------------
(* The identifiers of futures.                                             *)
LEMMA IdFacts ==
  /\ Runner \in Tasks /\ Askers \subseteq Tasks
  /\ NoId \in Ids /\ NoId \notin Futures /\ Futures \subseteq Ids
  /\ \A t \in Tasks : <<t, 0>> \in Ids
  /\ \A t \in Tasks : \A k \in 1..MaxCalls : <<t, k>> \in Futures
  /\ \A t \in Tasks : Current(t) = <<t, calls[t]>>
BY DEF NoId, Ids, Futures, Tasks, Current

(* Initially all of it holds.                                              *)
LEMMA InitIInv == Init => IInv
<1> SUFFICES ASSUME Init PROVE IInv
  OBVIOUS
<1> USE DEF Init
<1>1. NoId \in Ids /\ NoId \notin Futures
  BY IdFacts
<1>2. wire \in Seq(Prompts)
  <2>1. \A m \in StaleMarks : [mark |-> m, text |-> TRUE, to |-> {}] \in Prompts
    BY DEF Prompts
  <2>2. CASE wire = <<>>
    BY <2>2
  <2>3. ASSUME NEW m \in StaleMarks, wire = <<[mark |-> m, text |-> TRUE, to |-> {}]>>
        PROVE wire \in Seq(Prompts)
    <3>1. [mark |-> m, text |-> TRUE, to |-> {}] \in Prompts
      BY <2>1
    <3> QED
      BY <2>3, <3>1
  <2> QED
    BY <2>2, <2>3
<1>3. TypeOK
  BY <1>1, <1>2 DEF TypeOK, ConnectionState, Pcs, Active, Waiting, NoCommand, Commands,
     Ops, NoReply, Responses, Errors, Tasks
<1>4. Fresh /\ Holder /\ Suspended
  BY <1>1 DEF Fresh, Holder, Suspended, Futures, Tasks, Waiting
<1> QED
  BY <1>3, <1>4 DEF IInv

-----------------------------------------------------------------------------
(* What the building blocks do to a state of the right type.               *)

LEMMA WriteType ==
  ASSUME TypeOK, NEW op \in Ops, NEW id \in Ids, Write([op |-> op, id |-> id])
  PROVE  toDev' \in Seq(Commands)
<1>1. [op |-> op, id |-> id] \in Commands
  BY DEF Commands
<1> QED
  BY <1>1 DEF Write, TypeOK

(* _ask either takes a free line with a fresh future or waits.             *)
LEMMA TakeLineFacts ==
  ASSUME TypeOK, NEW t \in Tasks, NEW f \in Futures, NEW ops \in SUBSET Ops,
         TakeLine(t, f, ops)
  PROVE  /\ pc' \in [Tasks -> Pcs]
         /\ on' \in [Tasks -> Futures \cup {NoId}]
         /\ pending' \in Futures \cup {NoId}
         /\ fut' \in [Futures -> {"none", "unset", "set", "cancelled"}]
         /\ toDev' \in Seq(Commands)
         /\ \A u \in Tasks \ {t} : pc'[u] = pc[u] /\ on'[u] = on[u]
         /\ \A g \in Futures \ {f} : fut'[g] = fut[g]
         /\ \/ /\ pending = NoId /\ pending' = f /\ fut'[f] = "unset"
               /\ pc'[t] = "awaiting" /\ on'[t] = f
            \/ /\ pending # NoId /\ pending' = pending /\ fut' = fut /\ on' = on
               /\ pc'[t] = "lineWait"
<1>1. "awaiting" \in Pcs /\ "lineWait" \in Pcs
  BY DEF Pcs, Active, Waiting
<1>2. CASE /\ pending = NoId
           /\ pending' = f
           /\ fut' = [fut EXCEPT ![f] = "unset"]
           /\ on' = [on EXCEPT ![t] = f]
           /\ pc' = [pc EXCEPT ![t] = "awaiting"]
           /\ \E op \in ops : Write([op |-> op, id |-> f])
  <2>1. toDev' \in Seq(Commands)
    BY <1>2, IdFacts, WriteType
  <2> QED
    BY <1>1, <1>2, <2>1 DEF TypeOK
<1>3. CASE /\ pending # NoId
           /\ pc' = [pc EXCEPT ![t] = "lineWait"]
           /\ UNCHANGED <<pending, fut, on, toDev>>
  BY <1>1, <1>3 DEF TypeOK
<1> QED
  BY <1>2, <1>3 DEF TakeLine, LineFree

(* A cancellation can only turn an unset future into a cancelled one.      *)
LEMMA RequestCancelFacts ==
  ASSUME TypeOK, NEW S \in SUBSET Tasks, RequestCancel(S)
  PROVE  /\ cancel' \in SUBSET Tasks
         /\ fut' \in [Futures -> {"none", "unset", "set", "cancelled"}]
         /\ \A f \in Futures : \/ fut'[f] = fut[f]
                               \/ fut[f] = "unset" /\ fut'[f] = "cancelled"
BY DEF RequestCancel, TypeOK

(* The end of a coroutine.                                                 *)
LEMMA FinishFacts ==
  ASSUME TypeOK, NEW t \in Tasks, NEW how, Finish(t, how)
  PROVE  /\ pc' \in [Tasks -> Pcs]
         /\ state' \in ConnectionState
         /\ state' = state \/ state' = "DISCONNECTED"
         /\ \A u \in Tasks \ {t} : pc'[u] = pc[u]
         /\ pc'[t] \in {"idle", "done", "failed"}
BY DEF Finish, TypeOK, Pcs, ConnectionState

LEMMA NotifyFacts ==
  ASSUME TypeOK, NotifyAll
  PROVE  notified' \subseteq Tasks
BY DEF NotifyAll, TypeOK

LEMMA SendInterruptType ==
  ASSUME TypeOK, NEW t \in Tasks, SendInterrupt(t)
  PROVE  toDev' \in Seq(Commands)
BY IdFacts, WriteType DEF SendInterrupt, Ops

-----------------------------------------------------------------------------
(* Every step preserves the types.                                         *)
LEMMA NextType == IInv /\ [Next]_vars => TypeOK'
<1> SUFFICES ASSUME IInv, [Next]_vars PROVE TypeOK'
  OBVIOUS
<1>0. /\ TypeOK /\ Fresh /\ Holder /\ Suspended
      /\ {"start", "awaiting", "cleanup", "connWait", "lineWait",
          "idle", "done", "failed"} \subseteq Pcs
      /\ {"DISCONNECTED", "CONNECTING", "READY"} \subseteq ConnectionState
      /\ {"intr", "format", "query", "trigger"} \subseteq Ops
      /\ AskOps \subseteq Ops /\ 1 \in 1..MaxCalls /\ 2 \in 1..MaxCalls
  BY DEF IInv, Pcs, Active, Waiting, ConnectionState, Ops, AskOps
<1>1. CASE ConnectionMade
  BY <1>0, <1>1, IdFacts DEF ConnectionMade, TypeOK
<1>2. CASE RunStart
  <2>1. <<Runner, 1>> \in Futures /\ {"intr"} \in SUBSET Ops /\ Runner \in Tasks
    BY <1>0, IdFacts
  <2>2. TakeLine(Runner, <<Runner, 1>>, {"intr"}) /\ NotifyAll
    BY <1>2 DEF RunStart
  <2> QED
    BY <1>0, <1>2, <2>1, <2>2, TakeLineFacts, NotifyFacts DEF RunStart, TypeOK
<1>3. CASE RunReturn
  <2>1. <<Runner, 2>> \in Futures /\ {"format"} \in SUBSET Ops /\ Runner \in Tasks
    BY <1>0, IdFacts
  <2>. UNCHANGED <<link, cancel, reply, dev, wire, cancels>>
    BY <1>3 DEF RunReturn
  <2>2. CASE Finish(Runner, "error") /\ UNCHANGED <<calls, on, notified, pending, fut, toDev>>
    BY <1>0, <2>1, <2>2, FinishFacts DEF TypeOK
  <2>3. CASE /\ calls' = [calls EXCEPT ![Runner] = 2]
             /\ TakeLine(Runner, <<Runner, 2>>, {"format"})
             /\ UNCHANGED <<state, notified>>
    BY <1>0, <2>1, <2>3, TakeLineFacts DEF TypeOK
  <2>4. CASE /\ state' = "READY"
             /\ NotifyAll
             /\ pc' = [pc EXCEPT ![Runner] = "done"]
             /\ UNCHANGED <<calls, on, pending, fut, toDev>>
    BY <1>0, <2>1, <2>4, NotifyFacts DEF TypeOK
  <2> QED
    BY <1>3, <2>2, <2>3, <2>4 DEF RunReturn
<1>4. CASE RunNeverStarted
  BY <1>0, <1>4, IdFacts DEF RunNeverStarted, TypeOK
<1>5. CASE ConnectionLost
  <2>1. {t \in {Runner} : pc[t] \in Active} \in SUBSET Tasks
    BY IdFacts
  <2> QED
    BY <1>0, <1>5, <2>1, RequestCancelFacts DEF ConnectionLost, TypeOK
<1>6. CASE Shutdown
  <2>1. {t \in Tasks : pc[t] \in Active} \in SUBSET Tasks
    OBVIOUS
  <2> QED
    BY <1>0, <1>6, <2>1, RequestCancelFacts DEF Shutdown, TypeOK
<1>7. ASSUME NEW t \in Tasks, Call(t) PROVE TypeOK'
  <2>1. calls[t] + 1 \in 1..MaxCalls /\ calls[t] + 1 \in 0..MaxCalls
    BY <1>0, <1>7 DEF Call, TypeOK
  <2>2. <<t, calls[t] + 1>> \in Futures /\ AskOps \in SUBSET Ops
    BY <1>0, <2>1, IdFacts
  <2>3. calls' \in [Tasks -> 0..MaxCalls]
    BY <1>0, <1>7, <2>1 DEF Call, TypeOK
  <2>4. CASE /\ pc' = [pc EXCEPT ![t] = "connWait"]
             /\ UNCHANGED <<pending, fut, on, toDev>>
    BY <1>0, <1>7, <2>3, <2>4 DEF Call, TypeOK
  <2>5. CASE TakeLine(t, <<t, calls[t] + 1>>, AskOps)
    BY <1>0, <1>7, <2>2, <2>3, <2>5, TakeLineFacts DEF Call, TypeOK
  <2> QED
    BY <1>7, <2>4, <2>5 DEF Call
<1>8. ASSUME NEW t \in Tasks, Recheck(t) PROVE TypeOK'
  <2>1. Current(t) \in Futures /\ AskOps \in SUBSET Ops
    BY <1>0, <1>8, IdFacts DEF Recheck, Fresh, TypeOK
  <2>2. CASE UNCHANGED <<pc, pending, fut, on, toDev>>
    BY <1>0, <1>8, <2>2 DEF Recheck, TypeOK
  <2>3. CASE TakeLine(t, Current(t), AskOps)
    BY <1>0, <1>8, <2>1, <2>3, TakeLineFacts DEF Recheck, TypeOK
  <2> QED
    BY <1>8, <2>2, <2>3 DEF Recheck
<1>9. ASSUME NEW t \in Tasks, Return(t) PROVE TypeOK'
  BY <1>0, <1>9, FinishFacts DEF Return, TypeOK
<1>10. ASSUME NEW t \in Tasks, Timeout(t) PROVE TypeOK'
  <2>1. RequestCancel({t}) /\ {t} \in SUBSET Tasks
    BY <1>10 DEF Timeout
  <2>2. cancels' \in 0..MaxCancels
    BY <1>0, <1>10 DEF Timeout, TypeOK
  <2> QED
    BY <1>0, <1>10, <2>1, <2>2, RequestCancelFacts DEF Timeout, TypeOK
<1>11. ASSUME NEW t \in Tasks, CancelWaiting(t) PROVE TypeOK'
  BY <1>0, <1>11, FinishFacts DEF CancelWaiting, PassOn, TypeOK
<1>12. ASSUME NEW t \in Tasks, CancelAwaiting(t) PROVE TypeOK'
  <2>1. toDev' \in Seq(Commands)
    BY <1>0, <1>12, SendInterruptType DEF CancelAwaiting
  <2>2. CASE /\ pending # NoId
             /\ pc' = [pc EXCEPT ![t] = "cleanup"]
             /\ on' = [on EXCEPT ![t] = pending]
             /\ UNCHANGED state
    BY <1>0, <1>12, <2>1, <2>2 DEF CancelAwaiting, TypeOK
  <2>3. ASSUME NEW how, Finish(t, how), UNCHANGED on PROVE TypeOK'
    BY <1>0, <1>12, <2>1, <2>3, FinishFacts DEF CancelAwaiting, TypeOK
  <2> QED
    BY <1>12, <2>2, <2>3 DEF CancelAwaiting, PendingUnset
<1>13. ASSUME NEW t \in Tasks, CancelCleanup(t) PROVE TypeOK'
  BY <1>0, <1>13, FinishFacts DEF CancelCleanup, TypeOK
<1>14. ASSUME NEW t \in Tasks, CleanupDone(t) PROVE TypeOK'
  BY <1>0, <1>14, FinishFacts DEF CleanupDone, TypeOK
<1>15. CASE DataReceived
  <2>1. wire' \in Seq(Prompts) /\ Head(wire) \in Prompts
    BY <1>0, <1>15 DEF DataReceived, TypeOK
  <2>2. [resp |-> Response(Head(wire)), to |-> Head(wire).to]
          \in [resp : Responses, to : SUBSET Ids]
    <3>1. Response(Head(wire)) \in Responses
      BY <2>1 DEF Response, Responses, Errors
    <3> QED
      BY <2>1, <3>1 DEF Prompts
  <2>. UNCHANGED <<state, link, pc, calls, on, notified, cancel, toDev, dev, cancels>>
    BY <1>15 DEF DataReceived
  <2>3. CASE /\ pending # NoId
             /\ fut' = [fut EXCEPT ![pending] = "set"]
             /\ reply' = [reply EXCEPT ![pending] =
                            [resp |-> Response(Head(wire)), to |-> Head(wire).to]]
             /\ pending' = NoId
    BY <1>0, <2>1, <2>2, <2>3 DEF TypeOK
  <2>4. CASE UNCHANGED <<fut, reply, pending>>
    BY <1>0, <2>1, <2>4 DEF TypeOK
  <2> QED
    BY <1>15, <2>3, <2>4 DEF DataReceived, PendingUnset
<1>16. CASE DevStart
  BY <1>0, <1>16 DEF DevStart, clientVars, TypeOK
<1>17. CASE DevAnswer
  <2>1. PICK m \in {"=", "!"} :
          wire' = Append(wire, [mark |-> m, text |-> m = "=" /\ dev.op # "format",
                                to |-> {dev.id}])
    BY <1>17 DEF DevAnswer
  <2>2. [mark |-> m, text |-> m = "=" /\ dev.op # "format", to |-> {dev.id}] \in Prompts
    BY <1>0, IdFacts DEF Prompts, TypeOK, Commands, NoCommand
  <2>3. dev' \in Commands \cup {NoCommand}
    BY <1>17 DEF DevAnswer
  <2> QED
    BY <1>0, <1>17, <2>1, <2>2, <2>3 DEF DevAnswer, clientVars, TypeOK
<1>18. CASE DevInterrupt
  <2>1. PICK i \in DOMAIN toDev :
          /\ wire' = Append(wire, [mark |-> "=", text |-> FALSE,
                                   to |-> {toDev[j].id : j \in 1..i} \cup {dev.id}])
          /\ toDev' = SubSeq(toDev, i + 1, Len(toDev))
          /\ dev' = NoCommand
          /\ UNCHANGED <<clientVars, cancels>>
    BY <1>18 DEF DevInterrupt
  <2>2. i \in 1..Len(toDev) /\ toDev \in Seq(Commands)
    BY <1>0 DEF TypeOK
  <2>3. {toDev[j].id : j \in 1..i} \cup {dev.id} \in SUBSET Ids
    <3>1. \A j \in 1..i : toDev[j] \in Commands
      BY <2>2
    <3>2. \A j \in 1..i : toDev[j].id \in Ids
      BY <3>1 DEF Commands
    <3>3. dev.id \in Ids
      BY <1>0, IdFacts DEF Commands, TypeOK, NoCommand
    <3> QED
      BY <3>2, <3>3
  <2>4. [mark |-> "=", text |-> FALSE, to |-> {toDev[j].id : j \in 1..i} \cup {dev.id}]
          \in Prompts
    BY <2>3 DEF Prompts
  <2>5. toDev' \in Seq(Commands)
    <3>1. \A j \in 1..Len(toDev) : toDev[j] \in Commands
      BY <2>2
    <3> QED
      BY <2>1, <2>2, <3>1
  <2>6. dev' \in Commands \cup {NoCommand}
    BY <2>1
  <2> QED
    BY <1>0, <2>1, <2>4, <2>5, <2>6 DEF clientVars, TypeOK
<1>19. CASE UNCHANGED vars
  BY <1>0, <1>19 DEF vars, TypeOK
<1> QED
  BY <1>1, <1>2, <1>3, <1>4, <1>5, <1>6, <1>7, <1>8, <1>9, <1>10, <1>11, <1>12, <1>13,
     <1>14, <1>15, <1>16, <1>17, <1>18, <1>19 DEF Next

-----------------------------------------------------------------------------
(* What a step can do to the futures and to _pending_response: nothing,    *)
(* open a fresh future on a free line, cancel the pending future, or       *)
(* resolve it.                                                             *)
Opens(f) == /\ pending = NoId /\ pending' = f
            /\ fut[f] = "none" /\ fut'[f] = "unset"
            /\ \A g \in Futures \ {f} : fut'[g] = fut[g]
Cancels(f) == /\ pending' = pending
              /\ fut[f] = "unset" /\ fut'[f] = "cancelled"
              /\ \A g \in Futures \ {f} : fut'[g] = fut[g]
Resolves(f) == /\ pending = f /\ pending' = NoId
               /\ fut[f] = "unset" /\ fut'[f] = "set"
               /\ \A g \in Futures \ {f} : fut'[g] = fut[g]
FutureStep == \/ UNCHANGED <<pending, fut>>
              \/ \E f \in Futures : Opens(f) \/ Cancels(f) \/ Resolves(f)

LEMMA TakeLineStep ==
  ASSUME TypeOK, NEW t \in Tasks, NEW f \in Futures, NEW ops \in SUBSET Ops,
         TakeLine(t, f, ops), fut[f] = "none"
  PROVE  FutureStep
BY TakeLineFacts DEF FutureStep, Opens

LEMMA RequestCancelStep ==
  ASSUME TypeOK, Holder, NEW S \in SUBSET Tasks, RequestCancel(S), UNCHANGED pending
  PROVE  FutureStep
<1>1. /\ fut' \in [Futures -> {"none", "unset", "set", "cancelled"}]
      /\ fut \in [Futures -> {"none", "unset", "set", "cancelled"}]
      /\ \A f \in Futures : (fut'[f] = fut[f]) \/ (fut[f] = "unset" /\ fut'[f] = "cancelled")
  BY RequestCancelFacts DEF TypeOK
<1>2. CASE \A f \in Futures : fut'[f] = fut[f]
  BY <1>1, <1>2 DEF FutureStep
<1>3. ASSUME NEW f \in Futures, fut'[f] # fut[f] PROVE FutureStep
  <2>1. fut[f] = "unset" /\ fut'[f] = "cancelled" /\ pending = f
    BY <1>1, <1>3 DEF Holder
  <2>2. \A g \in Futures \ {f} : fut'[g] = fut[g]
    BY <1>1, <2>1 DEF Holder
  <2> QED
    BY <2>1, <2>2 DEF FutureStep, Cancels
<1> QED
  BY <1>2, <1>3

LEMMA NextFutures == IInv /\ [Next]_vars => FutureStep
<1> SUFFICES ASSUME IInv, [Next]_vars PROVE FutureStep
  OBVIOUS
<1>0. /\ TypeOK /\ Fresh /\ Holder /\ Suspended
      /\ {"intr", "format", "query", "trigger"} \subseteq Ops
      /\ AskOps \subseteq Ops /\ 1 \in 1..MaxCalls /\ 2 \in 1..MaxCalls
  BY DEF IInv, Ops, AskOps
<1>1. CASE UNCHANGED <<pending, fut>>
  BY <1>1 DEF FutureStep
<1>2. CASE RunStart
  <2>1. fut[<<Runner, 1>>] = "none" /\ <<Runner, 1>> \in Futures /\ Runner \in Tasks
    BY <1>0, <1>2, IdFacts DEF RunStart, Fresh
  <2> QED
    BY <1>0, <1>2, <2>1, TakeLineStep DEF RunStart
<1>3. CASE RunReturn
  <2>1. CASE calls[Runner] = 1 /\ TakeLine(Runner, <<Runner, 2>>, {"format"})
    <3>1. fut[<<Runner, 2>>] = "none" /\ <<Runner, 2>> \in Futures /\ Runner \in Tasks
      BY <1>0, <2>1, IdFacts DEF Fresh
    <3> QED
      BY <1>0, <2>1, <3>1, TakeLineStep
  <2> QED
    BY <1>1, <1>3, <2>1 DEF RunReturn
<1>4. ASSUME NEW t \in Tasks, Call(t) PROVE FutureStep
  <2>1. calls[t] + 1 \in 1..MaxCalls /\ calls[t] + 1 > calls[t]
    BY <1>0, <1>4 DEF Call, TypeOK
  <2>2. fut[<<t, calls[t] + 1>>] = "none" /\ <<t, calls[t] + 1>> \in Futures
    BY <1>0, <2>1, IdFacts DEF Fresh
  <2> QED
    BY <1>0, <1>1, <1>4, <2>2, TakeLineStep DEF Call
<1>5. ASSUME NEW t \in Tasks, Recheck(t) PROVE FutureStep
  <2>1. Current(t) \in Futures /\ fut[Current(t)] = "none"
    BY <1>0, <1>5, IdFacts DEF Recheck, Fresh, TypeOK
  <2> QED
    BY <1>0, <1>1, <1>5, <2>1, TakeLineStep DEF Recheck
<1>6. CASE ConnectionLost \/ Shutdown
  <2>1. {t \in {Runner} : pc[t] \in Active} \in SUBSET Tasks
    BY IdFacts
  <2> QED
    BY <1>0, <1>6, <2>1, RequestCancelStep DEF ConnectionLost, Shutdown
<1>7. ASSUME NEW t \in Tasks, Timeout(t) PROVE FutureStep
  <2>1. {t} \in SUBSET Tasks
    OBVIOUS
  <2> QED
    BY <1>0, <1>7, <2>1, RequestCancelStep DEF Timeout
<1>8. CASE DataReceived
  <2>1. CASE /\ pending # NoId /\ fut[pending] = "unset"
             /\ fut' = [fut EXCEPT ![pending] = "set"]
             /\ pending' = NoId
    BY <1>0, <2>1 DEF TypeOK, FutureStep, Resolves
  <2> QED
    BY <1>1, <1>8, <2>1 DEF DataReceived, PendingUnset
<1>9. CASE ConnectionMade \/ RunNeverStarted
  BY <1>1, <1>9 DEF ConnectionMade, RunNeverStarted
<1>10. ASSUME NEW t \in Tasks,
              Return(t) \/ CancelWaiting(t) \/ CancelAwaiting(t) \/ CancelCleanup(t)
                \/ CleanupDone(t)
       PROVE  FutureStep
  BY <1>1, <1>10 DEF Return, CancelWaiting, CancelAwaiting, CancelCleanup, CleanupDone
<1>11. CASE DevStart \/ DevAnswer \/ DevInterrupt
  BY <1>1, <1>11 DEF DevStart, DevAnswer, DevInterrupt, clientVars
<1>12. CASE UNCHANGED vars
  BY <1>1, <1>12 DEF vars
<1> QED
  BY <1>2, <1>3, <1>4, <1>5, <1>6, <1>7, <1>8, <1>9, <1>10, <1>11, <1>12 DEF Next

(* The pending future stays the only one without an outcome.               *)
LEMMA NextHolder == IInv /\ FutureStep => Holder'
BY IdFacts DEF IInv, TypeOK, Holder, FutureStep, Opens, Cancels, Resolves

-----------------------------------------------------------------------------
(* A step that starts no call and opens no future keeps Fresh.             *)
LEMMA KeepsFresh ==
  ASSUME Fresh, calls' = calls,
         \A f \in Futures : fut[f] = "none" => fut'[f] = "none",
         \A t \in Tasks : pc'[t] \in Waiting => pc[t] \in Waiting,
         link' = "closed" => link = "closed" /\ pc'[Runner] = pc[Runner],
         pc'[Runner] \in {"idle", "start"} => pc[Runner] \in {"idle", "start"},
         TypeOK
  PROVE  Fresh'
<1>1. \A t \in Tasks : \A k \in 1..MaxCalls : <<t, k>> \in Futures
  BY IdFacts
<1>2. \A t \in Tasks : calls[t] >= 1 => calls[t] \in 1..MaxCalls
  BY DEF TypeOK
<1> QED
  BY <1>1, <1>2 DEF Fresh

(* A step in which task t takes the line with its next future keeps it.    *)
LEMMA TakingKeepsFresh ==
  ASSUME IInv, NEW t \in Tasks, NEW k \in 1..MaxCalls, NEW ops \in SUBSET Ops,
         TakeLine(t, <<t, k>>, ops), fut[<<t, k>>] = "none",
         calls' \in [Tasks -> 0..MaxCalls], calls'[t] = k, k >= calls[t],
         \A u \in Tasks \ {t} : calls'[u] = calls[u],
         link' = link, t = Runner => link # "closed"
  PROVE  Fresh'
<1>0. TypeOK /\ Fresh /\ <<t, k>> \in Futures
  BY IdFacts DEF IInv
<1>1. /\ \A u \in Tasks \ {t} : pc'[u] = pc[u]
      /\ \A g \in Futures \ {<<t, k>>} : fut'[g] = fut[g]
      /\ pc'[t] = "awaiting" \/ (pc'[t] = "lineWait" /\ fut' = fut)
  BY <1>0, TakeLineFacts
<1>2. \A u \in Tasks : \A j \in 1..MaxCalls : <<u, j>> \in Futures
  BY IdFacts
<1>3. \A u \in Tasks : \A j \in 1..MaxCalls : j > calls'[u] => fut'[<<u, j>>] = "none"
  <2> SUFFICES ASSUME NEW u \in Tasks, NEW j \in 1..MaxCalls, j > calls'[u]
               PROVE fut'[<<u, j>>] = "none"
    OBVIOUS
  <2>1. <<u, j>> # <<t, k>>
    <3>1. u = t => j # k
      OBVIOUS
    <3> QED
      BY <3>1
  <2>2. j > calls[u]
    <3>1. calls[u] \in 0..MaxCalls
      BY <1>0 DEF TypeOK
    <3>2. CASE u = t
      BY <3>1, <3>2
    <3>3. CASE u # t
      BY <3>3
    <3> QED
      BY <3>2, <3>3
  <2> QED
    BY <1>0, <1>1, <1>2, <2>1, <2>2 DEF Fresh
<1>4. \A u \in Tasks : pc'[u] \in Waiting => /\ calls'[u] >= 1
                                             /\ fut'[<<u, calls'[u]>>] = "none"
  <2> SUFFICES ASSUME NEW u \in Tasks, pc'[u] \in Waiting
               PROVE calls'[u] >= 1 /\ fut'[<<u, calls'[u]>>] = "none"
    OBVIOUS
  <2>1. CASE u = t
    BY <1>1, <2>1 DEF Waiting
  <2>2. CASE u # t
    <3>1. pc[u] \in Waiting /\ calls'[u] = calls[u]
      BY <1>1, <2>2
    <3>2. calls[u] \in 1..MaxCalls /\ fut[<<u, calls[u]>>] = "none"
      BY <1>0, <3>1 DEF Fresh, TypeOK
    <3>3. <<u, calls[u]>> \in Futures /\ <<u, calls[u]>> # <<t, k>>
      BY <1>2, <2>2, <3>2
    <3> QED
      BY <1>1, <3>1, <3>2, <3>3
  <2> QED
    BY <2>1, <2>2
<1>5. /\ link' = "closed" => pc'[Runner] = "idle"
      /\ pc'[Runner] \in {"idle", "start"} => calls'[Runner] = 0
  <2>1. CASE t = Runner
    BY <1>1, <2>1
  <2>2. CASE t # Runner
    BY <1>0, <1>1, <2>2, IdFacts DEF Fresh
  <2> QED
    BY <2>1, <2>2
<1> QED
  BY <1>3, <1>4, <1>5 DEF Fresh

LEMMA NextFresh == IInv /\ [Next]_vars => Fresh'
<1> SUFFICES ASSUME IInv, [Next]_vars PROVE Fresh'
  OBVIOUS
<1>0. /\ TypeOK /\ Fresh /\ Holder /\ Suspended /\ Runner \in Tasks
      /\ {"intr", "format", "query", "trigger"} \subseteq Ops
      /\ AskOps \subseteq Ops /\ 1 \in 1..MaxCalls /\ 2 \in 1..MaxCalls
  BY IdFacts DEF IInv, Ops, AskOps
<1>3. CASE ConnectionMade
  <2>1. /\ pc[Runner] = "idle" /\ link' = "open" /\ UNCHANGED <<calls, fut>>
        /\ pc' = [pc EXCEPT ![Runner] = "start"]
    BY <1>0, <1>3 DEF ConnectionMade, Fresh
  <2>2. \A t \in Tasks : pc'[t] \in Waiting => pc[t] \in Waiting
    BY <1>0, <2>1 DEF Waiting, TypeOK
  <2> QED
    BY <1>0, <2>1, <2>2, KeepsFresh
<1>4. CASE RunStart
  <2>1. calls[Runner] = 0 /\ fut[<<Runner, 1>>] = "none" /\ link # "closed"
    BY <1>0, <1>4 DEF RunStart, Fresh
  <2>2. calls' \in [Tasks -> 0..MaxCalls] /\ calls'[Runner] = 1
        /\ \A u \in Tasks \ {Runner} : calls'[u] = calls[u]
    BY <1>0, <1>4 DEF RunStart, TypeOK
  <2> QED
    BY <1>0, <1>4, <2>1, <2>2, TakingKeepsFresh DEF RunStart
<1>5. CASE RunReturn
  <2>1. /\ pc[Runner] = "awaiting" /\ link # "closed" /\ link' = link
    BY <1>0, <1>5 DEF RunReturn, Fresh
  <2>2. CASE Finish(Runner, "error") /\ UNCHANGED <<calls, fut>>
    <3>1. /\ \A u \in Tasks \ {Runner} : pc'[u] = pc[u]
          /\ pc'[Runner] = "failed"
      BY <1>0, <2>2, FinishFacts DEF Finish, TypeOK
    <3> QED
      BY <1>0, <2>1, <2>2, <3>1, KeepsFresh DEF Waiting
  <2>3. CASE /\ calls[Runner] = 1
             /\ calls' = [calls EXCEPT ![Runner] = 2]
             /\ TakeLine(Runner, <<Runner, 2>>, {"format"})
    <3>1. fut[<<Runner, 2>>] = "none"
      BY <1>0, <2>3 DEF Fresh
    <3>2. calls' \in [Tasks -> 0..MaxCalls] /\ calls'[Runner] = 2
          /\ \A u \in Tasks \ {Runner} : calls'[u] = calls[u]
      BY <1>0, <2>3 DEF TypeOK
    <3> QED
      BY <1>0, <2>1, <2>3, <3>1, <3>2, TakingKeepsFresh
  <2>4. CASE pc' = [pc EXCEPT ![Runner] = "done"] /\ UNCHANGED <<calls, fut>>
    BY <1>0, <2>1, <2>4, KeepsFresh DEF Waiting, TypeOK
  <2> QED
    BY <1>5, <2>2, <2>3, <2>4 DEF RunReturn
<1>6. CASE RunNeverStarted
  BY <1>0, <1>6, KeepsFresh DEF RunNeverStarted, TypeOK, Waiting, Fresh
<1>7. CASE ConnectionLost \/ Shutdown
  <2>1. \A f \in Futures : fut[f] = "none" => fut'[f] = "none"
    BY <1>7 DEF ConnectionLost, Shutdown, RequestCancel
  <2> QED
    BY <1>0, <1>7, <2>1, KeepsFresh DEF ConnectionLost, Shutdown
<1>8. ASSUME NEW t \in Tasks, Call(t) PROVE Fresh'
  <2>1. /\ t # Runner /\ calls[t] \in 0..MaxCalls /\ calls[t] < MaxCalls
        /\ calls[t] + 1 \in 1..MaxCalls
    BY <1>0, <1>8 DEF Call, TypeOK
  <2>2. /\ calls' \in [Tasks -> 0..MaxCalls] /\ calls'[t] = calls[t] + 1
        /\ \A u \in Tasks \ {t} : calls'[u] = calls[u]
    BY <1>0, <1>8, <2>1 DEF Call, TypeOK
  <2>3. fut[<<t, calls[t] + 1>>] = "none"
    BY <1>0, <2>1 DEF Fresh
  <2>4. CASE TakeLine(t, <<t, calls[t] + 1>>, AskOps)
    BY <1>0, <1>8, <2>1, <2>2, <2>3, <2>4, TakingKeepsFresh DEF Call
  <2>5. CASE pc' = [pc EXCEPT ![t] = "connWait"] /\ UNCHANGED fut
    <3>1. \A u \in Tasks : \A k \in 1..MaxCalls : k > calls'[u] => fut'[<<u, k>>] = "none"
      <4> SUFFICES ASSUME NEW u \in Tasks, NEW k \in 1..MaxCalls, k > calls'[u]
                   PROVE k > calls[u]
        BY <1>0, <2>5 DEF Fresh
      <4>1. CASE u = t
        BY <2>1, <2>2, <4>1
      <4>2. CASE u # t
        BY <2>2, <4>2
      <4> QED
        BY <4>1, <4>2
    <3>2. \A u \in Tasks : pc'[u] \in Waiting => /\ calls'[u] >= 1
                                                 /\ fut'[<<u, calls'[u]>>] = "none"
      <4> SUFFICES ASSUME NEW u \in Tasks, pc'[u] \in Waiting
                   PROVE calls'[u] >= 1 /\ fut'[<<u, calls'[u]>>] = "none"
        OBVIOUS
      <4>1. CASE u = t
        BY <2>1, <2>2, <2>3, <2>5, <4>1
      <4>2. CASE u # t
        BY <1>0, <2>2, <2>5, <4>2 DEF Fresh, TypeOK
      <4> QED
        BY <4>1, <4>2
    <3>3. /\ link' = "closed" => pc'[Runner] = "idle"
          /\ pc'[Runner] \in {"idle", "start"} => calls'[Runner] = 0
      BY <1>0, <1>8, <2>1, <2>2, <2>5 DEF Fresh, TypeOK, Call
    <3> QED
      BY <3>1, <3>2, <3>3 DEF Fresh
  <2> QED
    BY <1>8, <2>4, <2>5 DEF Call
<1>9. ASSUME NEW t \in Tasks, Recheck(t) PROVE Fresh'
  <2>1. /\ calls[t] \in 1..MaxCalls /\ fut[<<t, calls[t]>>] = "none"
        /\ calls' = calls /\ link' = link /\ calls \in [Tasks -> 0..MaxCalls]
        /\ t = Runner => link # "closed"
    BY <1>0, <1>9 DEF Recheck, Fresh, TypeOK, Waiting
  <2>2. CASE UNCHANGED <<pc, fut>>
    BY <1>0, <2>1, <2>2, KeepsFresh
  <2>3. CASE TakeLine(t, <<t, calls[t]>>, AskOps)
    BY <1>0, <2>1, <2>3, TakingKeepsFresh
  <2> QED
    BY <1>9, <2>2, <2>3 DEF Recheck, Current
<1>10. ASSUME NEW t \in Tasks, Timeout(t) PROVE Fresh'
  <2>1. \A f \in Futures : fut[f] = "none" => fut'[f] = "none"
    BY <1>10 DEF Timeout, RequestCancel
  <2> QED
    BY <1>0, <1>10, <2>1, KeepsFresh DEF Timeout
<1>11. ASSUME NEW t \in Tasks,
              Return(t) \/ CancelWaiting(t) \/ CancelAwaiting(t) \/ CancelCleanup(t)
                \/ CleanupDone(t)
       PROVE  Fresh'
  <2>1. UNCHANGED <<calls, fut, link>>
    BY <1>11 DEF Return, CancelWaiting, CancelAwaiting, CancelCleanup, CleanupDone
  <2>2. pc[t] \in {"awaiting", "cleanup"} \cup Waiting
    BY <1>11 DEF Return, CancelWaiting, CancelAwaiting, CancelCleanup, CleanupDone
  <2>3. CASE pc' = [pc EXCEPT ![t] = "cleanup"]
    BY <1>0, <2>1, <2>2, <2>3, KeepsFresh DEF TypeOK, Waiting, Fresh
  <2>4. ASSUME NEW how, Finish(t, how), t = Runner => how # "idle" PROVE Fresh'
    <3>1. /\ \A u \in Tasks \ {t} : pc'[u] = pc[u]
          /\ pc'[t] \in {"idle", "done", "failed"}
          /\ t = Runner => pc'[t] # "idle"
      BY <1>0, <2>4, FinishFacts DEF Finish, TypeOK
    <3>2. t = Runner => link # "closed"
      BY <1>0, <2>2 DEF Fresh, Waiting
    <3> QED
      BY <1>0, <2>1, <3>1, <3>2, KeepsFresh DEF Waiting
  <2> QED
    BY <1>11, <2>3, <2>4 DEF Return, CancelWaiting, CancelAwaiting, CancelCleanup,
       CleanupDone
<1>12. CASE DataReceived
  <2>1. \A f \in Futures : fut[f] = "none" => fut'[f] = "none"
    BY <1>0, <1>12 DEF DataReceived, PendingUnset, TypeOK
  <2> QED
    BY <1>0, <1>12, <2>1, KeepsFresh DEF DataReceived
<1>13. CASE DevStart \/ DevAnswer \/ DevInterrupt \/ UNCHANGED vars
  <2>1. UNCHANGED <<pc, calls, fut, link>>
    BY <1>13 DEF DevStart, DevAnswer, DevInterrupt, clientVars, vars
  <2> QED
    BY <1>0, <2>1, KeepsFresh
<1> QED
  BY <1>3, <1>4, <1>5, <1>6, <1>7, <1>8, <1>9, <1>10, <1>11, <1>12, <1>13 DEF Next

-----------------------------------------------------------------------------
(* A future that a task awaits has been created, and stays so.             *)
LEMMA KeepsSuspended ==
  ASSUME Suspended, FutureStep, TypeOK,
         \A t \in Tasks : pc'[t] \in {"awaiting", "cleanup"} =>
           \/ pc[t] \in {"awaiting", "cleanup"} /\ on'[t] = on[t]
           \/ on'[t] \in Futures /\ fut'[on'[t]] # "none"
  PROVE  Suspended'
BY DEF Suspended, FutureStep, Opens, Cancels, Resolves

LEMMA TakingKeepsSuspended ==
  ASSUME IInv, FutureStep, NEW t \in Tasks, NEW f \in Futures, NEW ops \in SUBSET Ops,
         TakeLine(t, f, ops)
  PROVE  Suspended'
<1>1. TypeOK /\ Suspended
  BY DEF IInv
<1> QED
  BY <1>1, TakeLineFacts, KeepsSuspended

LEMMA NextSuspended == IInv /\ [Next]_vars => Suspended'
<1> SUFFICES ASSUME IInv, [Next]_vars PROVE Suspended'
  OBVIOUS
<1>0. /\ TypeOK /\ Fresh /\ Holder /\ Suspended /\ Runner \in Tasks
      /\ {"intr", "format", "query", "trigger"} \subseteq Ops
      /\ AskOps \subseteq Ops /\ 1 \in 1..MaxCalls /\ 2 \in 1..MaxCalls
      /\ FutureStep
  BY IdFacts, NextFutures DEF IInv, Ops, AskOps
<1>1. CASE UNCHANGED <<pc, on>>
  BY <1>0, <1>1, KeepsSuspended
<1>2. ASSUME NEW t \in Tasks, NEW how, Finish(t, how), UNCHANGED on PROVE Suspended'
  BY <1>0, <1>2, FinishFacts, KeepsSuspended
<1>3. ASSUME NEW t \in Tasks, NEW v \in {"start", "connWait", "failed", "done"},
             pc' = [pc EXCEPT ![t] = v], UNCHANGED on
      PROVE  Suspended'
  BY <1>0, <1>3, KeepsSuspended DEF TypeOK
<1>4. CASE ConnectionMade \/ RunNeverStarted
  BY <1>0, <1>3, <1>4 DEF ConnectionMade, RunNeverStarted
<1>5. CASE RunStart
  BY <1>0, <1>5, IdFacts, TakingKeepsSuspended DEF RunStart
<1>6. CASE RunReturn
  BY <1>0, <1>2, <1>3, <1>6, IdFacts, TakingKeepsSuspended DEF RunReturn
<1>7. ASSUME NEW t \in Tasks, Call(t) PROVE Suspended'
  <2>1. <<t, calls[t] + 1>> \in Futures
    BY <1>0, <1>7, IdFacts DEF Call, TypeOK
  <2> QED
    BY <1>0, <1>3, <1>7, <2>1, TakingKeepsSuspended DEF Call
<1>8. ASSUME NEW t \in Tasks, Recheck(t) PROVE Suspended'
  <2>1. Current(t) \in Futures
    BY <1>0, <1>8, IdFacts DEF Recheck, Fresh, TypeOK
  <2> QED
    BY <1>0, <1>1, <1>8, <2>1, TakingKeepsSuspended DEF Recheck
<1>9. ASSUME NEW t \in Tasks, CancelAwaiting(t) PROVE Suspended'
  <2>1. CASE /\ pending # NoId /\ fut[pending] = "unset"
             /\ pc' = [pc EXCEPT ![t] = "cleanup"]
             /\ on' = [on EXCEPT ![t] = pending]
    <3>1. fut' = fut
      BY <1>9 DEF CancelAwaiting
    <3>2. pending \in Futures /\ fut'[pending] # "none"
      BY <1>0, <2>1, <3>1 DEF TypeOK
    <3> QED
      BY <1>0, <2>1, <3>2, KeepsSuspended DEF TypeOK
  <2> QED
    BY <1>2, <1>9, <2>1 DEF CancelAwaiting, PendingUnset
<1>10. ASSUME NEW t \in Tasks,
              Return(t) \/ CancelWaiting(t) \/ CancelCleanup(t) \/ CleanupDone(t)
       PROVE  Suspended'
  BY <1>2, <1>10 DEF Return, CancelWaiting, CancelCleanup, CleanupDone
<1>11. CASE ConnectionLost \/ Shutdown \/ DataReceived \/ DevStart \/ DevAnswer
              \/ DevInterrupt \/ UNCHANGED vars
  BY <1>1, <1>11 DEF ConnectionLost, Shutdown, DataReceived, DevStart, DevAnswer,
     DevInterrupt, clientVars, vars
<1>12. ASSUME NEW t \in Tasks, Timeout(t) PROVE Suspended'
  BY <1>1, <1>12 DEF Timeout
<1> QED
  BY <1>4, <1>5, <1>6, <1>7, <1>8, <1>9, <1>10, <1>11, <1>12 DEF Next

-----------------------------------------------------------------------------
(* The inductive invariant of the client, and what follows from it.        *)

LEMMA NextIInv == IInv /\ [Next]_vars => IInv'
BY NextType, NextFresh, NextSuspended, NextFutures, NextHolder DEF IInv

(* The inductive invariant of the client (types, fresh futures, suspended  *)
(* callers, the holder of the lock) holds in every behaviour of fluke.py.  *)
THEOREM Invariance == Spec => []IInv
BY InitIInv, NextIInv, PTL DEF Spec

(* Type correctness.                                                       *)
THEOREM TypeCorrect == Spec => []TypeOK
<1>1. IInv => TypeOK
  BY DEF IInv
<1> QED
  BY <1>1, Invariance, PTL

(* Every task suspended in _ask on a future without an outcome is served   *)
(* by the next prompt: its future is _pending_response.                    *)
THEOREM AwaitsPendingAlways == Spec => []AwaitsPending
<1>1. IInv => AwaitsPending
  BY DEF IInv, Holder, Suspended, AwaitsPending
<1> QED
  BY <1>1, Invariance, PTL

(* The futures of _ask implement the turn-taking of RequestLine.           *)
THEOREM TakesTurnsAlways == Spec => TakesTurns
<1>1. Init => Line!Init
  BY DEF Init, Line!Init
<1>2. IInv /\ [Next]_vars => [Line!Next]_fut
  <2> SUFFICES ASSUME IInv, [Next]_vars PROVE [Line!Next]_fut
    OBVIOUS
  <2>1. FutureStep /\ TypeOK /\ TypeOK' /\ Holder
    BY NextFutures, NextType DEF IInv
  <2>2. /\ fut \in [Futures -> {"none", "unset", "set", "cancelled"}]
        /\ fut' \in [Futures -> {"none", "unset", "set", "cancelled"}]
    BY <2>1 DEF TypeOK
  <2>3. ASSUME NEW f \in Futures, Opens(f) PROVE Line!Open(f)
    <3>1. Line!Holders = {}
      BY <2>1, <2>3, IdFacts DEF Line!Holders, Holder, Opens
    <3> QED
      BY <2>2, <2>3, <3>1 DEF Line!Open, Opens
  <2>4. ASSUME NEW f \in Futures, Cancels(f) PROVE Line!Abandon(f)
    BY <2>2, <2>4 DEF Line!Abandon, Cancels
  <2>5. ASSUME NEW f \in Futures, Resolves(f) PROVE Line!Answer(f)
    BY <2>2, <2>5 DEF Line!Answer, Resolves
  <2> QED
    BY <2>1, <2>3, <2>4, <2>5 DEF FutureStep, Line!Next
<1> QED
  BY <1>1, <1>2, Invariance, PTL DEF Spec, TakesTurns, Line!Spec

-----------------------------------------------------------------------------
(* The handshake.                                                          *)

Answered(k) == /\ fut[<<Runner, k>>] = "set"
               /\ reply[<<Runner, k>>].resp \notin Errors

(* Up to READY only _run uses the line, and callers wait in connect();     *)
(* READY is reached with both commands answered, and is final.             *)
Handshake ==
  /\ state = "READY" <=> pc[Runner] = "done"
  /\ state # "READY" => \A t \in Askers : /\ pc[t] \in {"idle", "connWait"}
                                         /\ \A k \in 1..MaxCalls : fut[<<t, k>>] = "none"
  /\ pc[Runner] \notin Waiting
  /\ pc[Runner] = "awaiting" => /\ on[Runner] = <<Runner, calls[Runner]>>
                                /\ calls[Runner] >= 1
  /\ \A k \in 1..MaxCalls : k > 2 => fut[<<Runner, k>>] = "none"
  /\ calls[Runner] = 2 => Answered(1)
  /\ calls[Runner] <= 2
  /\ state = "READY" => Answered(1) /\ Answered(2)
  /\ notified \subseteq {t \in Tasks : pc[t] \in Waiting}
  /\ link = "closed" => state = "DISCONNECTED"

LEMMA InitHandshake == Init => Handshake
BY IdFacts DEF Init, Handshake, Waiting, Futures, Tasks

(* Responses, once given, are not changed.                                 *)
LEMMA AnsweredStable ==
  ASSUME IInv, [Next]_vars, NEW f \in Futures, fut[f] = "set"
  PROVE  fut'[f] = "set" /\ reply'[f] = reply[f]
<1>1. fut'[f] = "set"
  BY NextFutures DEF FutureStep, Opens, Cancels, Resolves
<1>2. TypeOK /\ TypeOK'
  BY NextType DEF IInv
<1>3. CASE reply' = reply
  BY <1>1, <1>3
<1>4. CASE DataReceived
  <2>1. CASE pending # NoId /\ fut[pending] = "unset"
    <3>1. pending # f /\ pending \in Futures
      BY <1>2, <2>1 DEF TypeOK
    <3>2. reply'[f] = reply[f]
      BY <1>2, <1>4, <3>1 DEF DataReceived, TypeOK
    <3> QED
      BY <1>1, <3>2
  <2> QED
    BY <1>3, <1>4, <2>1 DEF DataReceived, PendingUnset
<1>5. CASE ~DataReceived
  BY <1>3, <1>5 DEF Next, vars, clientVars, ConnectionMade, RunStart, RunReturn,
     RunNeverStarted, ConnectionLost, Shutdown, Call, Recheck, Return, Timeout,
     CancelWaiting, CancelAwaiting, CancelCleanup, CleanupDone, DevStart, DevAnswer,
     DevInterrupt
<1> QED
  BY <1>4, <1>5

(* While the handshake runs, _run finds the line free.                     *)
LEMMA FreeForRunner ==
  ASSUME IInv, Handshake, state # "READY",
         \A k \in 1..MaxCalls : fut[<<Runner, k>>] \in {"none", "set"}
  PROVE  pending = NoId
<1>1. \A f \in Futures : fut[f] \in {"none", "set"}
  <2> SUFFICES ASSUME NEW t \in Tasks, NEW k \in 1..MaxCalls
               PROVE  fut[<<t, k>>] \in {"none", "set"}
    BY DEF Futures
  <2> QED
    BY DEF Handshake, Tasks
<1> QED
  BY <1>1 DEF IInv, Holder, TypeOK

LEMMA NextHandshake == IInv /\ Handshake /\ [Next]_vars => Handshake'
<1> SUFFICES ASSUME IInv, Handshake, [Next]_vars PROVE Handshake'
  OBVIOUS
<1>0. /\ TypeOK /\ TypeOK' /\ Fresh /\ FutureStep
      /\ Runner \in Tasks /\ Askers \subseteq Tasks /\ Tasks = Askers \cup {Runner}
      /\ 1 \in 1..MaxCalls /\ 2 \in 1..MaxCalls
      /\ \A t \in Tasks : \A k \in 1..MaxCalls : <<t, k>> \in Futures
      /\ {"intr"} \in SUBSET Ops /\ {"format"} \in SUBSET Ops /\ AskOps \in SUBSET Ops
  BY IdFacts, NextType, NextFutures DEF IInv, Tasks, Ops, AskOps
<1>1. \A k \in {1, 2} : Answered(k) => Answered(k)'
  BY <1>0, AnsweredStable DEF Answered
<1>2. ASSUME \A f \in Futures : fut[f] = "none" => fut'[f] = "none",
             UNCHANGED <<calls, state, on>>,
             pc'[Runner] = pc[Runner], link' = "closed" => link = "closed",
             \A t \in Askers : pc[t] \in {"idle", "connWait"} => pc'[t] \in {"idle", "connWait"},
             notified' \subseteq {t \in Tasks : pc'[t] \in Waiting}
      PROVE  Handshake'
  BY <1>0, <1>1, <1>2 DEF Handshake, Waiting
<1>4. CASE ConnectionMade
  <2>1. pc[Runner] = "idle" /\ pc' = [pc EXCEPT ![Runner] = "start"] /\ link' = "open"
        /\ UNCHANGED <<state, calls, on, notified, fut, reply>>
    BY <1>0, <1>4 DEF ConnectionMade, Fresh
  <2>2. \A t \in Askers : pc'[t] = pc[t]
    BY <1>0, <2>1, RunnerAssumption DEF TypeOK
  <2> QED
    BY <1>0, <1>1, <2>1, <2>2, RunnerAssumption DEF Handshake, Waiting, TypeOK
<1>5. CASE RunStart
  <2>1. /\ pc[Runner] = "start" /\ calls[Runner] = 0 /\ state # "READY" /\ link # "closed"
        /\ state' = "CONNECTING" /\ calls' = [calls EXCEPT ![Runner] = 1]
        /\ link' = link /\ NotifyAll
    BY <1>0, <1>5 DEF RunStart, Fresh, Handshake
  <2>2. pending = NoId
    BY <1>0, <2>1, FreeForRunner DEF Fresh
  <2>3. /\ \A u \in Tasks \ {Runner} : pc'[u] = pc[u]
        /\ \A g \in Futures \ {<<Runner, 1>>} : fut'[g] = fut[g]
        /\ pc'[Runner] = "awaiting" /\ on'[Runner] = <<Runner, 1>>
    BY <1>0, <1>5, <2>2, TakeLineFacts DEF RunStart
  <2>4. calls'[Runner] = 1
    BY <1>0, <2>1 DEF TypeOK
  <2>5. notified' \subseteq {t \in Tasks : pc'[t] \in Waiting}
    BY <1>0, <2>1, <2>3 DEF NotifyAll, Handshake, Waiting
  <2>6. \A t \in Askers : /\ pc'[t] \in {"idle", "connWait"}
                          /\ \A k \in 1..MaxCalls : fut'[<<t, k>>] = "none"
    BY <1>0, <2>1, <2>3, RunnerAssumption DEF Handshake
  <2>7. \A k \in 1..MaxCalls : k > 2 => fut'[<<Runner, k>>] = "none"
    BY <1>0, <2>3 DEF Handshake
  <2> QED
    BY <2>1, <2>3, <2>4, <2>5, <2>6, <2>7 DEF Handshake, Waiting
<1>6. CASE RunReturn
  <2>1. /\ pc[Runner] = "awaiting" /\ state # "READY" /\ link # "closed" /\ link' = link
        /\ on[Runner] = <<Runner, calls[Runner]>> /\ calls[Runner] \in {1, 2}
        /\ fut[on[Runner]] = "set"
    BY <1>0, <1>6 DEF RunReturn, Fresh, Handshake, TypeOK
  <2>2. CASE Finish(Runner, "error") /\ UNCHANGED <<calls, on, notified, pending, fut, toDev>>
    <3>1. /\ \A u \in Tasks \ {Runner} : pc'[u] = pc[u]
          /\ pc'[Runner] = "failed" /\ state' = state
      BY <1>0, <2>2 DEF Finish, TypeOK
    <3> QED
      BY <1>0, <1>1, <2>1, <2>2, <3>1, RunnerAssumption DEF Handshake, Waiting
  <2>3. CASE /\ reply[on[Runner]].resp \notin Errors /\ calls[Runner] = 1
             /\ calls' = [calls EXCEPT ![Runner] = 2]
             /\ TakeLine(Runner, <<Runner, 2>>, {"format"})
             /\ UNCHANGED <<state, notified>>
    <3>1. pending = NoId
      BY <1>0, <2>1, <2>3, FreeForRunner DEF Fresh
    <3>2. /\ \A u \in Tasks \ {Runner} : pc'[u] = pc[u]
          /\ \A g \in Futures \ {<<Runner, 2>>} : fut'[g] = fut[g]
          /\ pc'[Runner] = "awaiting" /\ on'[Runner] = <<Runner, 2>>
      BY <1>0, <2>3, <3>1, TakeLineFacts
    <3>3. calls'[Runner] = 2
      BY <1>0, <2>3 DEF TypeOK
    <3>4. Answered(1)'
      BY <1>1, <2>1, <2>3 DEF Answered
    <3>5. \A t \in Askers : /\ pc'[t] \in {"idle", "connWait"}
                            /\ \A k \in 1..MaxCalls : fut'[<<t, k>>] = "none"
      BY <1>0, <2>1, <3>2, RunnerAssumption DEF Handshake
    <3>6. \A k \in 1..MaxCalls : k > 2 => fut'[<<Runner, k>>] = "none"
      BY <1>0, <3>2 DEF Handshake
    <3>7. notified' \subseteq {t \in Tasks : pc'[t] \in Waiting}
      BY <1>0, <2>1, <2>3, <3>2 DEF Handshake
    <3> QED
      BY <2>1, <2>3, <3>2, <3>3, <3>4, <3>5, <3>6, <3>7 DEF Handshake, Waiting
  <2>4. CASE /\ reply[on[Runner]].resp \notin Errors /\ calls[Runner] = 2
             /\ state' = "READY"
             /\ NotifyAll
             /\ pc' = [pc EXCEPT ![Runner] = "done"]
             /\ UNCHANGED <<calls, on, pending, fut, toDev>>
    <3>1. Answered(1)' /\ Answered(2)'
      BY <1>1, <2>1, <2>4 DEF Answered, Handshake
    <3>2. pc'[Runner] = "done" /\ \A u \in Tasks \ {Runner} : pc'[u] = pc[u]
      BY <1>0, <2>4 DEF TypeOK
    <3>3. notified' \subseteq {t \in Tasks : pc'[t] \in Waiting}
      BY <1>0, <2>1, <2>4, <3>2 DEF NotifyAll, Handshake, Waiting
    <3> QED
      BY <2>1, <2>4, <3>1, <3>2, <3>3 DEF Handshake, Waiting
  <2> QED
    BY <1>6, <2>2, <2>3, <2>4 DEF RunReturn
<1>7. CASE RunNeverStarted
  BY <1>0, <1>1, <1>7, RunnerAssumption DEF RunNeverStarted, Handshake, Waiting, TypeOK
<1>8. CASE ConnectionLost \/ Shutdown
  <2>1. \A f \in Futures : fut[f] = "none" => fut'[f] = "none"
    BY <1>8 DEF ConnectionLost, Shutdown, RequestCancel
  <2> QED
    BY <1>2, <1>8, <2>1 DEF ConnectionLost, Shutdown, Handshake
<1>9. ASSUME NEW t \in Tasks, Timeout(t) PROVE Handshake'
  <2>1. \A f \in Futures : fut[f] = "none" => fut'[f] = "none"
    BY <1>9 DEF Timeout, RequestCancel
  <2> QED
    BY <1>2, <1>9, <2>1 DEF Timeout, Handshake
<1>10. ASSUME NEW t \in Askers, NEW f \in Futures, \E k \in 1..MaxCalls : f = <<t, k>>,
              state = "READY", TakeLine(t, f, AskOps),
              UNCHANGED <<state, link>>, calls'[Runner] = calls[Runner],
              notified' \subseteq notified, t \notin notified'
       PROVE  Handshake'
  <2>1. /\ \A u \in Tasks \ {t} : pc'[u] = pc[u] /\ on'[u] = on[u]
        /\ \A g \in Futures \ {f} : fut'[g] = fut[g]
    BY <1>0, <1>10, TakeLineFacts
  <2>2. t # Runner
    BY <1>10, RunnerAssumption
  <2> QED
    BY <1>0, <1>1, <1>10, <2>1, <2>2 DEF Handshake, Waiting
<1>11. ASSUME NEW t \in Tasks, Call(t) PROVE Handshake'
  <2>1. /\ t \in Askers /\ t # Runner /\ pc[t] = "idle" /\ calls[t] + 1 \in 1..MaxCalls
        /\ calls'[Runner] = calls[Runner] /\ UNCHANGED <<state, link, notified>>
        /\ t \notin notified
    BY <1>0, <1>11 DEF Call, TypeOK, Handshake, Waiting
  <2>2. CASE Connected /\ TakeLine(t, <<t, calls[t] + 1>>, AskOps)
    <3>1. <<t, calls[t] + 1>> \in Futures /\ state = "READY"
      BY <1>0, <2>1, <2>2 DEF Connected
    <3> QED
      BY <1>10, <2>1, <2>2, <3>1
  <2>3. CASE pc' = [pc EXCEPT ![t] = "connWait"] /\ UNCHANGED <<fut, on>>
    <3>1. pc'[t] = "connWait" /\ \A u \in Tasks \ {t} : pc'[u] = pc[u]
      BY <1>0, <2>3 DEF TypeOK
    <3> QED
      BY <1>0, <1>1, <2>1, <2>3, <3>1 DEF Handshake, Waiting
  <2> QED
    BY <1>11, <2>2, <2>3 DEF Call
<1>12. ASSUME NEW t \in Tasks, Recheck(t) PROVE Handshake'
  <2>1. /\ pc[t] \in Waiting /\ t \in Askers /\ notified' = notified \ {t}
        /\ pc[t] = "lineWait" => state = "READY"
        /\ UNCHANGED <<state, link, calls>>
    BY <1>0, <1>12 DEF Recheck, Handshake, Waiting
  <2>2. CASE (pc[t] = "lineWait" \/ Connected) /\ TakeLine(t, Current(t), AskOps)
    <3>1. calls[t] \in 1..MaxCalls /\ Current(t) = <<t, calls[t]>> /\ Current(t) \in Futures
      BY <1>0, <2>1 DEF Fresh, TypeOK, Waiting, Current
    <3> QED
      BY <1>10, <2>1, <2>2, <3>1 DEF Connected
  <2>3. CASE UNCHANGED <<pc, fut, on>>
    BY <1>2, <2>1, <2>3 DEF Handshake
  <2> QED
    BY <1>12, <2>1, <2>2, <2>3 DEF Recheck
<1>13. ASSUME NEW t \in Tasks,
              Return(t) \/ CancelWaiting(t) \/ CancelAwaiting(t) \/ CancelCleanup(t)
                \/ CleanupDone(t)
       PROVE  Handshake'
  <2>1. /\ UNCHANGED <<calls, fut, link, reply>>
        /\ notified' \subseteq notified \cup {u \in Tasks : pc[u] \in Waiting}
        /\ pc[t] \in {"awaiting", "cleanup", "connWait", "lineWait"}
        /\ pc[t] \in Waiting => t \notin notified'
    BY <1>13 DEF PassOn, Return, CancelWaiting, CancelAwaiting, CancelCleanup, CleanupDone, Waiting
  <2>2. t = Runner => state # "READY" /\ link # "closed"
    BY <1>0, <2>1 DEF Handshake, Fresh
  <2>3. CASE pc' = [pc EXCEPT ![t] = "cleanup"] /\ on' = [on EXCEPT ![t] = pending]
             /\ UNCHANGED state /\ pc[t] = "awaiting"
    BY <1>0, <1>1, <2>1, <2>2, <2>3, RunnerAssumption DEF Handshake, Waiting, TypeOK
  <2>4. ASSUME NEW how, how # "ok" \/ t # Runner, Finish(t, how), UNCHANGED on
        PROVE Handshake'
    <3>1. /\ \A u \in Tasks \ {t} : pc'[u] = pc[u]
          /\ t = Runner => pc'[t] = "failed" /\ state' \in {state, "DISCONNECTED"}
          /\ t # Runner => pc'[t] = "idle" /\ state' = state
      BY <1>0, <2>4 DEF Finish, TypeOK
    <3> QED
      BY <1>0, <1>1, <2>1, <2>2, <2>4, <3>1, RunnerAssumption DEF Handshake, Waiting
  <2>5. CASE Return(t) \/ CancelWaiting(t) \/ CancelCleanup(t) \/ CleanupDone(t)
    BY <2>4, <2>5 DEF Return, CancelWaiting, CancelCleanup, CleanupDone
  <2>6. CASE CancelAwaiting(t)
    BY <2>3, <2>4, <2>6 DEF CancelAwaiting
  <2> QED
    BY <1>13, <2>5, <2>6
<1>14. CASE DataReceived
  <2>1. \A f \in Futures : fut[f] = "none" => fut'[f] = "none"
    BY <1>0, <1>14 DEF DataReceived, PendingUnset, TypeOK
  <2> QED
    BY <1>2, <1>14, <2>1 DEF DataReceived, Handshake
<1>15. CASE DevStart \/ DevAnswer \/ DevInterrupt \/ UNCHANGED vars
  <2>1. UNCHANGED <<state, link, pc, calls, on, notified, fut>>
    BY <1>15 DEF DevStart, DevAnswer, DevInterrupt, clientVars, vars
  <2> QED
    BY <1>2, <2>1 DEF Handshake
<1> QED
  BY <1>4, <1>5, <1>6, <1>7, <1>8, <1>9, <1>11, <1>12, <1>13, <1>14, <1>15 DEF Next

LEMMA HandshakeInvariance == Spec => [](IInv /\ Handshake)
BY InitIInv, NextIInv, InitHandshake, NextHandshake, PTL DEF Spec

(* No caller's command is written before the handshake has succeeded.      *)
THEOREM HandshakeFirstAlways == Spec => []HandshakeFirst
<1>1. Handshake => HandshakeFirst
  BY DEF Handshake, HandshakeFirst, Answered
<1> QED
  BY <1>1, HandshakeInvariance, PTL

(* Nobody who waits in connect() goes to sleep again.                      *)
LEMMA NextWoken ==
  ASSUME IInv, Handshake, WokenWhenReady, [Next]_vars PROVE WokenWhenReady'
<1> SUFFICES ASSUME state' = "READY", NEW t \in Tasks, pc'[t] = "connWait"
             PROVE  t \in notified' \cup cancel'
  BY DEF WokenWhenReady
<1>0. TypeOK /\ Runner \in Tasks /\ pc[Runner] \notin Waiting
  BY IdFacts DEF IInv, Handshake
<1>1. CASE RunReturn
  <2>1. CASE state' = "READY" /\ NotifyAll /\ pc' = [pc EXCEPT ![Runner] = "done"]
    BY <1>0, <2>1 DEF NotifyAll, TypeOK, Waiting
  <2>2. CASE state' = state
    BY <1>0, <1>1, <2>2 DEF RunReturn, Handshake
  <2>3. QED
    BY <1>1, <2>1, <2>2 DEF RunReturn, Finish
<1>2. ASSUME state' = state, pc[t] = "connWait", UNCHANGED <<notified, cancel>>
      PROVE  t \in notified' \cup cancel'
  BY <1>2 DEF WokenWhenReady
<1>3. CASE ConnectionMade \/ RunStart \/ RunNeverStarted
  BY <1>3 DEF ConnectionMade, RunStart, RunNeverStarted, Handshake
<1>4. CASE ConnectionLost \/ Shutdown \/ \E u \in Tasks : Timeout(u)
  BY <1>4 DEF ConnectionLost, Shutdown, Timeout, RequestCancel, WokenWhenReady
<1>5. ASSUME NEW u \in Tasks, Call(u) \/ Recheck(u), state = "READY"
      PROVE  t \in notified' \cup cancel'
  <2>1. calls[u] \in 0..MaxCalls /\ Current(u) = <<u, calls[u]>>
    BY <1>0 DEF TypeOK, Current
  <2>2. Call(u) => <<u, calls[u] + 1>> \in Futures
    BY <2>1, IdFacts, MaxCallsAssumption DEF Call
  <2>3. Recheck(u) => Current(u) \in Futures
    BY <2>1, IdFacts, MaxCallsAssumption DEF IInv, Fresh, Recheck
  <2>4. AskOps \in SUBSET Ops
    BY DEF AskOps, Ops
  <2>5. /\ cancel' = cancel /\ notified \ {u} \subseteq notified'
        /\ \A v \in Tasks \ {u} : pc'[v] = pc[v]
        /\ pc'[u] # "connWait"
    <3>1. PICK f \in Futures : TakeLine(u, f, AskOps)
      BY <1>5, <2>2, <2>3 DEF Call, Recheck, Connected
    <3>2. (\A v \in Tasks \ {u} : pc'[v] = pc[v]) /\ pc'[u] # "connWait"
      BY <1>0, <2>4, <3>1, TakeLineFacts
    <3>3. cancel' = cancel /\ notified \ {u} \subseteq notified'
      BY <1>5 DEF Call, Recheck
    <3>4. QED
      BY <3>2, <3>3
  <2>6. QED
    BY <1>5, <2>5 DEF WokenWhenReady
<1>6. ASSUME NEW u \in Tasks,
             \/ Return(u) \/ CancelWaiting(u) \/ CancelAwaiting(u) \/ CancelCleanup(u)
             \/ CleanupDone(u)
      PROVE  t \in notified' \cup cancel'
  <2>1. notified \ {u} \subseteq notified' /\ cancel \ {u} \subseteq cancel'
    BY <1>6 DEF Return, CancelWaiting, PassOn, CancelAwaiting, CancelCleanup, CleanupDone
  <2>2. ASSUME NEW how, Finish(u, how)
        PROVE  /\ state = "READY" /\ pc'[u] # "connWait"
               /\ \A v \in Tasks \ {u} : pc'[v] = pc[v]
    BY <1>0, <2>2, FinishFacts
  <2>3. CASE pc' = [pc EXCEPT ![u] = "cleanup"] /\ UNCHANGED state
    BY <1>0, <2>1, <2>3 DEF WokenWhenReady, TypeOK
  <2>4. CASE \E how : Finish(u, how)
    BY <2>1, <2>2, <2>4 DEF WokenWhenReady
  <2>5. QED
    BY <1>6, <2>3, <2>4 DEF Return, CancelWaiting, CancelAwaiting, CancelCleanup, CleanupDone
<1>7. CASE DataReceived \/ DevStart \/ DevAnswer \/ DevInterrupt \/ UNCHANGED vars
  <2>1. UNCHANGED <<state, pc, notified, cancel>>
    BY <1>7 DEF DataReceived, DevStart, DevAnswer, DevInterrupt, clientVars, vars
  <2>2. QED
    BY <1>2, <2>1
<1>8. ASSUME NEW u \in Tasks, Call(u) \/ Recheck(u) PROVE state = "READY"
  BY <1>8 DEF Call, Recheck
<1>9. QED
  BY <1>1, <1>3, <1>4, <1>5, <1>6, <1>7, <1>8 DEF Next

(* No caller sleeps through READY, for any number of callers and whichever *)
(* of them are cancelled while they wait: with that, a caller that waits in*)
(* connect() has been woken by the notify_all of READY, and nothing takes  *)
(* that from it.                                                           *)
THEOREM WokenAlways == Spec => []WokenWhenReady
<1>1. Init => WokenWhenReady
  BY DEF Init, WokenWhenReady
<1>2. QED
  BY <1>1, NextWoken, InitIInv, NextIInv, InitHandshake, NextHandshake, PTL DEF Spec

-----------------------------------------------------------------------------
(* Somebody owes the client the prompt it waits for.                       *)

Owed == toDev # <<>> \/ dev.op # "idle" \/ wire # <<>>

(* Only data_received takes a prompt away: any other step leaves one owed. *)
LEMMA OwedStays ==
  ASSUME IInv, [Next]_vars, Owed, ~DataReceived
  PROVE  Owed'
<1>0. TypeOK /\ toDev \in Seq(Commands) /\ wire \in Seq(Prompts)
  BY DEF IInv, TypeOK
<1>1. CASE DevStart
  <2>1. dev' \in Commands
    BY <1>0, <1>1 DEF DevStart
  <2> QED
    BY <2>1 DEF Commands, Ops, Owed
<1>2. CASE DevAnswer
  <2>1. PICK p : wire' = Append(wire, p)
    BY <1>2 DEF DevAnswer
  <2> QED
    BY <1>0, <2>1 DEF Owed
<1>3. CASE DevInterrupt
  <2>1. PICK p : wire' = Append(wire, p)
    BY <1>3 DEF DevInterrupt
  <2> QED
    BY <1>0, <2>1 DEF Owed
<1>4. CASE UNCHANGED <<dev, wire>> /\ \/ toDev' = toDev
                                      \/ \E c : toDev' = Append(toDev, c)
  BY <1>0, <1>4 DEF Owed
<1>5. \A c : Write(c) => toDev' = toDev \/ toDev' = Append(toDev, c)
  BY DEF Write
<1>6. \A t, f, ops : TakeLine(t, f, ops) => toDev' = toDev \/ \E c : toDev' = Append(toDev, c)
  BY <1>5 DEF TakeLine
<1>7. CASE RunStart \/ RunReturn \/ \E t \in Tasks : Call(t) \/ Recheck(t)
  BY <1>4, <1>6, <1>7 DEF RunStart, RunReturn, Call, Recheck
<1>8. CASE \E t \in Tasks : CancelAwaiting(t)
  BY <1>4, <1>5, <1>8 DEF CancelAwaiting, SendInterrupt
<1>9. CASE \/ ConnectionMade \/ RunNeverStarted \/ ConnectionLost \/ Shutdown
           \/ \E t \in Tasks : \/ Return(t) \/ Timeout(t) \/ CancelWaiting(t)
                               \/ CancelCleanup(t) \/ CleanupDone(t)
           \/ UNCHANGED vars
  BY <1>4, <1>9 DEF ConnectionMade, RunNeverStarted, ConnectionLost, Shutdown, Return,
     Timeout, CancelWaiting, CancelCleanup, CleanupDone, vars
<1> QED
  BY <1>1, <1>2, <1>3, <1>7, <1>8, <1>9 DEF Next

(* While a future waits for a prompt, a prompt or a command that will      *)
(* produce one exists.                                                     *)
LEMMA NextAnswer == IInv /\ Handshake /\ AnswerOnTheWay /\ [Next]_vars => AnswerOnTheWay'
<1> SUFFICES ASSUME IInv, Handshake, AnswerOnTheWay, [Next]_vars, link' = "open",
                    PendingUnset'
             PROVE  Owed'
  BY DEF AnswerOnTheWay, Owed
<1>0. TypeOK /\ Holder /\ Fresh /\ FutureStep /\ toDev \in Seq(Commands)
  BY NextFutures DEF IInv, TypeOK
<1>1. CASE link = "open" /\ PendingUnset /\ ~DataReceived
  BY <1>1, OwedStays DEF AnswerOnTheWay, Owed
<1>2. CASE DataReceived
  BY <1>0, <1>2 DEF DataReceived, PendingUnset, TypeOK
<1>3. CASE link # "open" /\ ~DataReceived
  <2>1. ConnectionMade
    BY <1>3 DEF Next, vars, clientVars, ConnectionMade, RunStart, RunReturn,
       RunNeverStarted, ConnectionLost, Shutdown, Call, Recheck, Return, Timeout,
       CancelWaiting, CancelAwaiting, CancelCleanup, CleanupDone, DevStart, DevAnswer,
       DevInterrupt
  <2>2. calls[Runner] = 0 /\ state # "READY"
    BY <1>0, <2>1 DEF ConnectionMade, Handshake, Fresh
  <2>3. pending = NoId
    <3>1. Runner \in Tasks /\ \A k \in 1..MaxCalls : k > 0
      BY IdFacts
    <3>2. \A k \in 1..MaxCalls : fut[<<Runner, k>>] = "none"
      BY <1>0, <2>2, <3>1 DEF Fresh
    <3> QED
      BY <2>2, <3>2, FreeForRunner
  <2> QED
    BY <2>1, <2>3 DEF ConnectionMade, PendingUnset
<1>4. CASE link = "open" /\ ~PendingUnset /\ ~DataReceived
  <2>1. PICK f \in Futures : Opens(f)
    <3>1. pending \in Futures \cup {NoId}
      BY <1>0 DEF TypeOK
    <3> QED
      BY <1>0, <1>4, <3>1, IdFacts DEF FutureStep, Cancels, Resolves, PendingUnset
  <2>2. ASSUME NEW t, NEW g, NEW ops, TakeLine(t, g, ops) PROVE Owed'
    <3>1. PICK c : Write(c)
      BY <1>0, <2>1, <2>2 DEF TakeLine, LineFree, Opens
    <3> QED
      BY <1>0, <1>4, <3>1 DEF Write, Owed
  <2>3. pending' # pending
    BY <2>1, IdFacts DEF Opens
  <2>4. CASE RunStart \/ RunReturn \/ \E t \in Tasks : Call(t) \/ Recheck(t)
    BY <2>2, <2>3, <2>4 DEF RunStart, RunReturn, Call, Recheck
  <2>5. CASE ~(RunStart \/ RunReturn \/ \E t \in Tasks : Call(t) \/ Recheck(t))
    BY <1>4, <2>3, <2>5 DEF Next, vars, clientVars, ConnectionMade, RunNeverStarted,
       ConnectionLost, Shutdown, Return, Timeout, CancelWaiting, CancelAwaiting,
       CancelCleanup, CleanupDone, DevStart, DevAnswer, DevInterrupt
  <2> QED
    BY <2>4, <2>5
<1> QED
  BY <1>1, <1>2, <1>3, <1>4

(* While a future of fluke.py waits for a prompt on an open line, a prompt,  *)
(* or a command that will produce one, exists.                             *)
THEOREM AnswerOnTheWayAlways == Spec => []AnswerOnTheWay
<1>1. Init => AnswerOnTheWay
  BY DEF Init, AnswerOnTheWay
<1> QED
  BY <1>1, NextAnswer, HandshakeInvariance, PTL DEF Spec

-----------------------------------------------------------------------------
(* What a step can do to the line, whichever task takes it.                *)

first == <<Runner, 1>>
Alive == link \in {"closed", "open"}

(* A task opens its next future on the free line and writes its command.   *)
Takes(t, f) ==
  /\ link # "closed" /\ pending = NoId
  /\ f[1] = t /\ fut[f] = "none" /\ (f = first \/ fut[first] = "set")
  /\ pc[t] = "idle" \/ t \notin cancel
  /\ pending' = f
  /\ fut' = [fut EXCEPT ![f] = "unset"]
  /\ on' = [on EXCEPT ![t] = f]
  /\ pc' = [pc EXCEPT ![t] = "awaiting"]
  /\ \E op \in Ops : Write([op |-> op, id |-> f])
  /\ UNCHANGED <<link, cancel, reply, dev, wire, cancels>>

(* A step that touches neither futures nor the line.                       *)
Rests ==
  /\ Alive' => Alive
  /\ UNCHANGED <<on, pending, fut, reply, toDev, dev, wire, cancels>>
  /\ cancel' \subseteq cancel
  /\ \A t \in Tasks : /\ pc'[t] = "awaiting" => pc[t] = "awaiting"
                      /\ t \in cancel' /\ pc[t] \in Active => pc'[t] \in Active

LineStep ==
  \/ \E t \in Tasks : \E f \in Futures : Takes(t, f)
  \/ Rests
  \/ \E t \in Tasks : CancelAwaiting(t) \/ Timeout(t)
  \/ ConnectionLost \/ Shutdown \/ DataReceived
  \/ DevStart \/ DevAnswer \/ DevInterrupt

LEMMA TakeLineTakes ==
  ASSUME IInv, NEW t \in Tasks, NEW f \in Futures, NEW ops \in SUBSET Ops,
         TakeLine(t, f, ops), f[1] = t, fut[f] = "none", f = first \/ fut[first] = "set",
         link # "closed", pc[t] = "idle" \/ t \notin cancel, cancel' \subseteq cancel,
         UNCHANGED <<link, cancel, reply, dev, wire, cancels>>
  PROVE  Takes(t, f) \/ Rests
<1>0. TypeOK
  BY DEF IInv
<1>1. CASE LineFree
  BY <1>1 DEF TakeLine, LineFree, Takes
<1>2. CASE ~LineFree
  <2>1. pc' = [pc EXCEPT ![t] = "lineWait"] /\ UNCHANGED <<pending, fut, on, toDev>>
    BY <1>2 DEF TakeLine
  <2> QED
    BY <1>0, <2>1 DEF Rests, Alive, TypeOK, Active, Waiting
<1> QED
  BY <1>1, <1>2

LEMMA NextLine == IInv /\ Handshake /\ [Next]_vars => LineStep
<1> SUFFICES ASSUME IInv, Handshake, [Next]_vars PROVE LineStep
  OBVIOUS
<1>0. /\ TypeOK /\ Fresh /\ Runner \in Tasks /\ Askers \subseteq Tasks
      /\ 1 \in 1..MaxCalls /\ 2 \in 1..MaxCalls
      /\ \A t \in Tasks : \A k \in 1..MaxCalls : <<t, k>> \in Futures
      /\ {"intr"} \in SUBSET Ops /\ {"format"} \in SUBSET Ops /\ AskOps \in SUBSET Ops
  BY IdFacts DEF IInv, Ops, AskOps
<1>1. ASSUME NEW t \in Tasks, NEW how, Finish(t, how), cancel' \in {cancel, cancel \ {t}},
             t \notin cancel',
             UNCHANGED <<link, on, pending, fut, reply, toDev, dev, wire, cancels>>
      PROVE  Rests
  <2>1. /\ \A u \in Tasks \ {t} : pc'[u] = pc[u]
        /\ pc'[t] \in {"idle", "done", "failed"}
    BY <1>0, <1>1, FinishFacts
  <2> QED
    BY <1>1, <2>1 DEF Rests, Alive
<1>2. CASE ConnectionMade
  BY <1>0, <1>2 DEF ConnectionMade, LineStep, Rests, Alive, Active, TypeOK
<1>3. CASE RunStart
  <2>1. /\ fut[first] = "none" /\ first \in Futures /\ first[1] = Runner
        /\ link # "closed" /\ Runner \notin cancel
    BY <1>0, <1>3 DEF RunStart, Fresh, first
  <2>2. /\ TakeLine(Runner, first, {"intr"})
        /\ UNCHANGED <<link, cancel, reply, dev, wire, cancels>>
    BY <1>3 DEF RunStart, first
  <2>3. Takes(Runner, first) \/ Rests
    BY <1>0, <2>1, <2>2, TakeLineTakes
  <2> QED
    BY <1>0, <2>1, <2>3 DEF LineStep
<1>4. CASE RunReturn
  <2>0. /\ Runner \notin cancel /\ fut[on[Runner]] = "set" /\ pc[Runner] = "awaiting"
        /\ UNCHANGED <<link, cancel, reply, dev, wire, cancels>>
    BY <1>4 DEF RunReturn
  <2>1. CASE Finish(Runner, "error") /\ UNCHANGED <<calls, on, notified, pending, fut, toDev>>
    BY <1>0, <1>1, <2>0, <2>1 DEF LineStep
  <2>2. CASE calls[Runner] = 1 /\ TakeLine(Runner, <<Runner, 2>>, {"format"})
    <3>1. /\ fut[<<Runner, 2>>] = "none" /\ fut[first] = "set" /\ link # "closed"
          /\ <<Runner, 2>> \in Futures /\ <<Runner, 2>>[1] = Runner
      BY <1>0, <2>0, <2>2 DEF Fresh, Handshake, first
    <3>2. Takes(Runner, <<Runner, 2>>) \/ Rests
      BY <1>0, <2>0, <2>2, <3>1, TakeLineTakes
    <3> QED
      BY <1>0, <3>1, <3>2 DEF LineStep
  <2>3. CASE pc' = [pc EXCEPT ![Runner] = "done"] /\ UNCHANGED <<on, pending, fut, toDev>>
    BY <1>0, <2>0, <2>3 DEF LineStep, Rests, Alive, TypeOK
  <2> QED
    BY <1>4, <2>1, <2>2, <2>3 DEF RunReturn
<1>5. CASE RunNeverStarted
  BY <1>0, <1>5 DEF RunNeverStarted, LineStep, Rests, Alive, TypeOK
<1>6. state = "READY" => fut[first] = "set" /\ link # "closed"
  BY DEF Handshake, Answered, first
<1>7. ASSUME NEW t \in Tasks, Call(t) PROVE LineStep
  <2>1. CASE Connected /\ TakeLine(t, <<t, calls[t] + 1>>, AskOps)
    <3>1. calls[t] + 1 \in 1..MaxCalls /\ calls[t] + 1 > calls[t]
      BY <1>0, <1>7 DEF Call, TypeOK
    <3>2. /\ <<t, calls[t] + 1>> \in Futures /\ fut[<<t, calls[t] + 1>>] = "none"
          /\ <<t, calls[t] + 1>>[1] = t
      BY <1>0, <3>1 DEF Fresh
    <3>3. Takes(t, <<t, calls[t] + 1>>) \/ Rests
      BY <1>0, <1>6, <1>7, <2>1, <3>2, TakeLineTakes DEF Call, Connected
    <3> QED
      BY <3>2, <3>3 DEF LineStep
  <2>2. CASE pc' = [pc EXCEPT ![t] = "connWait"] /\ UNCHANGED <<pending, fut, on, toDev>>
    BY <1>0, <1>7, <2>2 DEF Call, LineStep, Rests, Alive, TypeOK, Active, Waiting
  <2> QED
    BY <1>7, <2>1, <2>2 DEF Call
<1>8. ASSUME NEW t \in Tasks, Recheck(t) PROVE LineStep
  <2>1. CASE UNCHANGED <<pc, pending, fut, on, toDev>>
    BY <1>8, <2>1 DEF Recheck, LineStep, Rests, Alive
  <2>2. CASE (pc[t] = "lineWait" \/ Connected) /\ TakeLine(t, Current(t), AskOps)
    <3>1. /\ Current(t) \in Futures /\ fut[Current(t)] = "none" /\ Current(t)[1] = t
      BY <1>0, <1>8, IdFacts DEF Recheck, Fresh, TypeOK
    <3>2. state = "READY"
      BY <1>8, <2>2 DEF Recheck, Handshake, Connected, Waiting, Tasks
    <3>3. Takes(t, Current(t)) \/ Rests
      BY <1>0, <1>6, <1>8, <2>2, <3>1, <3>2, TakeLineTakes DEF Recheck
    <3> QED
      BY <3>1, <3>3 DEF LineStep
  <2> QED
    BY <1>8, <2>1, <2>2 DEF Recheck
<1>9. ASSUME NEW t \in Tasks,
             Return(t) \/ CancelWaiting(t) \/ CancelCleanup(t) \/ CleanupDone(t)
      PROVE  LineStep
  <2>1. \E how : Finish(t, how)
    BY <1>9 DEF Return, CancelWaiting, CancelCleanup, CleanupDone
  <2>2. /\ cancel' \in {cancel, cancel \ {t}} /\ t \notin cancel'
        /\ UNCHANGED <<link, on, pending, fut, reply, toDev, dev, wire, cancels>>
    BY <1>9 DEF Return, CancelWaiting, CancelCleanup, CleanupDone, Interrupted
  <2> QED
    BY <1>1, <2>1, <2>2 DEF LineStep
<1>10. CASE UNCHANGED vars
  BY <1>10 DEF vars, LineStep, Rests, Alive
<1> QED
  BY <1>2, <1>3, <1>4, <1>5, <1>7, <1>8, <1>9, <1>10 DEF Next, LineStep

-----------------------------------------------------------------------------
(* How far questions and answers can drift apart.  Only a task that was    *)
(* cancelled, or whose future was, writes a command that opens no future:  *)
(* each timeout makes at most one such task.                               *)

Due == {t \in Tasks : pc[t] = "awaiting" /\ Interrupted(t)}
Stale == IF StaleMarks = {} THEN 0 ELSE 1

(* A task awaits, shielded, only futures of its own.                       *)
OnOwn == \A t \in Tasks : pc[t] = "awaiting" => on[t][1] = t

(* DriftBounded, with the prompts that cancelled tasks will still cause.   *)
Drift ==
  Alive => /\ IsFiniteSet(Due)
           /\ Surplus + Cardinality(Due) <= cancels + Stale
           /\ \A t \in cancel : pc[t] \in Active

LEMMA InitDrift == Init => OnOwn /\ Drift
<1> SUFFICES ASSUME Init PROVE OnOwn /\ Drift
  OBVIOUS
<1>1. Due = {} /\ OnOwn
  BY DEF Init, Due, OnOwn
<1>2. Len(wire) <= Stale /\ Len(wire) \in Nat
  <2>1. CASE wire = <<>>
    BY <2>1 DEF Stale
  <2>2. ASSUME NEW m \in StaleMarks, wire = <<[mark |-> m, text |-> TRUE, to |-> {}]>>
        PROVE  Len(wire) = 1 /\ Stale = 1
    <3>1. Len(wire) = 1
      BY <2>2
    <3>2. Stale = 1
      BY <2>2 DEF Stale
    <3> QED
      BY <3>1, <3>2
  <2>3. CASE Len(wire) = 1 /\ Stale = 1
    BY <2>3
  <2>4. wire = <<>> \/ \E m \in StaleMarks : wire = <<[mark |-> m, text |-> TRUE, to |-> {}]>>
    BY DEF Init
  <2> QED
    BY <2>1, <2>2, <2>3, <2>4, Zenon
<1>3. Surplus <= Stale /\ Surplus \in Int /\ Stale \in Nat
  BY <1>2 DEF Init, Surplus, NoCommand, Stale
<1>4. cancels = 0 /\ cancel = {}
  BY DEF Init
<1> QED
  BY <1>1, <1>3, <1>4, FS_EmptySet DEF Drift

LEMMA NextOnOwn == IInv /\ OnOwn /\ LineStep => OnOwn'
<1> SUFFICES ASSUME IInv, OnOwn, LineStep PROVE OnOwn'
  OBVIOUS
<1>0. TypeOK
  BY DEF IInv
<1>1. ASSUME NEW t \in Tasks, NEW f \in Futures, Takes(t, f) PROVE OnOwn'
  BY <1>0, <1>1 DEF Takes, OnOwn, TypeOK
<1>2. CASE Rests
  BY <1>2 DEF Rests, OnOwn
<1>3. ASSUME NEW t \in Tasks, CancelAwaiting(t) PROVE OnOwn'
  BY <1>0, <1>3 DEF CancelAwaiting, Finish, OnOwn, TypeOK
<1>4. CASE UNCHANGED <<pc, on>>
  BY <1>4 DEF OnOwn
<1> QED
  BY <1>1, <1>2, <1>3, <1>4 DEF LineStep, Timeout, ConnectionLost, Shutdown, DataReceived,
     DevStart, DevAnswer, DevInterrupt, clientVars

LEMMA FewerDue ==
  ASSUME IsFiniteSet(Due), NEW S \in SUBSET Due
  PROVE  /\ IsFiniteSet(S)
         /\ Cardinality(S) \in Nat /\ Cardinality(Due) \in Nat
         /\ Cardinality(S) <= Cardinality(Due)
BY FS_Subset, FS_CardinalityType

(* The numbers in it are integers.                                         *)
LEMMA SurplusType ==
  ASSUME TypeOK
  PROVE  /\ Surplus \in Int /\ cancels \in Nat /\ Stale \in Nat
         /\ Len(toDev) \in Nat /\ Len(wire) \in Nat
BY DEF TypeOK, Surplus, Stale

(* A step after which no more is owed, and no more tasks are due, is fine. *)
LEMMA DriftKept ==
  ASSUME TypeOK, TypeOK', Drift, Alive' => Alive, Alive' => Due' \subseteq Due,
         Alive' => Surplus' <= Surplus, cancels' >= cancels,
         Alive' => \A t \in cancel' : pc'[t] \in Active
  PROVE  Drift'
<1> SUFFICES ASSUME Alive' PROVE Drift'
  BY DEF Drift
<1>1. IsFiniteSet(Due) /\ Surplus + Cardinality(Due) <= cancels + Stale
  BY DEF Drift
<1>2. /\ IsFiniteSet(Due') /\ Cardinality(Due') \in Nat /\ Cardinality(Due) \in Nat
      /\ Cardinality(Due') <= Cardinality(Due)
  BY <1>1, FewerDue
<1>3. Surplus \in Int /\ Surplus' \in Int /\ cancels \in Nat /\ cancels' \in Nat /\ Stale \in Nat
  BY SurplusType DEF Surplus, TypeOK
<1>4. Surplus' + Cardinality(Due') <= cancels' + Stale
  BY <1>1, <1>2, <1>3
<1> QED
  BY <1>2, <1>4 DEF Drift, Stale

LEMMA NextDrift == IInv /\ IInv' /\ OnOwn /\ Drift /\ LineStep => Drift'
<1> SUFFICES ASSUME IInv, IInv', OnOwn, Drift, LineStep PROVE Drift'
  OBVIOUS
<1>0. /\ TypeOK /\ TypeOK' /\ Suspended /\ Holder /\ NoId \notin Futures
      /\ toDev \in Seq(Commands) /\ wire \in Seq(Prompts) /\ cancels \in Nat
      /\ Len(toDev) \in Nat /\ Len(wire) \in Nat
  BY IdFacts DEF IInv, TypeOK
<1>1. ASSUME NEW t \in Tasks, NEW f \in Futures, Takes(t, f) PROVE Drift'
  <2> SUFFICES ASSUME Alive PROVE Drift'
    BY <1>1 DEF Takes, Drift, Alive
  <2>1. link = "open" /\ t \notin cancel /\ pending = NoId /\ pending' = f /\ f # NoId
    BY <1>0, <1>1 DEF Takes, Alive, Drift, Active, Waiting
  <2>2. Len(toDev') = Len(toDev) + 1
    BY <1>0, <1>1, <2>1 DEF Takes, Write
  <2>3. Surplus' = Surplus
    <3>1. wire' = wire /\ dev' = dev
      BY <1>1 DEF Takes
    <3> QED
      BY <1>0, <2>1, <2>2, <3>1 DEF Surplus
  <2>4. Due' \subseteq Due
    <3> SUFFICES ASSUME NEW u \in Tasks, pc'[u] = "awaiting", Interrupted(u)' PROVE u \in Due
      BY DEF Due
    <3>1. cancel' = cancel /\ fut'[f] = "unset" /\ on'[t] = f
      BY <1>0, <1>1 DEF Takes, TypeOK
    <3>2. u # t
      BY <2>1, <3>1 DEF Interrupted
    <3>3. pc[u] = pc'[u] /\ on'[u] = on[u]
      BY <1>0, <1>1, <3>2 DEF Takes, TypeOK
    <3>4. on[u] \in Futures
      BY <1>0, <3>3 DEF Suspended
    <3>5. on[u] # f => fut'[on[u]] = fut[on[u]]
      BY <1>0, <1>1, <3>4 DEF Takes, TypeOK
    <3> QED
      BY <3>1, <3>3, <3>5 DEF Interrupted, Due
  <2>5. \A u \in cancel' : pc'[u] \in Active
    BY <1>0, <1>1 DEF Takes, Drift, TypeOK, Active
  <2>6. cancels' = cancels /\ Surplus \in Int
    BY <1>0, <1>1, SurplusType DEF Takes
  <2> QED
    BY <1>0, <2>3, <2>4, <2>5, <2>6, DriftKept
<1>2. CASE Rests
  <2>1. Surplus' = Surplus /\ Surplus \in Int /\ cancels' = cancels
    BY <1>0, <1>2, SurplusType DEF Rests, Surplus
  <2>2. Due' \subseteq Due
    BY <1>2 DEF Rests, Due, Interrupted
  <2>3. Alive' => \A u \in cancel' : pc'[u] \in Active
    BY <1>0, <1>2 DEF Rests, Drift, TypeOK
  <2> QED
    BY <1>0, <1>2, <2>1, <2>2, <2>3, DriftKept DEF Rests
<1>3. ASSUME NEW t \in Tasks, CancelAwaiting(t) PROVE Drift'
  <2> SUFFICES ASSUME Alive PROVE Drift'
    BY <1>3 DEF CancelAwaiting, Drift, Alive
  <2>1. /\ pc' \in [Tasks -> Pcs] /\ pc'[t] # "awaiting"
        /\ \A u \in Tasks \ {t} : pc'[u] = pc[u] /\ on'[u] = on[u]
    BY <1>0, <1>3 DEF CancelAwaiting, Finish, TypeOK
  <2>2. cancel' = cancel \ {t} /\ UNCHANGED <<fut, pending, dev, wire, cancels>>
    BY <1>3 DEF CancelAwaiting
  <2>3. t \in Due
    BY <1>3 DEF CancelAwaiting, Due
  <2>4. Due' \subseteq Due \ {t}
    BY <1>3, <2>1, <2>2 DEF Due, Interrupted
  <2>5. Len(toDev') \in Nat /\ Len(toDev') <= Len(toDev) + 1
    BY <1>0, <1>3 DEF CancelAwaiting, SendInterrupt, Write, TypeOK
  <2>6. Surplus' <= Surplus + 1 /\ Surplus \in Int /\ Surplus' \in Int
    BY <1>0, <2>2, <2>5, SurplusType DEF Surplus
  <2>7. /\ IsFiniteSet(Due) /\ Cardinality(Due) \in Nat
        /\ Surplus + Cardinality(Due) <= cancels + Stale
    BY FS_CardinalityType DEF Drift
  <2>8. /\ IsFiniteSet(Due \ {t}) /\ Cardinality(Due \ {t}) = Cardinality(Due) - 1
    BY <2>3, <2>7, FS_RemoveElement
  <2>9. /\ IsFiniteSet(Due') /\ Cardinality(Due') \in Nat
        /\ Cardinality(Due') <= Cardinality(Due) - 1
    BY <2>4, <2>8, FS_Subset, FS_CardinalityType
  <2>10. Surplus' + Cardinality(Due') <= cancels' + Stale
    BY <1>0, <2>2, <2>6, <2>7, <2>9 DEF Stale
  <2>11. \A u \in cancel' : pc'[u] \in Active
    BY <1>0, <2>1, <2>2 DEF Drift, TypeOK
  <2> QED
    BY <2>9, <2>10, <2>11 DEF Drift, Stale
<1>4. ASSUME NEW t \in Tasks, Timeout(t) PROVE Drift'
  <2> SUFFICES ASSUME Alive PROVE Drift'
    BY <1>4 DEF Timeout, Drift, Alive
  <2>1. /\ cancel' = cancel \cup {t} /\ cancels' = cancels + 1
        /\ UNCHANGED <<pc, on, pending, toDev, dev, wire>> /\ pc[t] \in Active
    BY <1>4 DEF Timeout, RequestCancel
  <2>2. Surplus' = Surplus /\ Surplus \in Int
    BY <1>0, <2>1, SurplusType DEF Surplus
  <2>3. \E x : Due' \subseteq Due \cup {x}
    <3>1. CASE pc[t] = "cleanup"
      <4>1. on[t] \in Futures
        BY <1>0, <3>1 DEF Suspended
      <4>2. \A f \in Futures \ {on[t]} : fut'[f] = fut[f]
        BY <1>0, <1>4, <3>1 DEF Timeout, RequestCancel, TypeOK
      <4>3. ASSUME NEW u \in Due', u \notin Due PROVE u = on[t][1]
        <5>1. u \in Tasks /\ pc[u] = "awaiting" /\ on'[u] = on[u] /\ on[u] \in Futures
          BY <1>0, <2>1, <4>3 DEF Due, Suspended
        <5>2. fut'[on[u]] # fut[on[u]]
          BY <2>1, <3>1, <4>3, <5>1 DEF Due, Interrupted
        <5>3. on[u] = on[t]
          BY <4>2, <5>1, <5>2
        <5> QED
          BY <5>1, <5>3 DEF OnOwn
      <4> QED
        BY <4>3
    <3>2. CASE pc[t] # "cleanup"
      <4>1. fut' = fut
        BY <1>0, <1>4, <3>2 DEF Timeout, RequestCancel, TypeOK
      <4> QED
        BY <2>1, <4>1 DEF Due, Interrupted
    <3> QED
      BY <3>1, <3>2
  <2>4. /\ IsFiniteSet(Due) /\ Cardinality(Due) \in Nat
        /\ Surplus + Cardinality(Due) <= cancels + Stale
    BY FS_CardinalityType DEF Drift
  <2>5. PICK x : Due' \subseteq Due \cup {x}
    BY <2>3
  <2>6. /\ IsFiniteSet(Due \cup {x}) /\ Cardinality(Due \cup {x}) \in Nat
        /\ Cardinality(Due \cup {x}) <= Cardinality(Due) + 1
    <3>1. IsFiniteSet(Due \cup {x})
      BY <2>4, FS_AddElement
    <3>2. \/ Cardinality(Due \cup {x}) = Cardinality(Due)
          \/ Cardinality(Due \cup {x}) = Cardinality(Due) + 1
      BY <2>4, FS_AddElement
    <3> QED
      BY <2>4, <3>1, <3>2
  <2>7. /\ IsFiniteSet(Due') /\ Cardinality(Due') \in Nat
        /\ Cardinality(Due') <= Cardinality(Due) + 1
    BY <2>5, <2>6, FS_Subset, FS_CardinalityType
  <2>8. Surplus' + Cardinality(Due') <= cancels' + Stale
    BY <1>0, <2>1, <2>2, <2>4, <2>7 DEF Stale
  <2>9. \A u \in cancel' : pc'[u] \in Active
    BY <2>1 DEF Drift
  <2> QED
    BY <2>7, <2>8, <2>9 DEF Drift, Stale
<1>5. ASSUME UNCHANGED <<link, pc, on, cancel, cancels>>,
             \A f \in Futures : fut'[f] = "cancelled" => fut[f] = "cancelled",
             Surplus' <= Surplus
      PROVE  Drift'
  <2>1. Due' \subseteq Due
    BY <1>0, <1>5 DEF Due, Interrupted, Suspended
  <2>2. Alive' => \A u \in cancel' : pc'[u] \in Active
    BY <1>5 DEF Drift, Alive
  <2> QED
    BY <1>0, <1>5, <2>1, <2>2, DriftKept DEF Alive
<1>6. CASE DataReceived
  <2>1. Len(wire') = Len(wire) - 1
    BY <1>0, <1>6 DEF DataReceived
  <2>2. \A f \in Futures : fut'[f] = "cancelled" => fut[f] = "cancelled"
    BY <1>0, <1>6 DEF DataReceived, TypeOK
  <2>3. pending' \in {pending, NoId} /\ UNCHANGED <<toDev, dev>>
    BY <1>6 DEF DataReceived
  <2>4. Surplus' <= Surplus
    BY <1>0, <2>1, <2>3 DEF Surplus
  <2> QED
    BY <1>5, <1>6, <2>2, <2>4 DEF DataReceived
<1>7. CASE DevStart
  <2>1. Len(toDev') = Len(toDev) - 1
    BY <1>0, <1>7 DEF DevStart
  <2>2. dev.op = "idle" /\ dev'.op # "idle" /\ UNCHANGED <<wire, pending>>
    <3>1. dev' \in Commands
      BY <1>0, <1>7 DEF DevStart
    <3> QED
      BY <1>7, <3>1 DEF DevStart, Commands, Ops, clientVars
  <2>3. Surplus' <= Surplus
    BY <1>0, <2>1, <2>2 DEF Surplus
  <2> QED
    BY <1>5, <1>7, <2>3 DEF DevStart, clientVars
<1>8. CASE DevAnswer
  <2>1. Len(wire') = Len(wire) + 1 /\ dev.op # "idle" /\ dev'.op = "idle"
    BY <1>0, <1>8 DEF DevAnswer, NoCommand
  <2>2. UNCHANGED <<toDev, pending>>
    BY <1>8 DEF DevAnswer, clientVars
  <2>3. Surplus' <= Surplus
    BY <1>0, <2>1, <2>2 DEF Surplus
  <2> QED
    BY <1>5, <1>8, <2>3 DEF DevAnswer, clientVars
<1>9. CASE DevInterrupt
  <2>1. PICK i \in DOMAIN toDev :
          /\ \E p : wire' = Append(wire, p)
          /\ toDev' = SubSeq(toDev, i + 1, Len(toDev))
          /\ dev' = NoCommand
          /\ UNCHANGED <<clientVars, cancels>>
    BY <1>9 DEF DevInterrupt
  <2>2. i \in 1..Len(toDev)
    BY <1>0
  <2>3. Len(toDev') = Len(toDev) - i
    BY <1>0, <2>1, <2>2
  <2>4. Len(wire') = Len(wire) + 1 /\ dev'.op = "idle"
    BY <1>0, <2>1 DEF NoCommand
  <2>5. pending' = pending
    BY <2>1 DEF clientVars
  <2>6. Surplus' <= Surplus
    BY <1>0, <2>2, <2>3, <2>4, <2>5 DEF Surplus
  <2> QED
    BY <1>5, <2>1, <2>6 DEF clientVars
<1>10. CASE ConnectionLost \/ Shutdown
  BY <1>10 DEF ConnectionLost, Shutdown, Drift, Alive
<1> QED
  BY <1>1, <1>2, <1>3, <1>4, <1>6, <1>7, <1>8, <1>9, <1>10 DEF LineStep

(* What the run of the client keeps, and DriftBounded with it.             *)
LEMMA DriftInvariance == Spec => [](IInv /\ Handshake /\ OnOwn /\ Drift)
<1>1. IInv /\ Handshake /\ OnOwn /\ Drift /\ [Next]_vars => (OnOwn /\ Drift)'
  BY NextLine, NextIInv, NextOnOwn, NextDrift
<1> QED
  BY <1>1, InitIInv, NextIInv, InitHandshake, NextHandshake, InitDrift, PTL DEF Spec

(* On an open line the meter owes at most one prompt too many for each     *)
(* timeout so far, and those a previous session left.                      *)
THEOREM DriftBoundedAlways == Spec => []DriftBounded
<1>1. IInv /\ Drift => DriftBounded
  <2> SUFFICES ASSUME IInv, Drift, link = "open"
               PROVE  Surplus <= cancels + (IF StaleMarks = {} THEN 0 ELSE 1)
    BY DEF DriftBounded
  <2>1. Surplus \in Int /\ cancels \in Nat /\ Stale \in Nat
    BY SurplusType DEF IInv
  <2>2. Cardinality(Due) \in Nat /\ Surplus + Cardinality(Due) <= cancels + Stale
    BY FS_CardinalityType DEF Drift, Alive
  <2>3. Surplus <= cancels + Stale
    BY <2>1, <2>2
  <2> QED
    BY <2>3 DEF Stale
<1> QED
  BY <1>1, DriftInvariance, PTL

-----------------------------------------------------------------------------
(* Until the first timeout questions and answers are in step, once the ^C  *)
(* of the handshake got its own prompt: what is on its way is what serves  *)
(* the pending future, and nothing else.                                   *)

NothingOwed == toDev = <<>> /\ dev.op = "idle" /\ wire = <<>>
Serves(f) ==
  \/ Len(toDev) = 1 /\ toDev[1].id = f /\ dev.op = "idle" /\ wire = <<>>
  \/ toDev = <<>> /\ dev.op # "idle" /\ dev.id = f /\ wire = <<>>
  \/ toDev = <<>> /\ dev.op = "idle" /\ Len(wire) = 1 /\ f \in wire[1].to
Synced == IF pending = NoId THEN NothingOwed ELSE Serves(pending)

(* The prompt of a previous session is still there, and will be taken for  *)
(* the answer to the ^C.                                                   *)
Leftover ==
  /\ wire # <<>> /\ first \notin Head(wire).to
  /\ fut[first] = "none" => toDev = <<>> /\ dev.op = "idle" /\ Len(wire) = 1

(* The ^C of the handshake comes before all other requests.                *)
FirstComes == fut[first] # "set" => \A f \in Futures \ {first} : fut[f] = "none"

Quiet ==
  cancels = 0 /\ Alive =>
    /\ cancel = {} /\ \A f \in Futures : fut[f] # "cancelled"
    /\ fut[first] # "set" => Synced \/ Leftover
    /\ fut[first] = "set" /\ first \in reply[first].to => Synced

LEMMA FirstFuture == first \in Futures /\ first # NoId
BY IdFacts DEF first

LEMMA InitQuiet == Init => FirstComes /\ Quiet /\ OwnAnswer
<1> SUFFICES ASSUME Init PROVE FirstComes /\ Quiet /\ OwnAnswer
  OBVIOUS
<1>1. \A f \in Futures : fut[f] = "none"
  BY DEF Init
<1>2. pending = NoId /\ toDev = <<>> /\ dev.op = "idle" /\ cancel = {}
  BY DEF Init, NoCommand
<1>3. CASE wire = <<>>
  BY <1>1, <1>2, <1>3, FirstFuture DEF FirstComes, Quiet, OwnAnswer, Synced, NothingOwed, first
<1>4. ASSUME NEW m \in StaleMarks, wire = <<[mark |-> m, text |-> TRUE, to |-> {}]>>
      PROVE  FirstComes /\ Quiet /\ OwnAnswer
  <2>1. wire # <<>> /\ Len(wire) = 1 /\ Head(wire).to = {}
    BY <1>4
  <2>2. Leftover
    BY <1>2, <2>1 DEF Leftover
  <2> QED
    BY <1>1, <1>2, <2>2, FirstFuture DEF FirstComes, Quiet, OwnAnswer, first
<1>5. wire = <<>> \/ \E m \in StaleMarks : wire = <<[mark |-> m, text |-> TRUE, to |-> {}]>>
  BY DEF Init
<1> QED
  BY <1>3, <1>4, <1>5, Zenon

LEMMA NextFirst == IInv /\ FirstComes /\ LineStep /\ FutureStep => FirstComes'
<1> SUFFICES ASSUME IInv, FirstComes, LineStep, FutureStep, fut'[first] # "set",
                    NEW f \in Futures \ {first}
             PROVE  fut'[f] = "none"
  BY DEF FirstComes
<1>0. TypeOK /\ Holder
  BY DEF IInv
<1>1. fut[first] # "set"
  BY FirstFuture DEF FutureStep, Opens, Cancels, Resolves
<1>2. fut[f] = "none"
  BY <1>1 DEF FirstComes
<1>3. CASE UNCHANGED <<fut, pending>>
  BY <1>2, <1>3
<1>4. ASSUME NEW g \in Futures, Cancels(g) \/ Resolves(g) PROVE fut'[f] = "none"
  BY <1>2, <1>4 DEF Cancels, Resolves
<1>5. ASSUME NEW g \in Futures, Opens(g) PROVE fut'[f] = "none"
  <2>1. pending' # pending /\ pending' = g /\ fut'[g] = "unset"
    BY <1>5, IdFacts DEF Opens
  <2>2. ASSUME NEW t \in Tasks, NEW h \in Futures, Takes(t, h) PROVE g = first
    BY <1>1, <2>1, <2>2 DEF Takes
  <2>3. ~Rests /\ \A t \in Tasks : ~CancelAwaiting(t) /\ ~Timeout(t)
    BY <2>1 DEF Rests, CancelAwaiting, Timeout
  <2>4. ~ConnectionLost /\ ~Shutdown /\ ~DevStart /\ ~DevAnswer /\ ~DevInterrupt
    BY <2>1 DEF ConnectionLost, Shutdown, DevStart, DevAnswer, DevInterrupt, clientVars
  <2>5. ~DataReceived
    BY <2>1, IdFacts DEF DataReceived
  <2>6. g = first
    BY <2>2, <2>3, <2>4, <2>5 DEF LineStep
  <2> QED
    BY <1>2, <1>5, <2>6 DEF Opens
<1> QED
  BY <1>3, <1>4, <1>5 DEF FutureStep

(* The meter keeps it so.                                                  *)
LEMMA MeterKeepsSynced ==
  ASSUME TypeOK, DevStart \/ DevAnswer \/ DevInterrupt
  PROVE  /\ Synced => Synced'
         /\ Leftover => Leftover'
         /\ UNCHANGED <<link, cancel, pending, fut, reply, cancels>>
<1>0. toDev \in Seq(Commands) /\ wire \in Seq(Prompts) /\ dev \in Commands \cup {NoCommand}
  BY DEF TypeOK
<1>1. UNCHANGED <<link, cancel, pending, fut, reply, cancels>>
  BY DEF DevStart, DevAnswer, DevInterrupt, clientVars
<1>2. CASE DevStart
  <2>1. wire' = wire /\ toDev # <<>> /\ dev.op = "idle"
    BY <1>2 DEF DevStart
  <2>2. dev' = toDev[1] /\ dev' \in Commands /\ Len(toDev') = Len(toDev) - 1
        /\ toDev' \in Seq(Commands)
    BY <1>0, <1>2 DEF DevStart
  <2>3. dev'.op # "idle"
    BY <2>2 DEF Commands, Ops
  <2>4. Len(toDev) = 1 => toDev' = <<>>
    BY <1>0, <2>2
  <2>5. Synced => Synced'
    BY <1>1, <2>1, <2>2, <2>3, <2>4 DEF Synced, NothingOwed, Serves
  <2>6. Leftover => Leftover'
    BY <1>1, <2>1 DEF Leftover
  <2> QED
    BY <1>1, <2>5, <2>6
<1>3. CASE DevAnswer
  <2>1. PICK p : wire' = Append(wire, p) /\ p.to = {dev.id}
    BY <1>3 DEF DevAnswer
  <2>2. toDev' = toDev /\ dev.op # "idle" /\ dev'.op = "idle"
    BY <1>3 DEF DevAnswer, NoCommand
  <2>3. wire = <<>> => Len(wire') = 1 /\ wire'[1] = p
    BY <2>1
  <2>4. wire # <<>> => Head(wire') = Head(wire) /\ wire' # <<>>
    BY <1>0, <2>1
  <2>5. Synced => Synced'
    BY <1>1, <2>1, <2>2, <2>3 DEF Synced, NothingOwed, Serves
  <2>6. Leftover => Leftover'
    BY <1>1, <2>2, <2>4 DEF Leftover
  <2> QED
    BY <1>1, <2>5, <2>6
<1>4. CASE DevInterrupt
  <2>1. PICK i \in DOMAIN toDev : \E p :
          /\ wire' = Append(wire, p)
          /\ p.to = {toDev[j].id : j \in 1..i} \cup {dev.id}
          /\ toDev' = SubSeq(toDev, i + 1, Len(toDev))
          /\ dev' = NoCommand
    BY <1>4 DEF DevInterrupt
  <2>2. PICK p : /\ wire' = Append(wire, p)
                 /\ p.to = {toDev[j].id : j \in 1..i} \cup {dev.id}
    BY <2>1
  <2>3. i \in 1..Len(toDev) /\ dev'.op = "idle"
    BY <1>0, <2>1 DEF NoCommand
  <2>4. toDev # <<>> /\ toDev[1].id \in p.to
    <3>1. 1 \in 1..i
      BY <2>3
    <3>2. toDev # <<>>
      BY <2>3
    <3> QED
      BY <2>2, <3>1, <3>2
  <2>5. Len(toDev) = 1 => toDev' = <<>>
    BY <1>0, <2>1, <2>3
  <2>6. wire = <<>> => Len(wire') = 1 /\ wire'[1] = p
    BY <2>2
  <2>7. wire # <<>> => Head(wire') = Head(wire) /\ wire' # <<>>
    BY <1>0, <2>2
  <2>8. Synced => Synced'
    BY <1>1, <2>3, <2>4, <2>5, <2>6 DEF Synced, NothingOwed, Serves
  <2>9. Leftover => Leftover'
    BY <1>1, <2>4, <2>7 DEF Leftover
  <2> QED
    BY <1>1, <2>8, <2>9
<1> QED
  BY <1>2, <1>3, <1>4

(* A command that opens a future is all there is, or follows the leftover  *)
(* prompt.                                                                 *)
LEMMA TakingSyncs ==
  ASSUME TypeOK, NEW t \in Tasks, NEW f \in Futures, Takes(t, f), link = "open"
  PROVE  /\ Synced => Synced'
         /\ Leftover /\ fut[first] # "set" => Leftover'
<1>0. toDev \in Seq(Commands) /\ f # NoId
  BY IdFacts DEF TypeOK
<1>1. pending = NoId /\ pending' = f /\ UNCHANGED <<wire, dev>>
  BY DEF Takes
<1>2. PICK op \in Ops : toDev' = Append(toDev, [op |-> op, id |-> f])
  BY DEF Takes, Write
<1>3. toDev = <<>> => Len(toDev') = 1 /\ toDev'[1].id = f
  BY <1>2
<1>4. Synced => Synced'
  BY <1>0, <1>1, <1>3 DEF Synced, NothingOwed, Serves
<1>5. fut[first] # "set" => fut'[first] # "none"
  BY FirstFuture DEF Takes, TypeOK
<1> QED
  BY <1>1, <1>4, <1>5 DEF Leftover

(* Each prompt goes to the future it was sent for.                         *)
LEMMA ReceivingSyncs ==
  ASSUME IInv, FirstComes, Quiet, OwnAnswer, DataReceived, cancels = 0
  PROVE  Quiet' /\ OwnAnswer'
<1>0. /\ TypeOK /\ Holder /\ wire \in Seq(Prompts) /\ wire # <<>>
      /\ \A f \in Futures : fut[f] # "cancelled"
      /\ cancel = {} /\ Alive
      /\ UNCHANGED <<link, cancel, toDev, dev, cancels>> /\ wire' = Tail(wire)
  BY DEF IInv, TypeOK, Quiet, DataReceived, Alive
<1>1. Synced => pending # NoId /\ NothingOwed' /\ pending \in Head(wire).to
  BY <1>0 DEF Synced, Serves, NothingOwed
<1>2. CASE pending # NoId
  <2>1. fut[pending] = "unset" /\ pending \in Futures
    BY <1>0, <1>2 DEF Holder, TypeOK
  <2>2. /\ fut' = [fut EXCEPT ![pending] = "set"]
        /\ reply' = [reply EXCEPT ![pending] =
                        [resp |-> Response(Head(wire)), to |-> Head(wire).to]]
        /\ pending' = NoId
    BY <1>2, <2>1 DEF DataReceived, PendingUnset
  <2>3. /\ fut'[pending] = "set" /\ reply'[pending].to = Head(wire).to
        /\ \A f \in Futures \ {pending} : fut'[f] = fut[f] /\ reply'[f] = reply[f]
    BY <1>0, <2>1, <2>2 DEF TypeOK
  <2>4. Synced => Synced'
    BY <1>1, <2>2 DEF Synced, NothingOwed
  <2>5. CASE fut[first] # "set"
    <3>1. pending = first
      BY <2>1, <2>5 DEF FirstComes
    <3>2. first \in reply'[first].to => Synced
      BY <1>0, <2>3, <2>5, <3>1 DEF Quiet, Leftover
    <3>3. OwnAnswer'
      BY <2>3, <2>5, <3>1 DEF OwnAnswer, FirstComes, first
    <3>4. Quiet'
      BY <1>0, <2>3, <2>4, <3>1, <3>2 DEF Quiet
    <3> QED
      BY <3>3, <3>4
  <2>6. CASE fut[first] = "set"
    <3>1. pending # first /\ first \in Futures
      BY <2>1, <2>6, FirstFuture
    <3>2. fut'[first] = "set" /\ reply'[first] = reply[first]
      BY <2>3, <2>6, <3>1
    <3>3. Quiet'
      BY <1>0, <2>3, <2>4, <2>6, <3>2 DEF Quiet
    <3>4. ASSUME first \in reply[first].to, NEW f \in Futures, fut'[f] = "set"
          PROVE  f \in reply'[f].to
      <4>1. Synced
        BY <1>0, <2>6, <3>4 DEF Quiet
      <4>2. CASE f = pending
        BY <1>1, <2>3, <4>1, <4>2
      <4>3. CASE f # pending
        BY <1>0, <2>3, <2>6, <3>4, <4>3 DEF OwnAnswer, first
      <4> QED
        BY <4>2, <4>3
    <3>5. OwnAnswer'
      BY <3>2, <3>4 DEF OwnAnswer, first
    <3> QED
      BY <3>3, <3>5
  <2> QED
    BY <2>5, <2>6
<1>3. CASE pending = NoId
  <2>1. UNCHANGED <<fut, reply, pending>>
    BY <1>3 DEF DataReceived
  <2>2. ~Synced
    BY <1>1, <1>3
  <2>3. fut[first] # "unset"
    BY <1>0, <1>3, FirstFuture DEF Holder
  <2>4. fut[first] \in {"none", "set"}
    BY <1>0, <2>3, FirstFuture DEF TypeOK
  <2>5. fut[first] # "set" => Synced'
    <3>1. fut[first] # "set" => toDev = <<>> /\ dev.op = "idle" /\ Len(wire) = 1
      BY <1>0, <2>2, <2>4 DEF Quiet, Leftover
    <3>2. Len(wire) = 1 => Tail(wire) = <<>>
      BY <1>0
    <3> QED
      BY <1>0, <1>3, <2>1, <3>1, <3>2 DEF Synced, NothingOwed
  <2>6. Quiet'
    BY <1>0, <2>1, <2>2, <2>5 DEF Quiet
  <2> QED
    BY <1>0, <2>1, <2>6 DEF OwnAnswer
<1> QED
  BY <1>2, <1>3

LEMMA NextQuiet ==
  IInv /\ FirstComes /\ Quiet /\ OwnAnswer /\ LineStep /\ FutureStep => Quiet' /\ OwnAnswer'
<1> SUFFICES ASSUME IInv, FirstComes, Quiet, OwnAnswer, LineStep, FutureStep
             PROVE  Quiet' /\ OwnAnswer'
  OBVIOUS
<1>0. TypeOK /\ Suspended /\ Holder /\ cancels \in Nat
  BY DEF IInv, TypeOK
<1>1. ASSUME NEW t \in Tasks, NEW f \in Futures, Takes(t, f) PROVE Quiet' /\ OwnAnswer'
  <2>1. /\ UNCHANGED <<link, cancel, reply, cancels>> /\ link # "closed"
        /\ fut'[f] = "unset" /\ fut[f] = "none"
        /\ \A g \in Futures \ {f} : fut'[g] = fut[g]
    BY <1>0, <1>1 DEF Takes, TypeOK
  <2>2. fut'[first] = "set" <=> fut[first] = "set"
    BY <1>1, <2>1, FirstFuture DEF Takes
  <2>3. OwnAnswer'
    BY <2>1, <2>2 DEF OwnAnswer, first
  <2>4. Quiet'
    <3> SUFFICES ASSUME cancels = 0, link = "open" PROVE Quiet'
      BY <2>1 DEF Quiet, Alive
    <3>1. (Synced => Synced') /\ (Leftover /\ fut[first] # "set" => Leftover')
      BY <1>0, <1>1, TakingSyncs
    <3> QED
      BY <2>1, <2>2, <3>1 DEF Quiet, Alive
  <2> QED
    BY <2>3, <2>4
<1>2. CASE Rests
  BY <1>2 DEF Rests, Quiet, Synced, Leftover, NothingOwed, Serves, OwnAnswer
<1>3. ASSUME NEW t \in Tasks, CancelAwaiting(t) PROVE Quiet' /\ OwnAnswer'
  <2>1. UNCHANGED <<link, fut, reply, cancels>>
    BY <1>3 DEF CancelAwaiting
  <2>2. ~(cancels = 0 /\ Alive)
    BY <1>0, <1>3 DEF CancelAwaiting, Interrupted, Quiet, Suspended
  <2> QED
    BY <2>1, <2>2 DEF Quiet, OwnAnswer, Alive
<1>4. ASSUME NEW t \in Tasks, Timeout(t) PROVE Quiet' /\ OwnAnswer'
  <2>1. cancels' # 0
    BY <1>0, <1>4 DEF Timeout
  <2> QED
    BY <2>1 DEF Quiet, OwnAnswer
<1>5. CASE ConnectionLost \/ Shutdown
  <2>1. ~Alive' /\ UNCHANGED <<reply, cancels>>
    BY <1>5 DEF ConnectionLost, Shutdown, Alive
  <2>2. \A f \in Futures : fut'[f] = "set" <=> fut[f] = "set"
    BY <1>5 DEF ConnectionLost, Shutdown, RequestCancel
  <2> QED
    BY <2>1, <2>2, FirstFuture DEF Quiet, OwnAnswer, first
<1>6. CASE DataReceived
  <2>1. cancels' = cancels
    BY <1>6 DEF DataReceived
  <2> QED
    BY <1>6, <2>1, ReceivingSyncs DEF Quiet, OwnAnswer
<1>7. CASE DevStart \/ DevAnswer \/ DevInterrupt
  <2>1. (Synced => Synced') /\ (Leftover => Leftover')
        /\ UNCHANGED <<link, cancel, pending, fut, reply, cancels>>
    BY <1>0, <1>7, MeterKeepsSynced
  <2> QED
    BY <2>1 DEF Quiet, OwnAnswer, Alive
<1> QED
  BY <1>1, <1>2, <1>3, <1>4, <1>5, <1>6, <1>7 DEF LineStep

(* Until the first timeout, and if the ^C of the handshake got the prompt  *)
(* it caused, every caller gets the meter's response to its own command.   *)
THEOREM OwnAnswerAlways == Spec => []OwnAnswer
<1>1. IInv /\ Handshake /\ FirstComes /\ Quiet /\ OwnAnswer /\ [Next]_vars
        => (FirstComes /\ Quiet /\ OwnAnswer)'
  BY NextLine, NextFutures, NextFirst, NextQuiet
<1> QED
  BY <1>1, InitIInv, NextIInv, InitHandshake, NextHandshake, InitQuiet, PTL DEF Spec
=============================================================================
