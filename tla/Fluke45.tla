------------------------------ MODULE Fluke45 ------------------------------
(***************************************************************************)
(* Fluke45Protocol (src/workshop/lab/fluke.py): an asyncio client that     *)
(* multiplexes concurrent callers over the serial line of a multimeter.    *)
(*                                                                         *)
(* An action is what one task or callback does between two suspensions of  *)
(* the event loop.  The lock of self._cond is never held across a          *)
(* suspension other than Condition.wait, which releases it, so acquiring   *)
(* it never waits and it is not part of the state.                         *)
(*                                                                         *)
(* The meter is external: it answers each command with one prompt, and ^C  *)
(* makes it drop what it is doing and what it has not yet read, with one   *)
(* prompt for all of it (what _ask and _run rely on).                      *)
(***************************************************************************)
EXTENDS Integers, Sequences

CONSTANTS
  Askers,       \* tasks that call ask()
  Runner,       \* the task created by connection_made, running _run()
  MaxCalls,     \* bound: calls of _ask per task
  MaxCancels,   \* bound: cancellations of askers (wait_for timeouts)
  MayDrop,      \* whether the port may disappear
  StaleMarks    \* prompts a previous session may have left on the line

ASSUME RunnerAssumption == Runner \notin Askers
ASSUME MaxCallsAssumption == MaxCalls \in Nat /\ MaxCalls >= 2
ASSUME MaxCancelsAssumption == MaxCancels \in Nat
ASSUME StaleMarksAssumption == StaleMarks \subseteq {"=", "?", "!", "other"}

VARIABLES
  state,     \* _state
  link,      \* the transport and the loop: closed, open, lost, stopped
  pc,        \* where each task is suspended
  calls,     \* _ask calls made by each task so far
  on,        \* the future each task is awaiting
  notified,  \* tasks woken by notify_all that have not run yet
  cancel,    \* tasks with a cancellation not delivered yet
  pending,   \* _pending_response
  fut,       \* status of the futures created by _ask
  reply,     \* what data_received put into them
  toDev,     \* bytes written and not yet read by the meter
  dev,       \* the command the meter is executing
  wire,      \* prompts sent and not yet read by data_received
  cancels    \* cancellations so far

clientVars == <<state, link, pc, calls, on, notified, cancel, pending, fut, reply>>
deviceVars == <<toDev, dev, wire>>
vars == <<state, link, pc, calls, on, notified, cancel, pending, fut, reply,
          toDev, dev, wire, cancels>>

Tasks == Askers \cup {Runner}

(* The k-th future of task t is <<t, k>>; <<t, 0>> is none of t's.         *)
Ids == Tasks \X (0..MaxCalls)
Futures == Tasks \X (1..MaxCalls)
NoId == <<Runner, 0>>

(* Mistake: the call is counted twice.                                     *)
CountedTwice(t) == <<t, calls[t] + 1>>
(* The future of the _ask that t is in.                                    *)
Current(t) == <<t, calls[t]>>

ConnectionState == {"DISCONNECTED", "CONNECTING", "INITIALIZING", "READY"}
Waiting == {"connWait", "lineWait"}
Active == Waiting \cup {"start", "awaiting", "cleanup"}
Pcs == Active \cup {"idle", "done", "failed"}
Errors == {"CommandError", "ExecutionError", "ValueError"}
Responses == Errors \cup {"line", "None"}
NoReply == [resp |-> "None", to |-> {}]

Ops == {"intr", "format", "query", "trigger"}
Commands == [op : Ops, id : Ids]
Prompts == [mark : {"=", "?", "!", "other"}, text : BOOLEAN, to : SUBSET Ids]
NoCommand == [op |-> "idle", id |-> NoId]

(* What data_received makes of the last line of a response.                *)
Response(p) == CASE p.mark = "?" -> "CommandError"
                 [] p.mark = "!" -> "ExecutionError"
                 [] p.mark = "=" /\ p.text -> "line"
                 [] p.mark = "=" /\ ~p.text -> "None"
                 [] OTHER -> "ValueError"

(* A future is pending and has no outcome yet.                             *)
PendingUnset == pending # NoId /\ fut[pending] = "unset"

Init ==
  /\ state = "DISCONNECTED" /\ link = "closed"
  /\ pc = [t \in Tasks |-> "idle"]
  /\ calls = [t \in Tasks |-> 0]
  /\ on = [t \in Tasks |-> NoId]
  /\ notified = {} /\ cancel = {}
  /\ pending = NoId
  /\ fut = [f \in Futures |-> "none"]
  /\ reply = [f \in Futures |-> NoReply]
  /\ toDev = <<>> /\ dev = NoCommand
  /\ \/ wire = <<>>
     \/ \E m \in StaleMarks : wire = <<[mark |-> m, text |-> TRUE, to |-> {}]>>
  /\ cancels = 0

-----------------------------------------------------------------------------
(* Building blocks: parts of handlers, used by the actions below.          *)

(* Mistake: nothing is written until the handshake is over.                *)
WriteWhenReady(cmd) == toDev' = IF state = "READY" THEN Append(toDev, cmd) ELSE toDev
(* transport.write: a transport that is closing drops the bytes.           *)
Write(cmd) == toDev' = IF link = "open" THEN Append(toDev, cmd) ELSE toDev

(* Mistake: notify() for notify_all().                                     *)
NotifyOne ==
  \/ \E t \in Tasks : pc[t] \in Waiting /\ notified' = notified \cup {t}
  \/ (\A t \in Tasks : pc[t] \notin Waiting) /\ UNCHANGED notified
(* self._cond.notify_all()                                                 *)
NotifyAll == notified' = notified \cup {t \in Tasks : pc[t] \in Waiting}

(* Mistake: connect() lets callers through as soon as _run has started.    *)
ConnectedEarly == state \in {"CONNECTING", "READY"}
(* What connect() waits for.                                               *)
Connected == state = "READY"

(* Mistake: _ask does not wait for the line.                               *)
LineNotChecked == TRUE
(* What _ask waits for.                                                    *)
LineFree == pending = NoId

(* Mistake: a cancelled caller waits for the prompt without asking for one.*)
NoInterrupt(t) == UNCHANGED toDev
SendInterrupt(t) == Write([op |-> "intr", id |-> <<t, 0>>])

(* Condition.wait is left with an exception: from Python 3.13 on another   *)
(* waiter, if there is one, is woken instead.                              *)
PassOn(t) ==
  \/ notified' = notified \ {t}
  \/ \E u \in Tasks \ (notified \cup cancel) :
       u # t /\ pc[u] \in Waiting /\ notified' = (notified \ {t}) \cup {u}

(* _ask up to its first suspension: take the line, or wait for it.         *)
TakeLine(t, f, ops) ==
  \/ /\ LineFree
     /\ pending' = f
     /\ fut' = [fut EXCEPT ![f] = "unset"]
     /\ on' = [on EXCEPT ![t] = f]
     /\ pc' = [pc EXCEPT ![t] = "awaiting"]
     /\ \E op \in ops : Write([op |-> op, id |-> f])
  \/ /\ ~LineFree
     /\ pc' = [pc EXCEPT ![t] = "lineWait"]
     /\ UNCHANGED <<pending, fut, on, toDev>>

AskOps == {"query", "trigger"}

(* Task.cancel() on every task of S.  A task in the except branch of _ask  *)
(* awaits the future itself, without a shield: the future is cancelled.    *)
RequestCancel(S) ==
  /\ cancel' = cancel \cup S
  /\ fut' = [f \in Futures |->
               IF fut[f] = "unset" /\ \E t \in S : pc[t] = "cleanup" /\ on[t] = f
               THEN "cancelled" ELSE fut[f]]

(* A task is resumed with CancelledError: it was cancelled, or the future  *)
(* it awaits was.                                                          *)
Interrupted(t) == \/ t \in cancel
                  \/ pc[t] \in {"awaiting", "cleanup"} /\ fut[on[t]] = "cancelled"

(* The coroutine of t ends; _run records a cancellation in _state.         *)
Finish(t, how) ==
  /\ pc' = [pc EXCEPT ![t] = IF t # Runner THEN "idle"
                             ELSE IF how = "ok" THEN "done" ELSE "failed"]
  /\ state' = IF t = Runner /\ how = "Cancelled" THEN "DISCONNECTED" ELSE state

-----------------------------------------------------------------------------
(* The connection.                                                         *)

ConnectionMade ==
  /\ link = "closed"
  /\ link' = "open"
  /\ pc' = [pc EXCEPT ![Runner] = "start"]
  /\ UNCHANGED <<state, calls, on, notified, cancel, pending, fut, reply,
                 toDev, dev, wire, cancels>>

(* _run up to its first suspension.                                        *)
RunStart ==
  /\ pc[Runner] = "start" /\ Runner \notin cancel
  /\ state' = "CONNECTING"
  /\ NotifyAll
  /\ calls' = [calls EXCEPT ![Runner] = 1]
  /\ TakeLine(Runner, <<Runner, 1>>, {"intr"})
  /\ UNCHANGED <<link, cancel, reply, dev, wire, cancels>>

(* _run resumed with a response: the second command, READY, or an error    *)
(* that ends the task and leaves _state as it is.                          *)
RunReturn ==
  /\ pc[Runner] = "awaiting" /\ fut[on[Runner]] = "set" /\ Runner \notin cancel
  /\ LET failed == reply[on[Runner]].resp \in Errors IN
     \/ /\ failed
        /\ Finish(Runner, "error")
        /\ UNCHANGED <<calls, on, notified, pending, fut, toDev>>
     \/ /\ ~failed /\ calls[Runner] = 1
        /\ calls' = [calls EXCEPT ![Runner] = 2]
        /\ TakeLine(Runner, <<Runner, 2>>, {"format"})
        /\ UNCHANGED <<state, notified>>
     \/ /\ ~failed /\ calls[Runner] = 2
        /\ state' = "READY"
        /\ NotifyAll
        /\ pc' = [pc EXCEPT ![Runner] = "done"]
        /\ UNCHANGED <<calls, on, pending, fut, toDev>>
  /\ UNCHANGED <<link, cancel, reply, dev, wire, cancels>>

(* The task is cancelled before its first step: _run's try is not entered. *)
RunNeverStarted ==
  /\ pc[Runner] = "start" /\ Runner \in cancel
  /\ pc' = [pc EXCEPT ![Runner] = "failed"]
  /\ cancel' = cancel \ {Runner}
  /\ UNCHANGED <<state, link, calls, on, notified, pending, fut, reply,
                 toDev, dev, wire, cancels>>

(* connection_lost: cancel _run and stop the loop.                         *)
ConnectionLost ==
  /\ MayDrop /\ link = "open"
  /\ link' = "lost"
  /\ RequestCancel({t \in {Runner} : pc[t] \in Active})
  /\ UNCHANGED <<state, pc, calls, on, notified, pending, reply,
                 toDev, dev, wire, cancels>>

(* asyncio.run, once the loop has stopped: cancel every task and wait.     *)
Shutdown ==
  /\ link = "lost"
  /\ link' = "stopped"
  /\ RequestCancel({t \in Tasks : pc[t] \in Active})
  /\ UNCHANGED <<state, pc, calls, on, notified, pending, reply,
                 toDev, dev, wire, cancels>>

-----------------------------------------------------------------------------
(* The callers.                                                            *)

(* ask() up to its first suspension: connect(), then _ask().               *)
Call(t) ==
  /\ t # Runner /\ pc[t] = "idle" /\ calls[t] < MaxCalls /\ link # "stopped"
  /\ calls' = [calls EXCEPT ![t] = @ + 1]
  /\ \/ /\ ~Connected
        /\ pc' = [pc EXCEPT ![t] = "connWait"]
        /\ UNCHANGED <<pending, fut, on, toDev>>
     \/ /\ Connected
        /\ TakeLine(t, <<t, calls[t] + 1>>, AskOps)
  /\ UNCHANGED <<state, link, notified, cancel, reply, dev, wire, cancels>>

(* A waiter of self._cond runs after a notify and looks again.             *)
Recheck(t) ==
  /\ t \in notified /\ pc[t] \in Waiting /\ t \notin cancel
  /\ notified' = notified \ {t}
  /\ \/ /\ pc[t] = "lineWait" \/ Connected
        /\ TakeLine(t, Current(t), AskOps)
     \/ /\ pc[t] = "connWait" /\ ~Connected
        /\ UNCHANGED <<pc, pending, fut, on, toDev>>
  /\ UNCHANGED <<state, link, calls, cancel, reply, dev, wire, cancels>>

(* The shielded await of _ask delivers the response.                       *)
Return(t) ==
  /\ t # Runner
  /\ pc[t] = "awaiting" /\ fut[on[t]] = "set" /\ t \notin cancel
  /\ Finish(t, "ok")
  /\ UNCHANGED <<link, calls, on, notified, cancel, pending, fut, reply,
                 toDev, dev, wire, cancels>>

(* asyncio.wait_for gives up on a caller.                                  *)
Timeout(t) ==
  /\ t # Runner /\ pc[t] \in Active /\ t \notin cancel
  /\ cancels < MaxCancels
  /\ cancels' = cancels + 1
  /\ RequestCancel({t})
  /\ UNCHANGED <<state, link, pc, calls, on, notified, pending, reply,
                 toDev, dev, wire>>

(* CancelledError out of Condition.wait: nothing catches it.               *)
CancelWaiting(t) ==
  /\ pc[t] \in Waiting /\ t \in cancel
  /\ Finish(t, "Cancelled")
  /\ cancel' = cancel \ {t}
  /\ PassOn(t)
  /\ UNCHANGED <<link, calls, on, pending, fut, reply, toDev, dev, wire, cancels>>

(* The except branch of _ask: ^C, then await whatever future is pending by *)
(* now.  Awaiting a cancelled one raises at once; awaiting None is a       *)
(* TypeError.                                                              *)
CancelAwaiting(t) ==
  /\ pc[t] = "awaiting" /\ Interrupted(t)
  /\ SendInterrupt(t)
  /\ cancel' = cancel \ {t}
  /\ \/ /\ pending # NoId /\ fut[pending] = "unset"
        /\ pc' = [pc EXCEPT ![t] = "cleanup"]
        /\ on' = [on EXCEPT ![t] = pending]
        /\ UNCHANGED state
     \/ /\ pending # NoId /\ ~PendingUnset
        /\ Finish(t, "Cancelled")
        /\ UNCHANGED on
     \/ /\ pending = NoId
        /\ Finish(t, "TypeError")
        /\ UNCHANGED on
  /\ UNCHANGED <<link, calls, notified, pending, fut, reply, dev, wire, cancels>>

(* A second cancellation, in the except branch.                            *)
CancelCleanup(t) ==
  /\ pc[t] = "cleanup" /\ Interrupted(t)
  /\ Finish(t, "Cancelled")
  /\ cancel' = cancel \ {t}
  /\ UNCHANGED <<link, calls, on, notified, pending, fut, reply,
                 toDev, dev, wire, cancels>>

(* The prompt awaited in the except branch: re-raise CancelledError, unless*)
(* the future carries an exception of its own.                             *)
CleanupDone(t) ==
  /\ pc[t] = "cleanup" /\ fut[on[t]] = "set" /\ ~Interrupted(t)
  /\ Finish(t, IF reply[on[t]].resp \in Errors THEN "error" ELSE "Cancelled")
  /\ UNCHANGED <<link, calls, on, notified, cancel, pending, fut, reply,
                 toDev, dev, wire, cancels>>

(* data_received, for one complete response: resolve the pending future    *)
(* and clear it.  With no future pending the response is dropped; setting  *)
(* a cancelled one raises InvalidStateError before the assignment of None. *)
(* Nobody who waits for the line is notified.                              *)
DataReceived ==
  /\ link = "open" /\ wire # <<>>
  /\ wire' = Tail(wire)
  /\ \/ /\ pending # NoId /\ fut[pending] = "unset"
        /\ fut' = [fut EXCEPT ![pending] = "set"]
        /\ reply' = [reply EXCEPT ![pending] =
                       [resp |-> Response(Head(wire)), to |-> Head(wire).to]]
        /\ pending' = NoId
     \/ /\ ~PendingUnset
        /\ UNCHANGED <<fut, reply, pending>>
  /\ UNCHANGED <<state, link, pc, calls, on, notified, cancel, toDev, dev, cancels>>

-----------------------------------------------------------------------------
(* The meter (external).                                                   *)

DevStart ==
  /\ dev.op = "idle" /\ toDev # <<>> /\ Head(toDev).op # "intr"
  /\ dev' = Head(toDev)
  /\ toDev' = Tail(toDev)
  /\ UNCHANGED <<clientVars, wire, cancels>>

(* The end of a command; one that waits for a trigger may never end.       *)
DevAnswer ==
  /\ dev.op # "idle"
  /\ \E m \in {"=", "!"} :
       wire' = Append(wire, [mark |-> m, text |-> m = "=" /\ dev.op # "format",
                             to |-> {dev.id}])
  /\ dev' = NoCommand
  /\ UNCHANGED <<clientVars, toDev, cancels>>

DevInterrupt ==
  \E i \in DOMAIN toDev :
    /\ toDev[i].op = "intr"
    /\ \A j \in 1..(i - 1) : toDev[j].op # "intr"
    /\ wire' = Append(wire, [mark |-> "=", text |-> FALSE,
                             to |-> {toDev[j].id : j \in 1..i} \cup {dev.id}])
    /\ toDev' = SubSeq(toDev, i + 1, Len(toDev))
    /\ dev' = NoCommand
    /\ UNCHANGED <<clientVars, cancels>>

-----------------------------------------------------------------------------

Next ==
  \/ ConnectionMade \/ RunStart \/ RunReturn \/ RunNeverStarted
  \/ ConnectionLost \/ Shutdown
  \/ \E t \in Tasks : \/ Call(t) \/ Recheck(t) \/ Return(t) \/ Timeout(t)
                      \/ CancelWaiting(t) \/ CancelAwaiting(t)
                      \/ CancelCleanup(t) \/ CleanupDone(t)
  \/ DataReceived
  \/ DevStart \/ DevAnswer \/ DevInterrupt

(* The loop runs every ready task, reads the port, and stops once told to; *)
(* the meter reads its input, answers a query and obeys ^C.  Nothing makes *)
(* a caller call, a timeout expire, the port vanish or a trigger arrive.   *)
Fairness ==
  /\ WF_vars(ConnectionMade) /\ WF_vars(RunStart) /\ WF_vars(RunReturn)
  /\ WF_vars(Shutdown) /\ WF_vars(DataReceived)
  /\ \A t \in Tasks : /\ WF_vars(Recheck(t)) /\ WF_vars(Return(t))
                      /\ WF_vars(CancelWaiting(t)) /\ WF_vars(CancelAwaiting(t))
                      /\ WF_vars(CancelCleanup(t)) /\ WF_vars(CleanupDone(t))
  /\ WF_vars(DevStart) /\ WF_vars(DevInterrupt)
  /\ WF_vars(dev.op # "trigger" /\ DevAnswer)

Spec == Init /\ [][Next]_vars
FairSpec == Spec /\ Fairness

-----------------------------------------------------------------------------
(* Properties.                                                             *)

TypeOK ==
  /\ state \in ConnectionState
  /\ link \in {"closed", "open", "lost", "stopped"}
  /\ pc \in [Tasks -> Pcs]
  /\ calls \in [Tasks -> 0..MaxCalls]
  /\ on \in [Tasks -> Futures \cup {NoId}]
  /\ notified \subseteq Tasks /\ cancel \subseteq Tasks
  /\ pending \in Futures \cup {NoId}
  /\ fut \in [Futures -> {"none", "unset", "set", "cancelled"}]
  /\ reply \in [Futures -> [resp : Responses, to : SUBSET Ids]]
  /\ toDev \in Seq(Commands) /\ dev \in Commands \cup {NoCommand}
  /\ wire \in Seq(Prompts)
  /\ cancels \in 0..MaxCancels

(* A task suspended in _ask is always served by the next prompt: as long   *)
(* as the future it awaits has no outcome, that future is the one          *)
(* data_received will resolve.  It relates the local variable of every     *)
(* suspended coroutine to the shared _pending_response, which other tasks  *)
(* clear and replace meanwhile.                                            *)
AwaitsPending ==
  \A t \in Tasks :
    pc[t] \in {"awaiting", "cleanup"} /\ fut[on[t]] = "unset" => pending = on[t]

(* While a future waits for a prompt on an open line, a prompt or a command*)
(* that will produce one exists: no interleaving of callers, timeouts and  *)
(* ^C leaves the client waiting for a prompt nobody owes it.               *)
AnswerOnTheWay ==
  link = "open" /\ PendingUnset
    => toDev # <<>> \/ dev.op # "idle" \/ wire # <<>>

(* No caller writes to the meter before both commands of _run's handshake  *)
(* have been answered without error.                                       *)
HandshakeFirst ==
  (\E t \in Askers : \E k \in 1..MaxCalls : fut[<<t, k>>] # "none")
    => \A k \in {1, 2} : /\ fut[<<Runner, k>>] = "set"
                         /\ reply[<<Runner, k>>].resp \notin Errors

(* Prompts owed by the meter beyond the one of the pending future.         *)
Surplus == Len(toDev) + Len(wire) + (IF dev.op # "idle" THEN 1 ELSE 0)
           - (IF pending # NoId THEN 1 ELSE 0)

(* Each timeout puts the client at most one prompt behind the meter: the   *)
(* drift between questions and answers is bounded by the timeouts so far   *)
(* and the prompts a previous session left.                                *)
DriftBounded == link = "open" => Surplus <= cancels + (IF StaleMarks = {} THEN 0 ELSE 1)

(* No caller sleeps through READY: whoever waits in connect() by then, from*)
(* before, during or after the handshake's other notify and whoever of the *)
(* others was cancelled meanwhile, has been woken to look again.           *)
WokenWhenReady ==
  state = "READY" => \A t \in Tasks : pc[t] = "connWait" => t \in notified \cup cancel

(* The futures of _ask take turns as RequestLine says.                     *)
Line == INSTANCE RequestLine
TakesTurns == Line!Spec

(* If the ^C of the handshake got the prompt it caused (and not one left   *)
(* over from a previous session), then until the first timeout every       *)
(* response a caller gets is the meter's response to its own command.      *)
OwnAnswer ==
  LET first == <<Runner, 1>> IN
  cancels = 0 /\ fut[first] = "set" /\ first \in reply[first].to
    => \A f \in Futures : fut[f] = "set" => f \in reply[f].to

(* The comment at the ^C in _ask: it brings the line back to a happy place.*)
(* If it did, every response would belong to the command it resolves, with *)
(* or without timeouts before it.                                          *)
HappyPlace == \A f \in Futures : fut[f] = "set" => f \in reply[f].to

(* A command that was written is answered, if it is one the meter answers  *)
(* by itself or its caller gives up: no caller that holds the line waits   *)
(* for ever on an open one.                                                *)
HeldByTrigger(t) == dev.op = "trigger" \/ \E i \in DOMAIN toDev : toDev[i].op = "trigger"
SubmittedReturns ==
  \A t \in Tasks :
    pc[t] = "awaiting" ~> (pc[t] # "awaiting" \/ HeldByTrigger(t) \/ link # "open")

(* A caller whose timeout fired gets control back, whatever it was waiting *)
(* for and whichever command the meter is stuck in, while the port lives.  *)
CancelledReturns ==
  \A t \in Askers : t \in cancel ~> (pc[t] = "idle" \/ link # "open")
=============================================================================
