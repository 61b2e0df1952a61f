-------------------------- MODULE CommandProcessor --------------------------
(***************************************************************************)
(* The serial command processor (src/src/command_processor.rs).            *)
(*                                                                         *)
(* One worker thread pops commands off a bounded queue, records the one it *)
(* is about to send as "outstanding" and hands it to the platform; the     *)
(* platform answers on its own threads through two callbacks, the data     *)
(* callback and then the completion callback, both of which complete the   *)
(* outstanding command.  Other threads queue commands, clear the queue,    *)
(* hold the dispatch, abort, stop, and wait for the processor to be idle.  *)
(*                                                                         *)
(* Each step of the model is one critical section, or one atomic access,   *)
(* of the code.  Where the worker keeps a mutex from one step to the next  *)
(* (the outstanding mutex in pc "idleQueue", the queue mutex in pc         *)
(* "idleWoken") the steps of the other threads that take it are disabled.  *)
(***************************************************************************)
EXTENDS Integers, Sequences, FiniteSets

CONSTANTS
  Cmd,           \* command strings
  MaxQueue,      \* max_queue_size
  Ops,           \* what, besides queue_command, the callers and host do
  MaxIssued,     \* bound: queue_command calls that succeed
  StatMod        \* in_progress_commands is an unsigned counter modulo StatMod

None == [id |-> 0, cmd |-> "none"]    \* no command

ASSUME ConstantsAssumption ==
  /\ MaxQueue \in Nat \ {0} /\ MaxIssued \in Nat /\ StatMod \in Nat \ {0}
  /\ Ops \subseteq {"clear", "hold", "chain", "reset", "abort", "stop",
                     "disconnect", "writeFail", "wait"}

Ids == 1 .. MaxIssued
Exchange == [id : Ids, cmd : Cmd]     \* one queue_command call

(* The threads that run the platform's callbacks: its delivery thread, the *)
(* host thread that reports a disconnect, and the worker itself when a     *)
(* write fails or the dialect answers a command locally.                   *)
Handlers == {"delivery", "host", "worker"}

VARIABLES
  queue,          \* commands waiting, oldest first
  running,        \* the worker's control flag
  hold_dispatch,  \* the monitor owns the transport: do not dispatch
  dispatching,    \* a command is popped and not yet handed over
  outstanding,    \* the command waiting for its answer, or None
  guards,         \* completion_guards: data callbacks in progress
  activity,       \* counts queue_command calls
  chain_alive,    \* the polling chain's life flag, kept for the session
  in_progress,    \* stats.in_progress_commands
  worker,         \* [pc, cmd] of processing_loop
  wire,           \* exchanges sent whose callback has not begun
  lastSent,       \* the platform's pending_command
  cb,             \* [pc, e] of the callback each platform thread runs
  waiter,         \* [pc, epoch] of a caller of wait_for_idle
  abortPc, stopPc, \* where a caller of abort / stop is
  abandoned,      \* history: ids aborted or failed by a disconnect
  early,          \* history: ids completed by an older command's callback
  heldPops        \* history: pops since the dispatch was held

procVars == <<queue, running, hold_dispatch, dispatching, outstanding, guards,
              activity, chain_alive, in_progress>>
linkVars == <<wire, lastSent, cb>>
vars == <<procVars, worker, linkVars, waiter, abortPc, stopPc, abandoned,
          early, heldPops>>

-----------------------------------------------------------------------------
WorkerPc == {"top", "check", "holdPop", "holdWait", "pop", "rate", "mark",
             "send", "sent", "idle", "idleQueue", "queueWait", "idleWoken",
             "doneCheck", "doneWait", "doneWoken", "exited"}
WaiterPc == {"off", "first", "firstWait", "epoch", "queue", "dispatching",
             "outstanding", "guards", "verdict", "retry", "retryWait",
             "idle", "busy"}
CbPc == {"none", "guarded", "marked", "completing"}

TypeOK ==
  /\ queue \in Seq(Exchange) /\ Len(queue) <= MaxQueue
  /\ running \in BOOLEAN /\ hold_dispatch \in BOOLEAN /\ dispatching \in BOOLEAN
  /\ outstanding \in Exchange \cup {None}
  /\ guards \in Nat /\ activity \in 0 .. MaxIssued
  /\ chain_alive \in BOOLEAN /\ in_progress \in 0 .. (StatMod - 1)
  /\ worker \in [pc : WorkerPc, cmd : Exchange \cup {None}]
  /\ wire \subseteq Exchange
  /\ lastSent \in Exchange \cup {None}
  /\ cb \in [Handlers -> [pc : CbPc, e : Exchange \cup {None}]]
  /\ waiter \in [pc : WaiterPc, epoch : 0 .. MaxIssued]
  /\ abortPc \in {"off", "clear", "release"}
  /\ stopPc \in {"off", "flag", "notifyQueue", "notifyDone", "stopped"}
  /\ abandoned \subseteq Ids /\ early \subseteq Ids
  /\ heldPops \in Nat

Init ==
  /\ queue = <<>> /\ running = TRUE /\ hold_dispatch = FALSE
  /\ dispatching = FALSE /\ outstanding = None /\ guards = 0 /\ activity = 0
  /\ chain_alive = FALSE /\ in_progress = 0
  /\ worker = [pc |-> "top", cmd |-> None]
  /\ wire = {} /\ lastSent = None
  /\ cb = [t \in Handlers |-> [pc |-> "none", e |-> None]]
  /\ waiter = [pc |-> "off", epoch |-> 0]
  /\ abortPc = "off" /\ stopPc = "off"
  /\ abandoned = {} /\ early = {} /\ heldPops = 0

-----------------------------------------------------------------------------
(* Locks the worker carries from one step to the next, and the condition   *)
(* variables: a notification moves whoever waits to its woken pc.          *)
QueueFree       == worker.pc # "idleWoken"
OutstandingFree == worker.pc # "idleQueue"

WorkerAt(pc) == worker' = [worker EXCEPT !.pc = pc]

NotifyQueue ==
  worker' = IF worker.pc = "queueWait" THEN [worker EXCEPT !.pc = "idleWoken"]
            ELSE worker

NotifyDone ==
  waiter' = IF waiter.pc = "firstWait" THEN [waiter EXCEPT !.pc = "first"]
            ELSE IF waiter.pc = "retryWait" THEN [waiter EXCEPT !.pc = "epoch"]
            ELSE waiter

(* Both condition variables, as mark_command_completed and abort do. *)
NotifyBoth ==
  /\ worker' = IF worker.pc = "queueWait" THEN [worker EXCEPT !.pc = "idleWoken"]
               ELSE IF worker.pc = "doneWait" THEN [worker EXCEPT !.pc = "doneWoken"]
               ELSE worker
  /\ NotifyDone

Elements(s) == {s[i] : i \in DOMAIN s}

-----------------------------------------------------------------------------
(* Definitions named Mutant... are wrong versions of the one that follows,  *)
(* each a plausible bug: a property is only worth stating if it sees one.  *)

(* queue_command without its notification.                                 *)
MutantEnqueueSilent(c) ==
  /\ QueueFree /\ Len(queue) < MaxQueue /\ activity < MaxIssued
  /\ queue' = Append(queue, [id |-> activity + 1, cmd |-> c])
  /\ activity' = activity + 1
  /\ UNCHANGED <<running, hold_dispatch, dispatching, outstanding, guards,
                 chain_alive, in_progress, worker, linkVars, waiter, abortPc,
                 stopPc, abandoned, early, heldPops>>

(* queue_command: refused when the queue is full (no state change).        *)
Enqueue(c) ==
  /\ QueueFree
  /\ Len(queue) < MaxQueue /\ activity < MaxIssued
  /\ queue' = Append(queue, [id |-> activity + 1, cmd |-> c])
  /\ activity' = activity + 1
  /\ NotifyQueue
  /\ UNCHANGED <<running, hold_dispatch, dispatching, outstanding, guards,
                 chain_alive, in_progress, linkVars, waiter, abortPc, stopPc,
                 abandoned, early, heldPops>>

(* A caller's queue_command: api, handlers, link init, one-shots.          *)
QueueCommand == \E c \in Cmd : Enqueue(c)

ClearQueue ==
  /\ "clear" \in Ops /\ QueueFree /\ queue # <<>>
  /\ queue' = <<>>
  /\ UNCHANGED <<running, hold_dispatch, dispatching, outstanding, guards,
                 activity, chain_alive, in_progress, worker, linkVars, waiter,
                 abortPc, stopPc, abandoned, early, heldPops>>

(* set_hold_dispatch; a release wakes the worker under the queue mutex.    *)
Hold ==
  /\ "hold" \in Ops /\ ~hold_dispatch
  /\ hold_dispatch' = TRUE /\ heldPops' = 0
  /\ UNCHANGED <<queue, running, dispatching, outstanding, guards, activity,
                 chain_alive, in_progress, worker, linkVars, waiter, abortPc,
                 stopPc, abandoned, early>>

Release ==
  /\ hold_dispatch /\ QueueFree
  /\ hold_dispatch' = FALSE /\ heldPops' = 0
  /\ NotifyQueue
  /\ UNCHANGED <<queue, running, dispatching, outstanding, guards, activity,
                 chain_alive, in_progress, linkVars, waiter, abortPc, stopPc,
                 abandoned, early>>

(* set_chain_alive and try_claim_chain: the processor only keeps the flag. *)
SetChainAlive(alive) ==
  /\ "chain" \in Ops
  /\ chain_alive' = alive
  /\ UNCHANGED <<queue, running, hold_dispatch, dispatching, outstanding,
                 guards, activity, in_progress, worker, linkVars, waiter,
                 abortPc, stopPc, abandoned, early, heldPops>>

TryClaimChain == ~chain_alive /\ SetChainAlive(TRUE)

(* reset_stats: the counters start again from zero, whatever is in flight. *)
ResetStats ==
  /\ "reset" \in Ops
  /\ in_progress' = 0
  /\ UNCHANGED <<queue, running, hold_dispatch, dispatching, outstanding,
                 guards, activity, chain_alive, worker, linkVars, waiter,
                 abortPc, stopPc, abandoned, early, heldPops>>

-----------------------------------------------------------------------------
(* abort_outstanding_and_clear: the flags, the queue, then the outstanding *)
(* command, each under its own lock.                                       *)
AbortFlags ==
  /\ "abort" \in Ops /\ abortPc = "off" /\ abortPc' = "clear"
  /\ hold_dispatch' = FALSE /\ chain_alive' = FALSE /\ heldPops' = 0
  /\ UNCHANGED <<queue, running, dispatching, outstanding, guards, activity,
                 in_progress, worker, linkVars, waiter, stopPc, abandoned, early>>

AbortClear ==
  /\ abortPc = "clear" /\ QueueFree
  /\ abortPc' = "release" /\ queue' = <<>>
  /\ UNCHANGED <<running, hold_dispatch, dispatching, outstanding, guards,
                 activity, chain_alive, in_progress, worker, linkVars, waiter,
                 stopPc, abandoned, early, heldPops>>

AbortRelease ==
  /\ abortPc = "release" /\ OutstandingFree
  /\ abortPc' = "off"
  /\ outstanding' = None
  /\ IF outstanding # None
     THEN /\ abandoned' = abandoned \cup {outstanding.id}
          /\ in_progress' = IF in_progress > 0 THEN in_progress - 1 ELSE 0
     ELSE UNCHANGED <<abandoned, in_progress>>
  /\ NotifyBoth
  /\ UNCHANGED <<queue, running, hold_dispatch, dispatching, guards, activity,
                 chain_alive, linkVars, stopPc, early, heldPops>>

(* stop: the flags, running, then a notification under each mutex.         *)
StopFlags ==
  /\ "stop" \in Ops /\ stopPc = "off" /\ stopPc' = "flag"
  /\ hold_dispatch' = FALSE /\ chain_alive' = FALSE /\ heldPops' = 0
  /\ UNCHANGED <<queue, running, dispatching, outstanding, guards, activity,
                 in_progress, worker, linkVars, waiter, abortPc, abandoned, early>>

StopRunning ==
  /\ stopPc = "flag" /\ stopPc' = "notifyQueue"
  /\ running' = FALSE
  /\ UNCHANGED <<queue, hold_dispatch, dispatching, outstanding, guards,
                 activity, chain_alive, in_progress, worker, linkVars, waiter,
                 abortPc, abandoned, early, heldPops>>

StopNotifyQueue ==
  /\ stopPc = "notifyQueue" /\ QueueFree /\ stopPc' = "notifyDone"
  /\ NotifyQueue
  /\ UNCHANGED <<procVars, linkVars, waiter, abortPc, abandoned, early, heldPops>>

StopNotifyDone ==
  /\ stopPc = "notifyDone" /\ OutstandingFree /\ stopPc' = "stopped"
  /\ worker' = IF worker.pc = "doneWait" THEN [worker EXCEPT !.pc = "doneWoken"]
               ELSE worker
  /\ NotifyDone
  /\ UNCHANGED <<procVars, linkVars, abortPc, abandoned, early, heldPops>>

-----------------------------------------------------------------------------
(* processing_loop.                                                        *)
workerOnly == <<procVars, linkVars, waiter, abortPc, stopPc, abandoned,
                early, heldPops>>

WorkerTop ==
  /\ worker.pc = "top"
  /\ WorkerAt(IF running THEN "check" ELSE "exited")
  /\ UNCHANGED workerOnly

WorkerCheck ==            \* can_process
  /\ worker.pc = "check"
  /\ WorkerAt(IF outstanding = None THEN "holdPop" ELSE "holdWait")
  /\ UNCHANGED workerOnly

(* A worker that looks at the hold flag only while a command is out.       *)
MutantWorkerHold ==
  /\ worker.pc \in {"holdPop", "holdWait"}
  /\ WorkerAt(IF worker.pc = "holdPop" THEN "pop"
              ELSE IF hold_dispatch THEN "top" ELSE "doneCheck")
  /\ UNCHANGED workerOnly

WorkerHold ==             \* held: sleep, and start over
  /\ worker.pc \in {"holdPop", "holdWait"}
  /\ WorkerAt(IF hold_dispatch THEN "top"
              ELSE IF worker.pc = "holdPop" THEN "pop" ELSE "doneCheck")
  /\ UNCHANGED workerOnly

WorkerPop ==              \* dispatching is raised under the queue mutex
  /\ worker.pc = "pop" /\ queue # <<>>
  /\ worker' = [pc |-> "rate", cmd |-> Head(queue)]
  /\ queue' = Tail(queue) /\ dispatching' = TRUE
  /\ heldPops' = IF hold_dispatch THEN heldPops + 1 ELSE heldPops
  /\ UNCHANGED <<running, hold_dispatch, outstanding, guards, activity,
                 chain_alive, in_progress, linkVars, waiter, abortPc, stopPc,
                 abandoned, early>>

WorkerPopEmpty ==
  /\ worker.pc = "pop" /\ queue = <<>>
  /\ WorkerAt("idle")
  /\ UNCHANGED workerOnly

WorkerRate ==             \* consume_blocking returns; the start is counted
  /\ worker.pc = "rate"
  /\ WorkerAt("mark")
  /\ in_progress' = (in_progress + 1) % StatMod
  /\ UNCHANGED <<queue, running, hold_dispatch, dispatching, outstanding,
                 guards, activity, chain_alive, linkVars, waiter, abortPc,
                 stopPc, abandoned, early, heldPops>>

WorkerMark ==
  /\ worker.pc = "mark"
  /\ outstanding' = worker.cmd
  /\ WorkerAt("send")
  /\ UNCHANGED <<queue, running, hold_dispatch, dispatching, guards, activity,
                 chain_alive, in_progress, linkVars, waiter, abortPc, stopPc,
                 abandoned, early, heldPops>>

WorkerSend ==             \* send_command arms the platform and writes
  /\ worker.pc = "send"
  /\ WorkerAt("sent")
  /\ wire' = wire \cup {worker.cmd} /\ lastSent' = worker.cmd
  /\ UNCHANGED <<procVars, cb, waiter, abortPc, stopPc, abandoned, early, heldPops>>

WorkerSendFails ==        \* the callbacks run inside send_command
  /\ "writeFail" \in Ops
  /\ worker.pc = "send" /\ cb["worker"].pc = "none"
  /\ WorkerAt("sent")
  /\ lastSent' = worker.cmd
  /\ cb' = [cb EXCEPT !["worker"] = [pc |-> "guarded", e |-> worker.cmd]]
  /\ guards' = guards + 1
  /\ UNCHANGED <<queue, running, hold_dispatch, dispatching, outstanding,
                 activity, chain_alive, in_progress, wire, waiter, abortPc,
                 stopPc, abandoned, early, heldPops>>

WorkerSent ==
  /\ worker.pc = "sent" /\ cb["worker"].pc = "none"
  /\ worker' = [pc |-> "top", cmd |-> None]
  /\ dispatching' = FALSE
  /\ UNCHANGED <<queue, running, hold_dispatch, outstanding, guards, activity,
                 chain_alive, in_progress, linkVars, waiter, abortPc, stopPc,
                 abandoned, early, heldPops>>

(* The idle branch: lock outstanding, read running and outstanding, lock   *)
(* the queue, and wait on it only if it is empty.                          *)
WorkerIdle ==
  /\ worker.pc = "idle"
  /\ WorkerAt(IF running /\ outstanding = None THEN "idleQueue" ELSE "top")
  /\ UNCHANGED workerOnly

WorkerIdleQueue ==
  /\ worker.pc = "idleQueue"
  /\ WorkerAt(IF queue = <<>> THEN "queueWait" ELSE "top")
  /\ UNCHANGED workerOnly

WorkerIdleWoken ==        \* re-lock outstanding, let go of the queue mutex
  /\ worker.pc = "idleWoken"
  /\ WorkerAt("idle")
  /\ UNCHANGED workerOnly

(* The busy branch: wait for the completion while holding outstanding.     *)
WorkerDoneCheck ==
  /\ worker.pc \in {"doneCheck", "doneWoken"}
  /\ WorkerAt(IF running /\ outstanding # None THEN "doneWait" ELSE "top")
  /\ UNCHANGED workerOnly

(* A condition variable may wake its waiter without a notification.        *)
WorkerSpurious ==
  /\ worker.pc \in {"queueWait", "doneWait"}
  /\ WorkerAt(IF worker.pc = "queueWait" THEN "idleWoken" ELSE "doneWoken")
  /\ UNCHANGED workerOnly

-----------------------------------------------------------------------------
(* The platform: each exchange on the wire is answered once, with a reply, *)
(* an error or the fallback TIMEOUT; all of them run the same callbacks.   *)
DataCallbackBegins(t, e) ==
  /\ cb[t].pc = "none"
  /\ cb' = [cb EXCEPT ![t] = [pc |-> "guarded", e |-> e]]
  /\ guards' = guards + 1
  /\ UNCHANGED <<queue, running, hold_dispatch, dispatching, outstanding,
                 activity, chain_alive, in_progress, worker, waiter, abortPc,
                 stopPc, early, heldPops>>

Deliver(e) ==             \* of what was armed before it, nothing is left
  /\ wire' = {x \in wire : x.id > e.id}
  /\ UNCHANGED <<lastSent, abandoned>>
  /\ DataCallbackBegins("delivery", e)

(* update_connection_status(Disconnected) fails pending_command, which is  *)
(* the last command sent even when it was answered long ago, and disarms   *)
(* the delivery thread, so what is on the wire may or may not be answered. *)
Disconnect ==
  /\ "disconnect" \in Ops /\ lastSent # None
  /\ lastSent' = None
  /\ abandoned' = abandoned \cup {e.id : e \in wire} \cup {lastSent.id}
  /\ UNCHANGED wire
  /\ DataCallbackBegins("host", lastSent)

(* A Disarm, or the Armed of a later command, drops an exchange.           *)
LoseReply(e) ==
  /\ e.id \in abandoned \/ e # lastSent
  /\ wire' = wire \ {e}
  /\ UNCHANGED <<procVars, worker, lastSent, cb, waiter, abortPc, stopPc,
                 abandoned, early, heldPops>>

(* A completion that does not look at which command it completes.          *)
MutantMarkCompleted(e) ==
  IF outstanding # None
  THEN /\ outstanding' = None
       /\ in_progress' = (in_progress - 1) % StatMod
       /\ early' = IF outstanding.cmd = e.cmd /\ outstanding # e
                   THEN early \cup {outstanding.id} ELSE early
       /\ NotifyBoth
  ELSE UNCHANGED <<outstanding, in_progress, early, worker, waiter>>

(* mark_command_completed matches the outstanding command by its string,   *)
(* which the data callback of a chain of one pid has just queued again: it *)
(* may be the successor that an older command's callback completes.        *)
MarkCompleted(e) ==
  IF outstanding # None /\ outstanding.cmd = e.cmd
  THEN /\ outstanding' = None
       /\ in_progress' = (in_progress - 1) % StatMod
       /\ early' = IF outstanding # e THEN early \cup {outstanding.id} ELSE early
       /\ NotifyBoth
  ELSE UNCHANGED <<outstanding, in_progress, early, worker, waiter>>

DataCallbackMarks(t) ==
  /\ cb[t].pc = "guarded" /\ OutstandingFree
  /\ cb' = [cb EXCEPT ![t].pc = "marked"]
  /\ MarkCompleted(cb[t].e)
  /\ UNCHANGED <<queue, running, hold_dispatch, dispatching, guards, activity,
                 chain_alive, wire, lastSent, abortPc, stopPc, abandoned,
                 heldPops>>

DataCallbackEnds(t) ==    \* its guard drops; its successors were queued before
  /\ cb[t].pc = "marked"
  /\ cb' = [cb EXCEPT ![t].pc = "completing"]
  /\ guards' = guards - 1
  /\ UNCHANGED <<queue, running, hold_dispatch, dispatching, outstanding,
                 activity, chain_alive, in_progress, worker, wire, lastSent,
                 waiter, abortPc, stopPc, abandoned, early, heldPops>>

CompletionCallback(t) ==
  /\ cb[t].pc = "completing" /\ OutstandingFree
  /\ cb' = [cb EXCEPT ![t] = [pc |-> "none", e |-> None]]
  /\ MarkCompleted(cb[t].e)
  /\ UNCHANGED <<queue, running, hold_dispatch, dispatching, guards, activity,
                 chain_alive, wire, lastSent, abortPc, stopPc, abandoned,
                 heldPops>>

-----------------------------------------------------------------------------
(* wait_for_idle.                                                          *)
WaiterAt(pc) == waiter' = [waiter EXCEPT !.pc = pc]
waiterOnly == <<procVars, worker, linkVars, abortPc, stopPc, abandoned,
                early, heldPops>>

WaitBegins ==
  /\ "wait" \in Ops /\ waiter.pc \in {"off", "idle", "busy"}
  /\ waiter' = [pc |-> "first", epoch |-> 0]
  /\ UNCHANGED waiterOnly

WaitFirst ==              \* wait until nothing is outstanding
  /\ waiter.pc = "first" /\ OutstandingFree
  /\ WaiterAt(IF outstanding = None THEN "epoch" ELSE "firstWait")
  /\ UNCHANGED waiterOnly

WaitEpoch ==
  /\ waiter.pc = "epoch"
  /\ waiter' = [pc |-> "queue", epoch |-> activity]
  /\ UNCHANGED waiterOnly

WaitQueue ==
  /\ waiter.pc = "queue" /\ QueueFree
  /\ WaiterAt(IF queue = <<>> THEN "dispatching" ELSE "retry")
  /\ UNCHANGED waiterOnly

(* A scan that leaves the dispatching flag out.                            *)
MutantWaitDispatching ==
  /\ waiter.pc = "dispatching"
  /\ WaiterAt("outstanding")
  /\ UNCHANGED waiterOnly

WaitDispatching ==
  /\ waiter.pc = "dispatching"
  /\ WaiterAt(IF dispatching THEN "retry" ELSE "outstanding")
  /\ UNCHANGED waiterOnly

WaitOutstanding ==
  /\ waiter.pc = "outstanding" /\ OutstandingFree
  /\ WaiterAt(IF outstanding = None THEN "guards" ELSE "retry")
  /\ UNCHANGED waiterOnly

WaitGuards ==
  /\ waiter.pc = "guards"
  /\ WaiterAt(IF guards = 0 THEN "verdict" ELSE "retry")
  /\ UNCHANGED waiterOnly

WaitVerdict ==            \* idle only if no command was queued meanwhile
  /\ waiter.pc = "verdict"
  /\ WaiterAt(IF activity = waiter.epoch THEN "idle" ELSE "retry")
  /\ UNCHANGED waiterOnly

WaitRetry ==              \* wait for a completion, or sleep
  /\ waiter.pc = "retry" /\ OutstandingFree
  /\ WaiterAt(IF outstanding # None THEN "retryWait" ELSE "epoch")
  /\ UNCHANGED waiterOnly

WaitTimesOut ==           \* the deadline passes
  /\ waiter.pc \in {"firstWait", "retryWait", "retry"}
  /\ WaiterAt(IF waiter.pc = "retryWait" THEN "epoch" ELSE "busy")
  /\ UNCHANGED waiterOnly

-----------------------------------------------------------------------------
Worker ==
  \/ WorkerTop \/ WorkerCheck \/ WorkerHold \/ WorkerPop \/ WorkerPopEmpty
  \/ WorkerRate \/ WorkerMark \/ WorkerSend \/ WorkerSendFails \/ WorkerSent
  \/ WorkerIdle \/ WorkerIdleQueue \/ WorkerIdleWoken \/ WorkerDoneCheck

Waiter ==
  \/ WaitBegins \/ WaitFirst \/ WaitEpoch \/ WaitQueue \/ WaitDispatching
  \/ WaitOutstanding \/ WaitGuards \/ WaitVerdict \/ WaitRetry \/ WaitTimesOut

Callback(t) ==
  \/ DataCallbackMarks(t) \/ DataCallbackEnds(t) \/ CompletionCallback(t)

Platform ==
  \/ \E e \in wire : Deliver(e)
  \/ \E e \in wire : LoseReply(e)
  \/ Disconnect
  \/ \E t \in Handlers : Callback(t)

Caller ==
  \/ QueueCommand \/ ClearQueue \/ Hold \/ Release
  \/ TryClaimChain \/ SetChainAlive(TRUE) \/ SetChainAlive(FALSE)
  \/ ResetStats
  \/ AbortFlags \/ AbortClear \/ AbortRelease
  \/ StopFlags \/ StopRunning \/ StopNotifyQueue \/ StopNotifyDone

Next == Worker \/ WorkerSpurious \/ Waiter \/ Platform \/ Caller

Spec == Init /\ [][Next]_vars

(* The threads that run are scheduled.  Nothing is assumed of the platform *)
(* or of the callers, except that abort and stop return, nor of the        *)
(* spurious wake-ups.                                                      *)
Fairness ==
  /\ WF_vars(Worker)
  /\ \A t \in Handlers : WF_vars(Callback(t))
  /\ WF_vars(AbortClear \/ AbortRelease)
  /\ WF_vars(StopRunning \/ StopNotifyQueue \/ StopNotifyDone)

FairSpec == Spec /\ Fairness

(* A sent command is always answered: the delivery thread's fallback timer *)
(* fails the one nobody answers.                                           *)
AllAnswered == WF_vars(\E e \in wire : Deliver(e))

-----------------------------------------------------------------------------
GivenUp == abandoned \cup early
InFlight == {e \in wire : e.id \notin GivenUp}

(* "Strict serial processing" (the module's first doc line): at most one   *)
(* exchange is on the wire that was neither aborted, nor failed by a       *)
(* disconnect, nor completed by an older command of the same string; and   *)
(* it is the one the processor takes for outstanding.                      *)
Serial == \A e \in InFlight : outstanding = e

(* What a true answer of wait_for_idle promises its caller: nothing is     *)
(* queued, in the worker's hands or outstanding, and no callback that may  *)
(* still queue a successor is running, but for commands given up as above. *)
Quiet ==
  /\ queue = <<>> /\ ~dispatching /\ outstanding = None /\ InFlight = {}
  /\ \A t \in Handlers :
       cb[t].pc \in {"guarded", "marked"} => cb[t].e.id \in GivenUp

(* wait_for_idle reads five indicators one after the other while a command *)
(* moves through them: a verdict of idle is never given over one of them.  *)
IdleVerdictSound ==
  [][waiter.pc = "verdict" /\ waiter'.pc = "idle" => Quiet]_vars

(* set_hold_dispatch(true) does not stop a worker that has already read    *)
(* the flag: one command may still go out, never a second one.             *)
HoldStopsDispatch == heldPops <= 1

(* get_stats: in_progress_commands counts the command that is outstanding, *)
(* or that the worker is about to mark so, through aborts and disconnects. *)
InProgressExact ==
  in_progress = IF worker.pc = "mark" \/ outstanding # None THEN 1 ELSE 0

(* Unless the processor stops, every queued command leaves the queue once  *)
(* the dispatch is no longer held and while what is sent is answered: no   *)
(* notification is lost on the way.                                        *)
QueueDrains ==
  \A i \in Ids : AllAnswered /\ <>[](~hold_dispatch) =>
    ((\E e \in Elements(queue) : e.id = i) ~>
       (~running \/ \A e \in Elements(queue) : e.id # i))

(* stop() wakes a worker that waits for a completion, answered or not: its *)
(* comment claims that notifying under the outstanding mutex cannot be     *)
(* missed.                                                                 *)
StopEndsCompletionWait ==
  (stopPc = "stopped" /\ worker.pc = "doneWait") ~> (worker.pc = "exited")

(* stop() always ends the worker thread (join returns).                    *)
StopEndsWorker == (stopPc = "stopped") ~> (worker.pc = "exited")
=============================================================================
