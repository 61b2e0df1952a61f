----------------------- MODULE CommandProcessorProofs -----------------------
(***************************************************************************)
(* Theorems about the command processor, for every set of commands, every  *)
(* queue size and every bound on the commands issued.                      *)
(***************************************************************************)
EXTENDS CommandProcessor, SequenceTheorems, TLAPS

(* Lemmas on the elements and the order of a queue.                        *)
LEMMA AppendElements ==
  ASSUME NEW S, NEW s \in Seq(S), NEW x \in S
  PROVE  Elements(Append(s, x)) = Elements(s) \cup {x}
<1>1. DOMAIN Append(s, x) = DOMAIN s \cup {Len(s) + 1}
  OBVIOUS
<1>2. /\ Append(s, x)[Len(s) + 1] = x
      /\ \A i \in DOMAIN s : Append(s, x)[i] = s[i]
  OBVIOUS
<1> QED BY <1>1, <1>2 DEF Elements

(* Taking the head of a queue: the rest moves up by one.                   *)
LEMMA TailElements ==
  ASSUME NEW S, NEW s \in Seq(S), s # <<>>
  PROVE  /\ Head(s) \in S /\ Tail(s) \in Seq(S) /\ Len(Tail(s)) = Len(s) - 1
         /\ Head(s) = s[1]
         /\ \A i \in DOMAIN Tail(s) : i + 1 \in DOMAIN s /\ Tail(s)[i] = s[i + 1]
         /\ Elements(s) = {Head(s)} \cup Elements(Tail(s))
<1>1. /\ Head(s) \in S /\ Tail(s) \in Seq(S) /\ Len(Tail(s)) = Len(s) - 1
      /\ Head(s) = s[1]
  OBVIOUS
<1>2. \A i \in DOMAIN Tail(s) : i + 1 \in DOMAIN s /\ Tail(s)[i] = s[i + 1]
  OBVIOUS
<1>3. \A i \in DOMAIN s : i # 1 => i - 1 \in DOMAIN Tail(s) /\ s[i] = Tail(s)[i - 1]
  OBVIOUS
<1>4. 1 \in DOMAIN s
  OBVIOUS
<1>5. Elements(s) \subseteq {Head(s)} \cup Elements(Tail(s))
  BY <1>1, <1>3 DEF Elements
<1>6. {Head(s)} \cup Elements(Tail(s)) \subseteq Elements(s)
  BY <1>1, <1>2, <1>4 DEF Elements
<1> QED BY <1>1, <1>2, <1>5, <1>6

(* The empty queue.                                                        *)
LEMMA EmptyQueue == \A S : <<>> \in Seq(S) /\ Len(<<>>) = 0
OBVIOUS

(* Nothing is in the empty queue.                                          *)
LEMMA EmptyElements == Elements(<<>>) = {}
BY DEF Elements

(* What is in a queue has the queue's type.                                *)
LEMMA ElementsType ==
  ASSUME NEW S, NEW s \in Seq(S) PROVE Elements(s) \subseteq S
BY DEF Elements

-----------------------------------------------------------------------------
(* The structural invariant: what every control point of the worker and of *)
(* the callbacks knows of the shared state.                                *)
Dispatch == {"rate", "mark", "send", "sent"}

WorkerInv ==
  /\ dispatching <=> worker.pc \in Dispatch
  /\ worker.pc \in Dispatch => worker.cmd \in Exchange
  /\ worker.pc \notin Dispatch => worker.cmd = None
  /\ worker.pc \in {"holdPop", "pop", "rate", "mark"} => outstanding = None

Guarding(t) == IF cb[t].pc \in {"guarded", "marked"} THEN 1 ELSE 0

CallbackInv ==
  /\ \A t \in Handlers : IF cb[t].pc = "none" THEN cb[t].e = None
                                              ELSE cb[t].e \in Exchange
  /\ guards = Guarding("delivery") + Guarding("host") + Guarding("worker")

EpochInv == waiter.epoch <= activity

Struct == TypeOK /\ WorkerInv /\ CallbackInv /\ EpochInv

(* No command is not a command.                                            *)
LEMMA NoneIsNoExchange == None \notin Exchange
BY ConstantsAssumption DEF None, Exchange, Ids

(* The statistics counter wraps within its width.                          *)
LEMMA ModRange == \A n \in Int : n % StatMod \in 0 .. (StatMod - 1)
BY ConstantsAssumption

(* The structural invariant holds initially.                               *)
LEMMA StructInit == Init => Struct
<1> USE ConstantsAssumption
<1> SUFFICES ASSUME Init PROVE Struct
  OBVIOUS
<1>1. cb \in [Handlers -> [pc : CbPc, e : Exchange \cup {None}]]
  BY DEF Init, CbPc
<1>2. worker \in [pc : WorkerPc, cmd : Exchange \cup {None}]
  BY DEF Init, WorkerPc
<1>3. waiter \in [pc : WaiterPc, epoch : 0 .. MaxIssued]
  BY DEF Init, WaiterPc
<1>4. /\ queue \in Seq(Exchange) /\ Len(queue) <= MaxQueue
      /\ activity \in 0 .. MaxIssued /\ in_progress \in 0 .. (StatMod - 1)
      /\ guards \in Nat /\ heldPops \in Nat
  BY DEF Init
<1>5. TypeOK
  BY <1>1, <1>2, <1>3, <1>4 DEF Init, TypeOK
<1>6. WorkerInv
  BY DEF Init, WorkerInv, Dispatch
<1>7. CallbackInv
  BY DEF Init, CallbackInv, Guarding, Handlers
<1>8. EpochInv
  BY DEF Init, EpochInv
<1> QED BY <1>5, <1>6, <1>7, <1>8 DEF Struct

(* The worker keeps the structural invariant.                              *)
LEMMA StructWorker == Struct /\ (Worker \/ WorkerSpurious) => Struct'
<1> USE ConstantsAssumption, NoneIsNoExchange
    DEF Struct, TypeOK, WorkerInv, CallbackInv, EpochInv, Guarding, Dispatch,
        WorkerPc, Handlers, WorkerAt, procVars, linkVars, workerOnly
<1> SUFFICES ASSUME Struct, Worker \/ WorkerSpurious PROVE Struct'
  OBVIOUS
<1>1. CASE WorkerTop       BY <1>1 DEF WorkerTop
<1>2. CASE WorkerCheck     BY <1>2 DEF WorkerCheck
<1>3. CASE WorkerHold      BY <1>3 DEF WorkerHold
<1>4. CASE WorkerPop
  <2>1. /\ Head(queue) \in Exchange /\ Tail(queue) \in Seq(Exchange)
        /\ Len(Tail(queue)) <= MaxQueue
    BY <1>4, TailElements DEF WorkerPop
  <2>2. TypeOK'
    BY <1>4, <2>1 DEF WorkerPop
  <2>3. WorkerInv' /\ CallbackInv' /\ EpochInv'
    BY <1>4, <2>1 DEF WorkerPop
  <2> QED BY <2>2, <2>3
<1>5. CASE WorkerPopEmpty  BY <1>5 DEF WorkerPopEmpty
<1>6. CASE WorkerRate
  <2>1. in_progress' \in 0 .. (StatMod - 1)
    BY <1>6, ModRange DEF WorkerRate
  <2> QED BY <1>6, <2>1 DEF WorkerRate
<1>7. CASE WorkerMark      BY <1>7 DEF WorkerMark
<1>8. CASE WorkerSend      BY <1>8 DEF WorkerSend
<1>9. CASE WorkerSendFails
  <2>1. /\ cb'["worker"] = [pc |-> "guarded", e |-> worker.cmd]
        /\ cb'["delivery"] = cb["delivery"] /\ cb'["host"] = cb["host"]
    BY <1>9 DEF WorkerSendFails
  <2>2. TypeOK'
    BY <1>9 DEF WorkerSendFails, CbPc
  <2>3. WorkerInv' /\ EpochInv'
    BY <1>9 DEF WorkerSendFails
  <2>4. CallbackInv'
    BY <1>9, <2>1 DEF WorkerSendFails
  <2> QED BY <2>2, <2>3, <2>4
<1>10. CASE WorkerSent
  <2>1. worker' \in [pc : WorkerPc, cmd : Exchange \cup {None}]
    BY <1>10 DEF WorkerSent
  <2>2. ~dispatching' /\ worker'.pc = "top" /\ worker'.cmd = None
    BY <1>10 DEF WorkerSent
  <2> QED BY <1>10, <2>1, <2>2 DEF WorkerSent
<1>11. CASE WorkerIdle     BY <1>11 DEF WorkerIdle
<1>12. CASE WorkerIdleQueue BY <1>12 DEF WorkerIdleQueue
<1>13. CASE WorkerIdleWoken BY <1>13 DEF WorkerIdleWoken
<1>14. CASE WorkerDoneCheck BY <1>14 DEF WorkerDoneCheck
<1>15. CASE WorkerSpurious BY <1>15 DEF WorkerSpurious
<1> QED BY <1>1, <1>2, <1>3, <1>4, <1>5, <1>6, <1>7, <1>8, <1>9, <1>10, <1>11,
           <1>12, <1>13, <1>14, <1>15 DEF Worker

(* A caller of wait_for_idle keeps it.                                     *)
LEMMA StructWaiter == Struct /\ Waiter => Struct'
<1> SUFFICES ASSUME Struct, Waiter PROVE Struct'
  OBVIOUS
<1>1. UNCHANGED waiterOnly
  BY DEF Waiter, WaitBegins, WaitFirst, WaitEpoch, WaitQueue, WaitDispatching,
         WaitOutstanding, WaitGuards, WaitVerdict, WaitRetry, WaitTimesOut
<1>2. waiter' \in [pc : WaiterPc, epoch : 0 .. MaxIssued] /\ waiter'.epoch <= activity
  BY ConstantsAssumption
     DEF Struct, TypeOK, EpochInv, WaiterPc, WaiterAt, Waiter, WaitBegins, WaitFirst,
         WaitEpoch, WaitQueue, WaitDispatching, WaitOutstanding, WaitGuards,
         WaitVerdict, WaitRetry, WaitTimesOut
<1> QED
  BY <1>1, <1>2 DEF waiterOnly, procVars, linkVars, Struct, TypeOK, WorkerInv,
                    CallbackInv, Guarding, EpochInv

(* A notification moves threads between their own program points only.     *)
LEMMA NotifyType ==
  ASSUME TypeOK
  PROVE  /\ NotifyDone => waiter' \in [pc : WaiterPc, epoch : 0 .. MaxIssued]
                          /\ waiter'.epoch = waiter.epoch
         /\ NotifyBoth => NotifyDone
         /\ NotifyBoth \/ NotifyQueue =>
              /\ worker' \in [pc : WorkerPc, cmd : Exchange \cup {None}]
              /\ worker'.cmd = worker.cmd
              /\ worker'.pc \in {worker.pc, "idleWoken", "doneWoken"}
              /\ worker.pc \in Dispatch \cup {"holdPop", "pop"} => worker' = worker
              /\ worker'.pc # worker.pc => worker.pc \in {"queueWait", "doneWait"}
BY DEF TypeOK, NotifyDone, NotifyBoth, NotifyQueue, WaiterPc, WorkerPc, Dispatch

(* What a notification leaves true of the worker.                          *)
LEMMA NotifyWorkerInv ==
  ASSUME Struct, NotifyBoth \/ NotifyQueue, UNCHANGED dispatching,
         outstanding' \in {outstanding, None}
  PROVE  WorkerInv'
BY NotifyType DEF Struct, WorkerInv, Dispatch

(* The callers of the other methods keep it.                               *)
LEMMA StructCaller == Struct /\ Caller => Struct'
<1> USE ConstantsAssumption
    DEF Struct, TypeOK, CallbackInv, EpochInv, Guarding, Handlers, procVars, linkVars
<1> SUFFICES ASSUME Struct, Caller PROVE Struct'
  OBVIOUS
<1>1. CASE QueueCommand
  <2> PICK c \in Cmd : Enqueue(c)
    BY <1>1 DEF QueueCommand
  <2>1. [id |-> activity + 1, cmd |-> c] \in Exchange
    BY DEF Enqueue, Exchange, Ids
  <2>2. queue' \in Seq(Exchange) /\ Len(queue') <= MaxQueue
    BY <2>1 DEF Enqueue
  <2>3. TypeOK'
    BY <2>2, NotifyType DEF Enqueue
  <2>4. WorkerInv'
    BY NotifyWorkerInv DEF Enqueue
  <2> QED BY <2>3, <2>4 DEF Enqueue
<1>2. CASE ClearQueue
  BY <1>2, EmptyQueue DEF ClearQueue, WorkerInv
<1>3. CASE Hold
  BY <1>3 DEF Hold, WorkerInv
<1>4. CASE Release
  <2>1. WorkerInv'
    BY <1>4, NotifyWorkerInv DEF Release
  <2> QED BY <1>4, <2>1, NotifyType DEF Release
<1>5. ASSUME NEW alive \in BOOLEAN, SetChainAlive(alive) PROVE Struct'
  BY <1>5 DEF SetChainAlive, WorkerInv
<1>6. CASE ResetStats
  BY <1>6 DEF ResetStats, WorkerInv
<1>7. CASE AbortFlags
  BY <1>7 DEF AbortFlags, WorkerInv
<1>8. CASE AbortClear
  BY <1>8, EmptyQueue DEF AbortClear, WorkerInv
<1>9. CASE AbortRelease
  <2>1. WorkerInv'
    BY <1>9, NotifyWorkerInv DEF AbortRelease
  <2>2. outstanding # None => outstanding.id \in Ids
    BY DEF Exchange
  <2>3. in_progress' \in 0 .. (StatMod - 1) /\ abandoned' \subseteq Ids
    BY <1>9, <2>2 DEF AbortRelease
  <2>4. TypeOK'
    BY <1>9, <2>3, NotifyType DEF AbortRelease
  <2> QED BY <1>9, <2>1, <2>4, NotifyType DEF AbortRelease
<1>10. CASE StopFlags
  BY <1>10 DEF StopFlags, WorkerInv
<1>11. CASE StopRunning
  BY <1>11 DEF StopRunning, WorkerInv
<1>12. CASE StopNotifyQueue
  <2>1. WorkerInv'
    BY <1>12, NotifyWorkerInv DEF StopNotifyQueue
  <2> QED BY <1>12, <2>1, NotifyType DEF StopNotifyQueue
<1>13. CASE StopNotifyDone
  <2>1. WorkerInv'
    BY <1>13 DEF StopNotifyDone, WorkerInv, Dispatch
  <2>2. worker' \in [pc : WorkerPc, cmd : Exchange \cup {None}]
    BY <1>13 DEF StopNotifyDone, WorkerPc
  <2> QED BY <1>13, <2>1, <2>2, NotifyType DEF StopNotifyDone
<1> QED BY <1>1, <1>2, <1>3, <1>4, <1>5, <1>6, <1>7, <1>8, <1>9, <1>10, <1>11,
           <1>12, <1>13 DEF Caller, TryClaimChain

(* mark_command_completed at most clears outstanding and wakes waiters.    *)
LEMMA MarkType ==
  ASSUME Struct, NEW e, MarkCompleted(e),
         UNCHANGED <<dispatching, activity, hold_dispatch>>
  PROVE  /\ WorkerInv' /\ EpochInv'
         /\ outstanding' \in {outstanding, None}
         /\ in_progress' \in 0 .. (StatMod - 1) /\ early' \subseteq Ids
         /\ worker' \in [pc : WorkerPc, cmd : Exchange \cup {None}]
         /\ waiter' \in [pc : WaiterPc, epoch : 0 .. MaxIssued]
<1>1. CASE outstanding # None /\ outstanding.cmd = e.cmd
  <2>1. NotifyBoth /\ outstanding' = None /\ in_progress' = (in_progress - 1) % StatMod
    BY <1>1 DEF MarkCompleted
  <2>2. in_progress - 1 \in Int
    BY ConstantsAssumption DEF Struct, TypeOK
  <2>3. in_progress' \in 0 .. (StatMod - 1)
    BY <2>1, <2>2, ModRange
  <2>4. early' \subseteq Ids
    <3>1. outstanding.id \in Ids /\ early \subseteq Ids
      BY <1>1 DEF Struct, TypeOK, Exchange
    <3> QED BY <1>1, <3>1 DEF MarkCompleted
  <2> QED BY <2>1, <2>3, <2>4, NotifyType, NotifyWorkerInv DEF Struct, EpochInv
<1>2. CASE ~(outstanding # None /\ outstanding.cmd = e.cmd)
  BY <1>2 DEF MarkCompleted, Struct, TypeOK, WorkerInv, EpochInv
<1> QED BY <1>1, <1>2

(* The platform and its callbacks keep it.                                 *)
LEMMA StructPlatform == Struct /\ Platform => Struct'
<1> USE ConstantsAssumption, NoneIsNoExchange
<1> SUFFICES ASSUME Struct, Platform PROVE Struct'
  OBVIOUS
<1>1. ASSUME NEW t \in Handlers, NEW e \in Exchange, DataCallbackBegins(t, e),
             wire' \subseteq Exchange, lastSent' \in Exchange \cup {None},
             abandoned' \subseteq Ids
      PROVE  Struct'
  <2>1. /\ cb'[t] = [pc |-> "guarded", e |-> e]
        /\ \A u \in Handlers \ {t} : cb'[u] = cb[u]
    BY <1>1 DEF DataCallbackBegins, Struct, TypeOK
  <2>2. TypeOK'
    BY <1>1 DEF DataCallbackBegins, Struct, TypeOK, CbPc
  <2>3. CallbackInv'
    BY <1>1, <2>1 DEF DataCallbackBegins, Struct, TypeOK, CallbackInv, Guarding, Handlers
  <2>4. WorkerInv' /\ EpochInv'
    BY <1>1 DEF DataCallbackBegins, Struct, WorkerInv, EpochInv
  <2> QED BY <2>2, <2>3, <2>4 DEF Struct
<1>2. CASE \E e \in wire : Deliver(e)
  BY <1>1, <1>2 DEF Deliver, Handlers, Struct, TypeOK
<1>3. CASE \E e \in wire : LoseReply(e)
  BY <1>3 DEF LoseReply, procVars, Struct, TypeOK, WorkerInv, CallbackInv, Guarding,
              EpochInv
<1>4. CASE Disconnect
  <2>1. abandoned' \subseteq Ids
    BY <1>4 DEF Disconnect, Struct, TypeOK, Exchange
  <2> QED BY <1>1, <1>4, <2>1 DEF Disconnect, Handlers, Struct, TypeOK
<1>5. ASSUME NEW t \in Handlers, Callback(t) PROVE Struct'
  <2>1. CASE DataCallbackMarks(t)
    <3>1. /\ MarkCompleted(cb[t].e) /\ cb' = [cb EXCEPT ![t].pc = "marked"]
          /\ cb[t].pc = "guarded"
      BY <2>1 DEF DataCallbackMarks
    <3>2. /\ cb'[t].pc = "marked" /\ cb'[t].e = cb[t].e
          /\ \A u \in Handlers \ {t} : cb'[u] = cb[u]
          /\ cb' \in [Handlers -> [pc : CbPc, e : Exchange \cup {None}]]
      BY <3>1 DEF Struct, TypeOK, CbPc
    <3>3. CallbackInv'
      BY <2>1, <3>1, <3>2 DEF DataCallbackMarks, Struct, CallbackInv, Guarding, Handlers
    <3> QED BY <2>1, <3>1, <3>2, <3>3, MarkType DEF DataCallbackMarks, Struct, TypeOK
  <2>2. CASE DataCallbackEnds(t)
    <3>1. /\ cb'[t].pc = "completing" /\ cb'[t].e = cb[t].e /\ cb[t].pc = "marked"
          /\ \A u \in Handlers \ {t} : cb'[u] = cb[u]
          /\ cb' \in [Handlers -> [pc : CbPc, e : Exchange \cup {None}]]
      BY <2>2 DEF DataCallbackEnds, Struct, TypeOK, CbPc
    <3>2. CallbackInv' /\ guards' \in Nat
      BY <2>2, <3>1 DEF DataCallbackEnds, Struct, CallbackInv, Guarding, Handlers
    <3> QED BY <2>2, <3>1, <3>2
            DEF DataCallbackEnds, Struct, TypeOK, WorkerInv, EpochInv
  <2>3. CASE CompletionCallback(t)
    <3>1. /\ MarkCompleted(cb[t].e) /\ cb[t].pc = "completing"
          /\ cb'[t] = [pc |-> "none", e |-> None]
          /\ \A u \in Handlers \ {t} : cb'[u] = cb[u]
          /\ cb' \in [Handlers -> [pc : CbPc, e : Exchange \cup {None}]]
      BY <2>3 DEF CompletionCallback, Struct, TypeOK, CbPc
    <3>2. CallbackInv'
      BY <2>3, <3>1 DEF CompletionCallback, Struct, CallbackInv, Guarding, Handlers
    <3> QED BY <2>3, <3>1, <3>2, MarkType DEF CompletionCallback, Struct, TypeOK
  <2> QED BY <1>5, <2>1, <2>2, <2>3 DEF Callback
<1> QED BY <1>2, <1>3, <1>4, <1>5 DEF Platform

(* So does a step that changes nothing.                                    *)
LEMMA StructStutter == Struct /\ UNCHANGED vars => Struct'
BY DEF vars, procVars, linkVars, Struct, TypeOK, WorkerInv, CallbackInv, Guarding,
       EpochInv

(* The structural invariant holds in every reachable state, and with it    *)
(* the type invariant: the completion guards in particular never go below  *)
(* zero, whichever callbacks overlap (external_platform.rs runs them on    *)
(* three threads), nor does the queue exceed max_queue_size.               *)
THEOREM StructHolds == Spec => []Struct
<1>1. Init => Struct
  BY StructInit
<1>2. Struct /\ [Next]_vars => Struct'
  BY StructWorker, StructWaiter, StructCaller, StructPlatform, StructStutter DEF Next
<1> QED BY <1>1, <1>2, PTL DEF Spec

(* The type invariant alone, which the runs check.                         *)
THEOREM TypeCorrect == Spec => []TypeOK
BY StructHolds, PTL DEF Struct

-----------------------------------------------------------------------------
(* One command may still leave the queue after the dispatch is held; the   *)
(* worker then cannot come back to its pop while the hold lasts.           *)
HoldInv ==
  \/ heldPops = 0
  \/ hold_dispatch /\ heldPops = 1 /\ worker.pc # "pop"

LEMMA HoldStep == Struct /\ HoldInv /\ [Next]_vars => HoldInv'
<1> USE DEF HoldInv, procVars, linkVars
<1> SUFFICES ASSUME Struct, HoldInv, [Next]_vars PROVE HoldInv'
  OBVIOUS
<1>1. ASSUME UNCHANGED <<hold_dispatch, heldPops>>, worker'.pc # "pop" \/ worker' = worker
      PROVE  HoldInv'
  BY <1>1
<1>2. ASSUME NotifyBoth \/ NotifyQueue, worker'.pc = "pop" PROVE worker' = worker
  BY <1>2, NotifyType DEF Struct
<1>3. CASE Worker
  <2>1. heldPops = 0 => heldPops + 1 = 1
    OBVIOUS
  <2> QED
    BY <1>1, <1>3, <2>1
       DEF Worker, WorkerTop, WorkerCheck, WorkerHold, WorkerPop, WorkerPopEmpty,
           WorkerRate, WorkerMark, WorkerSend, WorkerSendFails, WorkerSent, WorkerIdle,
           WorkerIdleQueue, WorkerIdleWoken, WorkerDoneCheck, WorkerAt, workerOnly,
           Struct, TypeOK
<1>4. CASE WorkerSpurious
  BY <1>4 DEF WorkerSpurious, WorkerAt, workerOnly, Struct, TypeOK
<1>5. CASE Waiter
  BY <1>5 DEF Waiter, WaitBegins, WaitFirst, WaitEpoch, WaitQueue, WaitDispatching,
              WaitOutstanding, WaitGuards, WaitVerdict, WaitRetry, WaitTimesOut, waiterOnly
<1>6. CASE Platform
  BY <1>1, <1>2, <1>6
     DEF Platform, Deliver, LoseReply, Disconnect, DataCallbackBegins, Callback,
         DataCallbackMarks, DataCallbackEnds, CompletionCallback, MarkCompleted
<1>7. CASE Caller
  <2>1. CASE QueueCommand   BY <1>1, <1>2, <2>1 DEF QueueCommand, Enqueue
  <2>2. CASE ClearQueue     BY <2>2 DEF ClearQueue
  <2>3. CASE Hold           BY <2>3 DEF Hold
  <2>4. CASE Release        BY <2>4 DEF Release
  <2>5. ASSUME NEW alive \in BOOLEAN, SetChainAlive(alive) PROVE HoldInv'
    BY <2>5 DEF SetChainAlive
  <2>6. CASE ResetStats     BY <2>6 DEF ResetStats
  <2>7. CASE AbortFlags     BY <2>7 DEF AbortFlags
  <2>8. CASE AbortClear     BY <2>8 DEF AbortClear
  <2>9. CASE AbortRelease   BY <1>1, <1>2, <2>9 DEF AbortRelease
  <2>10. CASE StopFlags     BY <2>10 DEF StopFlags
  <2>11. CASE StopRunning   BY <2>11 DEF StopRunning
  <2>12. CASE StopNotifyQueue
    BY <1>1, <1>2, <2>12 DEF StopNotifyQueue
  <2>13. CASE StopNotifyDone
    BY <2>13 DEF StopNotifyDone, Struct, TypeOK
  <2> QED BY <1>7, <2>1, <2>2, <2>3, <2>4, <2>5, <2>6, <2>7, <2>8, <2>9, <2>10, <2>11,
             <2>12, <2>13 DEF Caller, TryClaimChain
<1>8. CASE UNCHANGED vars
  BY <1>8 DEF vars
<1> QED BY <1>3, <1>4, <1>5, <1>6, <1>7, <1>8 DEF Next

(* Once the monitor holds the dispatch, at most the one command the worker *)
(* had already decided to take goes out (set_hold_dispatch's callers drain *)
(* the processor only before, with wait_for_idle).                         *)
THEOREM HoldBounded == Spec => []HoldStopsDispatch
<1>1. Init => HoldInv
  BY DEF Init, HoldInv
<1>2. HoldInv => HoldStopsDispatch
  BY DEF HoldInv, HoldStopsDispatch
<1> QED BY <1>1, <1>2, HoldStep, StructHolds, PTL DEF Spec

-----------------------------------------------------------------------------
(* The statistics count one command in progress from the moment the worker *)
(* has its token to the moment the command stops being outstanding.  This  *)
(* needs a counter that can tell 0 from 1, and nobody who resets it.       *)
LEMMA ModOne == StatMod >= 2 => 0 % StatMod = 0 /\ (0 + 1) % StatMod = 1 /\ (1 - 1) % StatMod = 0
BY ConstantsAssumption

LEMMA InProgressStep ==
  ASSUME StatMod >= 2, "reset" \notin Ops, Struct, InProgressExact, [Next]_vars
  PROVE  InProgressExact'
<1> USE ModOne DEF InProgressExact, procVars, linkVars
<1>1. ASSUME UNCHANGED <<outstanding, in_progress>>, worker'.pc = "mark" <=> worker.pc = "mark"
      PROVE  InProgressExact'
  BY <1>1
<1>2. ASSUME NotifyBoth \/ NotifyQueue PROVE worker'.pc = "mark" <=> worker.pc = "mark"
  BY <1>2, NotifyType DEF Struct, Dispatch
<1>3. ASSUME NotifyBoth, outstanding' = None, outstanding # None,
             in_progress' = (in_progress - 1) % StatMod \/ in_progress' = in_progress - 1
      PROVE  InProgressExact'
  <2>1. worker.pc # "mark"
    BY <1>3 DEF Struct, WorkerInv
  <2>2. in_progress = 1
    BY <1>3, <2>1
  <2> QED BY <1>2, <1>3, <2>1, <2>2
<1>4. CASE Worker
  <2>1. CASE WorkerRate
    <3>1. outstanding = None /\ in_progress = 0
      BY <2>1 DEF WorkerRate, Struct, WorkerInv
    <3> QED BY <2>1, <3>1 DEF WorkerRate, WorkerAt, Struct, TypeOK
  <2>2. CASE WorkerMark
    BY <2>2, NoneIsNoExchange DEF WorkerMark, WorkerAt, Struct, TypeOK, WorkerInv, Dispatch
  <2>3. CASE ~WorkerRate /\ ~WorkerMark
    BY <1>1, <1>4, <2>3
       DEF Worker, WorkerTop, WorkerCheck, WorkerHold, WorkerPop, WorkerPopEmpty,
           WorkerSend, WorkerSendFails, WorkerSent, WorkerIdle, WorkerIdleQueue,
           WorkerIdleWoken, WorkerDoneCheck, WorkerAt, workerOnly, Struct, TypeOK
  <2> QED BY <2>1, <2>2, <2>3
<1>5. CASE WorkerSpurious
  BY <1>1, <1>5 DEF WorkerSpurious, WorkerAt, workerOnly, Struct, TypeOK
<1>6. CASE Waiter
  BY <1>6 DEF Waiter, WaitBegins, WaitFirst, WaitEpoch, WaitQueue, WaitDispatching,
              WaitOutstanding, WaitGuards, WaitVerdict, WaitRetry, WaitTimesOut, waiterOnly
<1>7. CASE Platform
  <2>1. ASSUME NEW e, MarkCompleted(e) PROVE InProgressExact'
    BY <1>1, <1>3, <2>1 DEF MarkCompleted
  <2>2. CASE \E t \in Handlers : DataCallbackMarks(t) \/ CompletionCallback(t)
    BY <2>1, <2>2 DEF DataCallbackMarks, CompletionCallback
  <2> QED BY <1>7, <2>2 DEF Platform, Deliver, LoseReply, Disconnect, DataCallbackBegins,
                            Callback, DataCallbackEnds
<1>8. CASE Caller
  <2>1. CASE QueueCommand   BY <1>1, <1>2, <2>1 DEF QueueCommand, Enqueue
  <2>2. CASE ClearQueue     BY <2>2 DEF ClearQueue
  <2>3. CASE Hold           BY <2>3 DEF Hold
  <2>4. CASE Release        BY <1>1, <1>2, <2>4 DEF Release
  <2>5. ASSUME NEW alive \in BOOLEAN, SetChainAlive(alive) PROVE InProgressExact'
    BY <2>5 DEF SetChainAlive
  <2>6. ~ResetStats
    BY DEF ResetStats
  <2>7. CASE AbortFlags     BY <2>7 DEF AbortFlags
  <2>8. CASE AbortClear     BY <2>8 DEF AbortClear
  <2>9. CASE AbortRelease
    <3>1. CASE outstanding # None
      BY <1>3, <2>9, <3>1 DEF AbortRelease, Struct, WorkerInv
    <3>2. CASE outstanding = None
      BY <1>1, <1>2, <2>9, <3>2 DEF AbortRelease
    <3> QED BY <3>1, <3>2
  <2>10. CASE StopFlags     BY <2>10 DEF StopFlags
  <2>11. CASE StopRunning   BY <2>11 DEF StopRunning
  <2>12. CASE StopNotifyQueue
    BY <1>1, <1>2, <2>12 DEF StopNotifyQueue
  <2>13. CASE StopNotifyDone
    BY <1>1, <2>13 DEF StopNotifyDone, Struct, TypeOK
  <2> QED BY <1>8, <2>1, <2>2, <2>3, <2>4, <2>5, <2>6, <2>7, <2>8, <2>9, <2>10, <2>11,
             <2>12, <2>13 DEF Caller, TryClaimChain
<1>9. CASE UNCHANGED vars
  BY <1>9 DEF vars
<1> QED BY <1>4, <1>5, <1>6, <1>7, <1>8, <1>9 DEF Next

(* get_stats never under- or overcounts the command in progress, through   *)
(* aborts, disconnects and failed writes, as long as nobody calls          *)
(* reset_stats meanwhile.                                                  *)
THEOREM InProgressHolds ==
  ASSUME StatMod >= 2, "reset" \notin Ops
  PROVE  Spec => []InProgressExact
<1>1. Init => InProgressExact
  BY DEF Init, InProgressExact
<1>2. Struct /\ InProgressExact /\ [Next]_vars => InProgressExact'
  BY InProgressStep
<1> QED BY <1>1, <1>2, StructHolds, PTL DEF Spec

-----------------------------------------------------------------------------
(* The inductive invariant behind Serial.  Ids follow the order of the     *)
(* queue_command calls, and a command only ever moves downstream: queue,   *)
(* worker, wire, callback.                                                 *)
Used == wire \cup {lastSent} \cup {cb[t].e : t \in Handlers}

OrderInv ==
  /\ \A i, j \in DOMAIN queue : i < j => queue[i].id < queue[j].id
  /\ \A i \in DOMAIN queue :
       /\ queue[i].id <= activity
       /\ \A x \in Used \cup {outstanding, worker.cmd} : x.id < queue[i].id
  /\ \A x \in Used \cup {outstanding, worker.cmd} : x.id <= activity
  /\ worker.pc \in {"rate", "mark", "send"} => \A x \in Used : x.id < worker.cmd.id

SerialInv ==
  /\ Serial
  /\ \A t \in Handlers : cb[t].e \notin InFlight
  /\ worker.pc = "send" =>
       /\ InFlight = {}
       /\ outstanding = worker.cmd \/ worker.cmd.id \in GivenUp

LEMMA UsedType ==
  ASSUME Struct
  PROVE  /\ Used \cup {outstanding, worker.cmd} \subseteq Exchange \cup {None}
         /\ Elements(queue) \subseteq Exchange /\ None \notin InFlight
         /\ \A x \in Exchange : x.id \in Nat /\ 0 < x.id
         /\ None.id = 0
<1>2. \A t \in Handlers : cb[t].e \in Exchange \cup {None}
  BY DEF Struct, TypeOK
<1>3. Used \cup {outstanding, worker.cmd} \subseteq Exchange \cup {None}
  BY <1>2 DEF Struct, TypeOK, Used
<1>4. Elements(queue) \subseteq Exchange
  BY ElementsType DEF Struct, TypeOK
<1>5. None \notin InFlight
  BY NoneIsNoExchange DEF InFlight, GivenUp, Struct, TypeOK
<1>6. \A x \in Exchange : x.id \in Nat /\ 0 < x.id
  BY ConstantsAssumption DEF Exchange, Ids
<1>7. None.id = 0
  BY DEF None
<1> QED BY <1>3, <1>4, <1>5, <1>6, <1>7

(* Most steps only move commands downstream, or drop them.                 *)
LEMMA MoveDown ==
  ASSUME Struct, OrderInv, Struct',
         queue' \in {queue, <<>>}, activity' = activity,
         Used' \subseteq Used \cup {None},
         {outstanding', worker'.cmd} \subseteq {outstanding, worker.cmd, None},
         worker'.pc \in {"rate", "mark", "send"} =>
           worker.pc \in {"rate", "mark", "send"} /\ worker'.cmd = worker.cmd
  PROVE  OrderInv'
<1>3. \A x \in Used' \cup {outstanding', worker'.cmd} :
        x \in Used \cup {outstanding, worker.cmd} \/ x = None
  OBVIOUS
<1>4. \A i \in DOMAIN queue : queue[i] \in Exchange
  BY DEF Struct, TypeOK
<1>5. activity \in Nat /\ (worker'.pc \in {"rate", "mark", "send"} => worker.cmd \in Exchange)
  BY DEF Struct, TypeOK, WorkerInv, Dispatch
<1>6. OrderInv'
  <2>1. CASE queue' = queue
    BY <1>3, <1>4, <1>5, <2>1, UsedType DEF OrderInv
  <2>2. CASE queue' = <<>>
    <3>1. DOMAIN queue' = {}
      BY <2>2
    <3> QED BY <1>3, <1>5, <3>1, UsedType DEF OrderInv
  <2> QED BY <2>1, <2>2
<1> QED BY <1>6

(* A step that leaves outstanding alone and adds nothing to what is in     *)
(* flight keeps the exchanges serial.                                      *)
LEMMA SerialFrame ==
  ASSUME Struct, SerialInv,
         outstanding' = outstanding, InFlight' \subseteq InFlight,
         GivenUp \subseteq GivenUp',
         \A t \in Handlers : cb'[t].e \notin InFlight' \/ cb'[t].e = cb[t].e,
         worker'.pc = "send" => worker.pc = "send" /\ worker'.cmd = worker.cmd
  PROVE  SerialInv'
BY DEF SerialInv, Serial

SerialAll == OrderInv /\ SerialInv

(* Steps that touch neither the commands nor where they are.               *)
LEMMA SerialQuiet ==
  ASSUME Struct, Struct', SerialAll,
         queue' \in {queue, <<>>}, UNCHANGED <<activity, outstanding, linkVars, abandoned, early>>,
         worker'.cmd = worker.cmd,
         worker'.pc \in {"rate", "mark", "send"} => worker'.pc = worker.pc
  PROVE  SerialAll'
<1>1. Used' = Used /\ InFlight' = InFlight
  BY DEF Used, InFlight, GivenUp, linkVars
<1>2. OrderInv'
  BY <1>1, MoveDown DEF SerialAll
<1>3. SerialInv'
  BY <1>1, SerialFrame DEF GivenUp, SerialAll, linkVars
<1> QED BY <1>2, <1>3 DEF SerialAll

LEMMA SerialWorker ==
  ASSUME Struct, Struct', SerialAll, Worker \/ WorkerSpurious
  PROVE  SerialAll'
<1> USE DEF procVars, linkVars
<1>1. CASE WorkerPop
  <2>1. /\ Head(queue) = queue[1] /\ 1 \in DOMAIN queue /\ Head(queue) \in Exchange
        /\ \A i \in DOMAIN queue' : i + 1 \in DOMAIN queue /\ queue'[i] = queue[i + 1]
        /\ Elements(queue) = {Head(queue)} \cup Elements(queue')
    BY <1>1, TailElements DEF WorkerPop, Struct, TypeOK
  <2>2. /\ worker' = [pc |-> "rate", cmd |-> queue[1]] /\ worker.cmd = None
        /\ UNCHANGED <<activity, outstanding, wire, lastSent, cb, abandoned, early>>
    BY <1>1, <2>1 DEF WorkerPop, Struct, WorkerInv, Dispatch
  <2>3. Used' = Used /\ InFlight' = InFlight
    BY <2>2 DEF Used, InFlight, GivenUp
  <2>6. \A i, j \in DOMAIN queue : i < j => queue[i].id < queue[j].id
    BY DEF SerialAll, OrderInv
  <2>7. OrderInv'
    <3>1. \A i, j \in DOMAIN queue' : i < j => queue'[i].id < queue'[j].id
      <4>1. queue' \in Seq(Exchange)
        BY DEF Struct, TypeOK
      <4>2. \A i, j \in DOMAIN queue' : i < j => i + 1 < j + 1
        BY <4>1
      <4> QED BY <2>1, <2>6, <4>2
    <3>2. \A i \in DOMAIN queue' : queue[1].id < queue'[i].id
      <4> TAKE i \in DOMAIN queue'
      <4>1. i \in Nat /\ 1 < i + 1
        BY DEF Struct, TypeOK
      <4> QED BY <2>1, <2>6, <4>1
    <3>3. \A i \in DOMAIN queue' :
            /\ queue'[i].id <= activity'
            /\ \A x \in Used' \cup {outstanding', worker'.cmd} : x.id < queue'[i].id
      BY <2>1, <2>2, <2>3, <3>2 DEF SerialAll, OrderInv
    <3>4. \A x \in Used' \cup {outstanding', worker'.cmd} : x.id <= activity'
      BY <2>1, <2>2, <2>3 DEF SerialAll, OrderInv
    <3>5. \A x \in Used' : x.id < worker'.cmd.id
      BY <2>1, <2>2, <2>3 DEF SerialAll, OrderInv
    <3> QED BY <3>1, <3>3, <3>4, <3>5 DEF OrderInv
  <2>8. SerialInv'
    BY <2>2, <2>3, SerialFrame DEF GivenUp, SerialAll
  <2> QED BY <2>7, <2>8 DEF SerialAll
<1>2. CASE WorkerMark
  <2>1. /\ worker.pc = "mark" /\ worker'.pc = "send" /\ worker'.cmd = worker.cmd
        /\ outstanding' = worker.cmd /\ outstanding = None
        /\ UNCHANGED <<queue, activity, wire, lastSent, cb, abandoned, early>>
    BY <1>2 DEF WorkerMark, WorkerAt, Struct, TypeOK, WorkerInv
  <2>2. Used' = Used /\ InFlight' = InFlight
    BY <2>1 DEF Used, InFlight, GivenUp
  <2>3. InFlight = {}
    BY <2>1, UsedType DEF SerialAll, SerialInv, Serial
  <2>4. OrderInv'
    BY <2>1, <2>2, MoveDown DEF SerialAll
  <2>5. SerialInv'
    BY <2>1, <2>2, <2>3 DEF SerialAll, SerialInv, Serial
  <2> QED BY <2>4, <2>5 DEF SerialAll
<1>3. CASE WorkerRate
  <2>1. /\ worker'.pc = "mark" /\ worker.pc = "rate" /\ worker'.cmd = worker.cmd
        /\ UNCHANGED <<queue, activity, outstanding, wire, lastSent, cb, abandoned, early>>
    BY <1>3 DEF WorkerRate, WorkerAt, Struct, TypeOK
  <2>2. Used' = Used /\ InFlight' = InFlight
    BY <2>1 DEF Used, InFlight, GivenUp
  <2> QED BY <2>1, <2>2, MoveDown, SerialFrame DEF GivenUp, SerialAll
<1>4. CASE WorkerSend \/ WorkerSendFails
  <2>1. /\ worker.pc = "send" /\ worker'.pc = "sent" /\ worker'.cmd = worker.cmd
        /\ worker.cmd \in Exchange
        /\ UNCHANGED <<queue, activity, outstanding, abandoned, early>>
    BY <1>4 DEF WorkerSend, WorkerSendFails, WorkerAt, Struct, TypeOK, WorkerInv, Dispatch
  <2>2. Used' \subseteq Used \cup {worker.cmd}
    BY <1>4 DEF WorkerSend, WorkerSendFails, Used, Struct, TypeOK
  <2>5. OrderInv'
    BY <2>1, <2>2 DEF SerialAll, OrderInv
  <2>6. \A t \in Handlers : cb[t].e # worker.cmd
    <3>1. \A t \in Handlers : cb[t].e \in Used
      BY DEF Used
    <3>2. \A x \in Used : x.id < worker.cmd.id
      BY <2>1 DEF SerialAll, OrderInv
    <3>3. worker.cmd.id \in Nat
      BY <2>1, UsedType
    <3> QED BY <3>1, <3>2, <3>3
  <2>7. CASE WorkerSend
    <3>1. InFlight' \subseteq {worker.cmd} /\ cb' = cb
      BY <2>1, <2>7 DEF WorkerSend, InFlight, GivenUp, SerialAll, SerialInv
    <3>2. worker.cmd \in InFlight' => outstanding' = worker.cmd
      BY <2>1 DEF InFlight, GivenUp, SerialAll, SerialInv
    <3> QED BY <2>1, <2>5, <2>6, <3>1, <3>2 DEF SerialAll, SerialInv, Serial
  <2>8. CASE WorkerSendFails
    <3>1. InFlight' = {}
      BY <2>1, <2>8 DEF WorkerSendFails, InFlight, GivenUp, SerialAll, SerialInv
    <3> QED BY <2>1, <2>5, <3>1 DEF SerialAll, SerialInv, Serial
  <2> QED BY <1>4, <2>7, <2>8
<1>5. CASE WorkerSent
  <2>1. /\ worker'.pc = "top" /\ worker'.cmd = None
        /\ UNCHANGED <<queue, activity, outstanding, wire, lastSent, cb, abandoned, early>>
    BY <1>5 DEF WorkerSent
  <2>2. Used' = Used /\ InFlight' = InFlight
    BY <2>1 DEF Used, InFlight, GivenUp
  <2> QED BY <2>1, <2>2, MoveDown, SerialFrame DEF GivenUp, SerialAll
<1>6. CASE WorkerTop \/ WorkerCheck \/ WorkerHold \/ WorkerPopEmpty \/ WorkerIdle
           \/ WorkerIdleQueue \/ WorkerIdleWoken \/ WorkerDoneCheck \/ WorkerSpurious
  <2>1. UNCHANGED workerOnly /\ worker'.cmd = worker.cmd
        /\ worker'.pc \notin {"rate", "mark", "send"}
    BY <1>6 DEF WorkerTop, WorkerCheck, WorkerHold, WorkerPopEmpty, WorkerIdle,
                WorkerIdleQueue, WorkerIdleWoken, WorkerDoneCheck, WorkerSpurious,
                WorkerAt, Struct, TypeOK
  <2> QED BY <2>1, SerialQuiet DEF workerOnly
<1> QED BY <1>1, <1>2, <1>3, <1>4, <1>5, <1>6 DEF Worker

LEMMA SerialWaiter == 
  ASSUME Struct, Struct', SerialAll, Waiter
  PROVE  SerialAll'
<1>1. UNCHANGED waiterOnly
  BY DEF Waiter, WaitBegins, WaitFirst, WaitEpoch, WaitQueue, WaitDispatching,
         WaitOutstanding, WaitGuards, WaitVerdict, WaitRetry, WaitTimesOut
<1> QED BY <1>1, SerialQuiet DEF waiterOnly, procVars

LEMMA SerialEnqueue ==
  ASSUME Struct, Struct', SerialAll, QueueCommand
  PROVE  SerialAll'
<1> PICK c \in Cmd : Enqueue(c)
  BY DEF QueueCommand
<1> DEFINE e == [id |-> activity + 1, cmd |-> c]
<1>1. e \in Exchange /\ activity \in Nat
  BY ConstantsAssumption DEF Enqueue, Exchange, Ids, Struct, TypeOK
<1>2. /\ queue' = Append(queue, e) /\ activity' = activity + 1
      /\ worker'.cmd = worker.cmd
      /\ worker'.pc \in {"rate", "mark", "send"} => worker'.pc = worker.pc
      /\ UNCHANGED <<outstanding, wire, lastSent, cb, abandoned, early>>
  BY NotifyType DEF Enqueue, linkVars, Struct
<1>3. Used' = Used /\ InFlight' = InFlight
  BY <1>2 DEF Used, InFlight, GivenUp
<1>6. OrderInv'
  <2>1. /\ DOMAIN queue' = DOMAIN queue \cup {Len(queue) + 1}
        /\ queue'[Len(queue) + 1] = e
        /\ \A i \in DOMAIN queue : queue'[i] = queue[i] /\ i < Len(queue) + 1
        /\ ~ \E i \in DOMAIN queue : Len(queue) + 1 < i
    BY <1>1, <1>2 DEF Struct, TypeOK
  <2>2. \A x \in Used \cup {outstanding, worker.cmd} : x.id \in Nat /\ x.id <= activity
    BY UsedType DEF SerialAll, OrderInv
  <2>3. \A i \in DOMAIN queue : queue[i].id \in Nat /\ queue[i].id <= activity
    <3>1. \A i \in DOMAIN queue : queue[i] \in Exchange
      BY DEF Struct, TypeOK
    <3> QED BY <3>1, UsedType DEF SerialAll, OrderInv
  <2>4. e.id = activity + 1
    OBVIOUS
  <2>5. \A i, j \in DOMAIN queue' : i < j => queue'[i].id < queue'[j].id
    <3> TAKE i, j \in DOMAIN queue'
    <3> HAVE i < j
    <3>1. i \in DOMAIN queue
      <4>1. i = Len(queue) + 1 => j \notin DOMAIN queue /\ j # i
        BY <2>1 DEF Struct, TypeOK
      <4> QED BY <2>1, <4>1
    <3>2. CASE j \in DOMAIN queue
      BY <2>1, <3>1, <3>2 DEF SerialAll, OrderInv
    <3>3. CASE j = Len(queue) + 1
      BY <1>1, <2>1, <2>3, <2>4, <3>1, <3>3
    <3> QED BY <2>1, <3>2, <3>3
  <2>6. \A i \in DOMAIN queue' :
          /\ queue'[i].id <= activity'
          /\ \A x \in Used' \cup {outstanding', worker'.cmd} : x.id < queue'[i].id
    <3> TAKE i \in DOMAIN queue'
    <3>1. CASE i \in DOMAIN queue
      BY <1>1, <1>2, <1>3, <2>1, <2>3, <3>1 DEF SerialAll, OrderInv
    <3>2. CASE i = Len(queue) + 1
      BY <1>1, <1>2, <1>3, <2>1, <2>2, <2>4, <3>2
    <3> QED BY <2>1, <3>1, <3>2
  <2>7. \A x \in Used' \cup {outstanding', worker'.cmd} : x.id <= activity'
    BY <1>1, <1>2, <1>3, <2>2
  <2>8. worker'.pc \in {"rate", "mark", "send"} => \A x \in Used' : x.id < worker'.cmd.id
    BY <1>2, <1>3 DEF SerialAll, OrderInv
  <2> QED BY <2>5, <2>6, <2>7, <2>8 DEF OrderInv
<1>7. SerialInv'
  BY <1>2, <1>3, SerialFrame DEF GivenUp, SerialAll
<1> QED BY <1>6, <1>7 DEF SerialAll

LEMMA SerialCaller ==
  ASSUME Struct, Struct', SerialAll, Caller
  PROVE  SerialAll'
<1> USE DEF procVars
<1>1. CASE QueueCommand
  BY <1>1, SerialEnqueue
<1>2. CASE AbortRelease
  <2>1. /\ outstanding' = None /\ GivenUp \subseteq GivenUp'
        /\ outstanding # None => outstanding.id \in GivenUp'
        /\ worker'.cmd = worker.cmd
        /\ worker'.pc \in {"rate", "mark", "send"} => worker' = worker
        /\ UNCHANGED <<queue, activity, wire, lastSent, cb>>
    <3>1. NotifyBoth
      BY <1>2 DEF AbortRelease
    <3> QED BY <1>2, <3>1, NotifyType DEF AbortRelease, GivenUp, linkVars, Struct, Dispatch
  <2>2. InFlight' = {}
    BY <2>1, UsedType DEF InFlight, GivenUp, SerialAll, SerialInv, Serial
  <2>3. Used' = Used
    BY <2>1 DEF Used
  <2>4. OrderInv'
    BY <2>1, <2>3, MoveDown DEF SerialAll
  <2>5. worker'.pc = "send" => worker'.cmd.id \in GivenUp'
    <3> HAVE worker'.pc = "send"
    <3>1. worker.pc = "send" /\ worker.cmd \in Exchange /\ worker' = worker
      BY <2>1 DEF Struct, WorkerInv, Dispatch
    <3> QED BY <2>1, <3>1, NoneIsNoExchange DEF SerialAll, SerialInv
  <2> QED BY <2>2, <2>4, <2>5 DEF SerialAll, SerialInv, Serial
<1>3. CASE StopNotifyDone
  <2>1. /\ UNCHANGED <<procVars, linkVars, abandoned, early>> /\ worker'.cmd = worker.cmd
        /\ worker'.pc \in {"rate", "mark", "send"} => worker'.pc = worker.pc
    BY <1>3 DEF StopNotifyDone, Struct, TypeOK
  <2> QED BY <2>1, SerialQuiet
<1>4. CASE Release \/ StopNotifyQueue
  <2>1. /\ UNCHANGED <<queue, activity, outstanding, linkVars, abandoned, early>>
        /\ worker'.cmd = worker.cmd
        /\ worker'.pc \in {"rate", "mark", "send"} => worker'.pc = worker.pc
    BY <1>4, NotifyType DEF Release, StopNotifyQueue, Struct
  <2> QED BY <2>1, SerialQuiet
<1>5. CASE ClearQueue \/ Hold \/ ResetStats \/ AbortFlags \/ AbortClear \/ StopFlags
           \/ StopRunning \/ \E alive \in BOOLEAN : SetChainAlive(alive)
  <2>1. /\ UNCHANGED <<activity, outstanding, linkVars, abandoned, early, worker>>
        /\ queue' \in {queue, <<>>}
    BY <1>5 DEF ClearQueue, Hold, ResetStats, AbortFlags, AbortClear, StopFlags,
                StopRunning, SetChainAlive
  <2> QED BY <2>1, SerialQuiet
<1> QED BY <1>1, <1>2, <1>3, <1>4, <1>5 DEF Caller, TryClaimChain

(* A completion that matches the outstanding command by its string either  *)
(* is that command's, which leaves nothing in flight behind, or completes  *)
(* it early, and it is given up.                                           *)
LEMMA SerialMark ==
  ASSUME Struct, Struct', SerialAll, NEW t \in Handlers, cb[t].pc # "none",
         MarkCompleted(cb[t].e), Used' \subseteq Used \cup {None},
         \A u \in Handlers : cb'[u].e \in {cb[u].e, None},
         UNCHANGED <<queue, activity, wire, lastSent, abandoned>>
  PROVE  SerialAll'
<1>1. /\ outstanding' \in {outstanding, None} /\ worker'.cmd = worker.cmd
      /\ worker'.pc \in {"rate", "mark", "send"} => worker' = worker
  <2>1. CASE NotifyBoth /\ outstanding' = None
    BY <2>1, NotifyType DEF Struct, Dispatch
  <2>2. CASE UNCHANGED <<outstanding, worker>>
    BY <2>2
  <2> QED BY <2>1, <2>2 DEF MarkCompleted
<1>2. OrderInv'
  BY <1>1, MoveDown DEF SerialAll
<1>3. GivenUp \subseteq GivenUp' /\ InFlight' \subseteq InFlight
  <2>1. early \subseteq early'
    BY DEF MarkCompleted
  <2> QED BY <2>1 DEF InFlight, GivenUp
<1>4. CASE outstanding' = outstanding
  <2>1. \A u \in Handlers : cb'[u].e \notin InFlight' \/ cb'[u].e = cb[u].e
    BY <1>3, UsedType
  <2>2. SerialInv'
    BY <1>1, <1>3, <1>4, <2>1, SerialFrame DEF GivenUp, SerialAll
  <2> QED BY <1>2, <2>2 DEF SerialAll
<1>5. CASE outstanding' # outstanding
  <2>1. /\ outstanding # None /\ outstanding' = None
        /\ outstanding # cb[t].e => outstanding.id \in GivenUp'
    BY <1>5 DEF MarkCompleted, GivenUp
  <2>2. cb[t].e \in Exchange /\ cb[t].e \in Used
    BY DEF Struct, CallbackInv, Used
  <2>3. InFlight' = {}
    <3>1. \A x \in InFlight : x = outstanding /\ x # cb[t].e
      BY DEF SerialAll, SerialInv, Serial
    <3>2. \A x \in InFlight' : x.id \notin GivenUp'
      BY DEF InFlight, GivenUp
    <3> QED BY <1>3, <2>1, <3>1, <3>2
  <2>4. worker.pc = "send" => worker.cmd.id \in GivenUp'
    <3> HAVE worker.pc = "send"
    <3>1. cb[t].e.id < worker.cmd.id /\ cb[t].e.id \in Nat
      BY <2>2, UsedType DEF SerialAll, OrderInv
    <3>2. cb[t].e # worker.cmd
      BY <3>1
    <3> QED BY <1>3, <2>1, <3>2 DEF SerialAll, SerialInv
  <2>5. worker'.pc = "send" => worker'.cmd.id \in GivenUp'
    BY <1>1, <2>4
  <2>6. None \notin InFlight'
    BY <2>3
  <2> QED BY <1>2, <2>3, <2>5 DEF SerialAll, SerialInv, Serial
<1> QED BY <1>4, <1>5

LEMMA SerialPlatform ==
  ASSUME Struct, Struct', SerialAll, Platform
  PROVE  SerialAll'
<1>1. ASSUME NEW e \in wire, Deliver(e) PROVE SerialAll'
  <2>1. /\ cb'["delivery"].e = e
        /\ \A u \in Handlers \ {"delivery"} : cb'[u] = cb[u]
        /\ wire' = {x \in wire : x.id > e.id}
        /\ UNCHANGED <<queue, activity, outstanding, worker, lastSent, abandoned, early>>
    BY <1>1 DEF Deliver, DataCallbackBegins, Struct, TypeOK, Handlers
  <2>2. Used' \subseteq Used
    BY <2>1 DEF Used
  <2>3. InFlight' \subseteq InFlight \ {e}
    <3>1. e.id \in Nat
      BY <1>1, UsedType DEF Used
    <3>2. wire' \subseteq wire /\ e \notin wire'
      BY <2>1, <3>1
    <3> QED BY <2>1, <3>2 DEF InFlight, GivenUp
  <2>4. OrderInv'
    BY <2>1, <2>2, MoveDown DEF SerialAll
  <2>5. SerialInv'
    BY <2>1, <2>3, SerialFrame DEF GivenUp, SerialAll
  <2> QED BY <2>4, <2>5 DEF SerialAll
<1>2. ASSUME NEW e \in wire, LoseReply(e) PROVE SerialAll'
  <2>1. wire' \subseteq wire
        /\ UNCHANGED <<queue, activity, outstanding, worker, lastSent, cb, abandoned, early>>
    BY <1>2 DEF LoseReply, procVars
  <2>2. Used' \subseteq Used /\ InFlight' \subseteq InFlight
    BY <2>1 DEF Used, InFlight, GivenUp
  <2> QED BY <2>1, <2>2, MoveDown, SerialFrame DEF GivenUp, SerialAll
<1>3. CASE Disconnect
  <2>1. /\ cb'["host"].e = lastSent
        /\ \A u \in Handlers \ {"host"} : cb'[u] = cb[u]
        /\ wire' = wire /\ lastSent' = None
        /\ GivenUp \subseteq GivenUp' /\ \A e \in wire : e.id \in GivenUp'
        /\ UNCHANGED <<queue, activity, outstanding, worker>>
    BY <1>3 DEF Disconnect, DataCallbackBegins, GivenUp, Struct, TypeOK, Handlers
  <2>2. Used' \subseteq Used \cup {None}
    BY <2>1 DEF Used
  <2>3. InFlight' = {}
    BY <2>1 DEF InFlight, GivenUp
  <2>4. OrderInv'
    BY <2>1, <2>2, MoveDown DEF SerialAll
  <2>5. SerialInv'
    BY <2>1, <2>3, SerialFrame DEF GivenUp, SerialAll
  <2> QED BY <2>4, <2>5 DEF SerialAll
<1>4. ASSUME NEW t \in Handlers, Callback(t) PROVE SerialAll'
  <2>1. /\ \A u \in Handlers : cb'[u].e \in {cb[u].e, None}
        /\ cb[t].pc # "none"
        /\ UNCHANGED <<queue, activity, wire, lastSent, abandoned>>
    BY <1>4 DEF Callback, DataCallbackMarks, DataCallbackEnds, CompletionCallback, Struct,
                TypeOK
  <2>2. Used' \subseteq Used \cup {None}
    BY <2>1 DEF Used
  <2>3. CASE MarkCompleted(cb[t].e)
    BY <2>1, <2>2, <2>3, SerialMark
  <2>4. CASE DataCallbackEnds(t)
    <3>1. InFlight' = InFlight /\ UNCHANGED <<outstanding, worker, early>>
      BY <2>1, <2>4 DEF InFlight, GivenUp, DataCallbackEnds
    <3>2. \A u \in Handlers : cb'[u].e \notin InFlight' \/ cb'[u].e = cb[u].e
      BY <2>1, <3>1, UsedType
    <3> QED BY <2>1, <2>2, <3>1, <3>2, MoveDown, SerialFrame DEF GivenUp, SerialAll
  <2> QED BY <1>4, <2>3, <2>4 DEF Callback, DataCallbackMarks, CompletionCallback
<1> QED BY <1>1, <1>2, <1>3, <1>4 DEF Platform

LEMMA SerialStep ==
  ASSUME Struct, Struct', SerialAll, [Next]_vars
  PROVE  SerialAll'
<1>1. CASE UNCHANGED vars
  BY <1>1, SerialQuiet DEF vars, procVars
<1> QED BY <1>1, SerialWorker, SerialWaiter, SerialPlatform, SerialCaller DEF Next

LEMMA SerialInit == Init => SerialAll
<1> SUFFICES ASSUME Init PROVE SerialAll
  OBVIOUS
<1>1. queue = <<>> /\ DOMAIN queue = {} /\ Used = {None} /\ InFlight = {}
  BY EmptyElements DEF Init, Used, InFlight, GivenUp, Handlers
<1>2. OrderInv
  BY <1>1 DEF Init, OrderInv, None
<1> QED BY <1>1, <1>2 DEF Init, SerialAll, SerialInv, Serial

LEMMA SerialAllHolds ==
  Spec => [](Struct /\ SerialAll)
<1>1. Struct /\ Struct' /\ SerialAll /\ [Next]_vars => SerialAll'
  BY SerialStep
<1> QED BY <1>1, SerialInit, StructHolds, PTL DEF Spec

(* Strict serial processing, whatever the interleaving of callbacks and    *)
(* callers and however often they queue the same string: at most one       *)
(* command is on the wire that nobody gave up, and it is the outstanding   *)
(* one.  Aborts and disconnects give commands up, and so does an older     *)
(* command's callback that finds its own string outstanding.               *)
THEOREM SerialHolds ==
  Spec => []Serial
<1>1. Struct /\ SerialAll => Serial
  BY DEF SerialAll, SerialInv
<1> QED BY <1>1, SerialAllHolds, PTL

(* wait_for_idle: what each read has established, as long as no command    *)
(* was queued since the scan began.                                        *)
ScanInv ==
  waiter.epoch = activity =>
    /\ waiter.pc \in {"dispatching", "outstanding", "guards", "verdict"} => queue = <<>>
    /\ waiter.pc \in {"outstanding", "guards", "verdict"} => ~dispatching
    /\ waiter.pc \in {"guards", "verdict"} => outstanding = None
    /\ waiter.pc = "verdict" =>
         \A t \in Handlers : cb[t].pc \in {"guarded", "marked"} =>
                               cb[t].e.id \in GivenUp

LEMMA ScanStep ==
  ASSUME Struct, Struct', SerialInv, ScanInv, [Next]_vars
  PROVE  ScanInv'
<1> USE DEF ScanInv, procVars, linkVars, GivenUp
<1> DEFINE Scanned == UNCHANGED <<activity, dispatching>> /\ queue' \in {queue, <<>>}
<1>1. ASSUME Scanned, waiter' = waiter, outstanding' \in {outstanding, None},
             GivenUp \subseteq GivenUp',
             \A t \in Handlers : \/ cb'[t].pc \notin {"guarded", "marked"}
                                 \/ cb'[t].e = cb[t].e /\ cb[t].pc \in {"guarded", "marked"}
                                 \/ cb'[t].e.id \in GivenUp'
      PROVE  ScanInv'
  BY <1>1
<1>2. ASSUME NotifyDone, waiter' # waiter PROVE ScanInv'
  BY <1>2 DEF NotifyDone, Struct, TypeOK
<1>3. NotifyBoth => NotifyDone
  BY DEF NotifyBoth
<1>4. CASE Worker
  <2>1. CASE WorkerPop      BY <2>1 DEF WorkerPop
  <2>2. CASE WorkerMark
    BY <2>2 DEF WorkerMark, Struct, WorkerInv, Dispatch
  <2>3. CASE WorkerSendFails
    BY <2>3 DEF WorkerSendFails, Struct, WorkerInv, Dispatch
  <2>4. CASE WorkerSent     BY <2>4 DEF WorkerSent
  <2> QED BY <1>4, <2>1, <2>2, <2>3, <2>4
          DEF Worker, WorkerTop, WorkerCheck, WorkerHold, WorkerPopEmpty, WorkerRate,
              WorkerSend, WorkerIdle, WorkerIdleQueue, WorkerIdleWoken, WorkerDoneCheck,
              workerOnly
<1>5. CASE WorkerSpurious
  BY <1>5 DEF WorkerSpurious, workerOnly
<1>6. CASE Waiter
  <2>1. UNCHANGED waiterOnly
    BY <1>6 DEF Waiter, WaitBegins, WaitFirst, WaitEpoch, WaitQueue, WaitDispatching,
                WaitOutstanding, WaitGuards, WaitVerdict, WaitRetry, WaitTimesOut
  <2>2. CASE WaitGuards
    <3>1. waiter'.pc = "verdict" =>
            \A t \in Handlers : cb[t].pc \notin {"guarded", "marked"}
      BY <2>2 DEF WaitGuards, WaiterAt, Struct, TypeOK, CallbackInv, Guarding, Handlers
    <3> QED BY <2>1, <2>2, <3>1 DEF WaitGuards, WaiterAt, waiterOnly, Struct, TypeOK
  <2> QED BY <1>6, <2>1, <2>2
          DEF Waiter, WaitBegins, WaitFirst, WaitEpoch, WaitQueue, WaitDispatching,
              WaitOutstanding, WaitVerdict, WaitRetry, WaitTimesOut, WaiterAt,
              waiterOnly, Struct, TypeOK
<1>7. CASE Platform
  <2>1. ASSUME NEW e \in wire, Deliver(e) PROVE ScanInv'
    <3>1. /\ cb'["delivery"].e = e
          /\ \A u \in Handlers \ {"delivery"} : cb'[u] = cb[u]
          /\ UNCHANGED <<queue, dispatching, activity, outstanding, waiter, abandoned, early>>
      BY <2>1 DEF Deliver, DataCallbackBegins, Struct, TypeOK, Handlers
    <3>2. outstanding = None => e.id \in GivenUp
      BY NoneIsNoExchange DEF SerialInv, Serial, InFlight, Struct, TypeOK
    <3> QED BY <3>1, <3>2 DEF Handlers
  <2>2. ASSUME NEW e \in wire, LoseReply(e) PROVE ScanInv'
    BY <2>2 DEF LoseReply
  <2>3. CASE Disconnect
    <3>1. /\ cb'["host"].e = lastSent /\ lastSent.id \in GivenUp'
          /\ GivenUp \subseteq GivenUp'
          /\ \A u \in Handlers \ {"host"} : cb'[u] = cb[u]
          /\ UNCHANGED <<queue, dispatching, activity, outstanding, waiter>>
      BY <2>3 DEF Disconnect, DataCallbackBegins, Struct, TypeOK, Handlers
    <3> QED BY <3>1, <1>1
  <2>4. ASSUME NEW t \in Handlers, Callback(t) PROVE ScanInv'
    <3>1. /\ UNCHANGED <<queue, dispatching, activity, abandoned>> /\ early \subseteq early'
          /\ \A u \in Handlers :
               \/ cb'[u].pc \notin {"guarded", "marked"}
               \/ cb'[u].e = cb[u].e /\ cb[u].pc \in {"guarded", "marked"}
      BY <2>4 DEF Callback, DataCallbackMarks, DataCallbackEnds, CompletionCallback,
                  MarkCompleted, Struct, TypeOK
    <3>2. /\ outstanding' \in {outstanding, None}
          /\ waiter' = waiter \/ NotifyDone
      BY <1>3, <2>4 DEF Callback, DataCallbackMarks, DataCallbackEnds, CompletionCallback,
                        MarkCompleted
    <3> QED BY <1>1, <1>2, <3>1, <3>2
  <2> QED BY <1>7, <2>1, <2>2, <2>3, <2>4 DEF Platform
<1>8. CASE Caller
  <2>1. CASE QueueCommand
    <3>1. activity' = activity + 1 /\ waiter' = waiter
      BY <2>1 DEF QueueCommand, Enqueue
    <3>2. waiter.epoch # activity + 1
      BY DEF Struct, TypeOK, EpochInv
    <3> QED BY <3>1, <3>2
  <2>2. CASE AbortRelease
    <3>1. /\ UNCHANGED <<queue, dispatching, activity, cb>> /\ outstanding' = None
          /\ GivenUp \subseteq GivenUp' /\ NotifyDone
      BY <1>3, <2>2 DEF AbortRelease
    <3> QED BY <1>1, <1>2, <3>1
  <2>3. CASE StopNotifyDone
    BY <1>2, <2>3 DEF StopNotifyDone
  <2>4. CASE Release \/ StopNotifyQueue
    BY <2>4 DEF Release, StopNotifyQueue
  <2>5. CASE ClearQueue \/ Hold \/ ResetStats \/ AbortFlags \/ AbortClear \/ StopFlags
             \/ StopRunning \/ \E alive \in BOOLEAN : SetChainAlive(alive)
    <3>1. /\ UNCHANGED <<activity, dispatching, outstanding, cb, abandoned, early, waiter>>
          /\ queue' \in {queue, <<>>}
      BY <2>5 DEF ClearQueue, Hold, ResetStats, AbortFlags, AbortClear, StopFlags,
                  StopRunning, SetChainAlive
    <3> QED BY <1>1, <3>1
  <2> QED BY <1>8, <2>1, <2>2, <2>3, <2>4, <2>5 DEF Caller, TryClaimChain
<1>9. CASE UNCHANGED vars
  BY <1>9 DEF vars
<1> QED BY <1>4, <1>5, <1>6, <1>7, <1>8, <1>9 DEF Next

(* A true answer of wait_for_idle is given over nothing: at the moment of  *)
(* the verdict no command is queued, in the worker's hands, outstanding or *)
(* in flight, and no live callback can still queue a successor, although   *)
(* the five indicators were read one after the other.                      *)
THEOREM IdleVerdict ==
  Spec => IdleVerdictSound
<1>1. Init => ScanInv
  BY DEF Init, ScanInv
<1>2. Struct /\ Struct' /\ SerialAll /\ ScanInv /\ [Next]_vars => ScanInv'
  BY ScanStep DEF SerialAll
<1>3. ASSUME Struct, SerialAll, ScanInv, [Next]_vars,
             waiter.pc = "verdict", waiter'.pc = "idle"
      PROVE  Quiet
  <2>1. waiter.epoch = activity
    <3>1. NotifyDone => waiter'.pc # "idle"
      BY <1>3 DEF NotifyDone
    <3>2. CASE Waiter
      BY <1>3, <3>2
         DEF Waiter, WaitBegins, WaitFirst, WaitEpoch, WaitQueue, WaitDispatching,
             WaitOutstanding, WaitGuards, WaitVerdict, WaitRetry, WaitTimesOut, WaiterAt,
             Struct, TypeOK
    <3>3. CASE Worker \/ WorkerSpurious
      BY <1>3, <3>3
         DEF Worker, WorkerTop, WorkerCheck, WorkerHold, WorkerPop, WorkerPopEmpty,
             WorkerRate, WorkerMark, WorkerSend, WorkerSendFails, WorkerSent, WorkerIdle,
             WorkerIdleQueue, WorkerIdleWoken, WorkerDoneCheck, WorkerSpurious, workerOnly
    <3>4. CASE Platform
      BY <1>3, <3>1, <3>4
         DEF Platform, Deliver, LoseReply, Disconnect, DataCallbackBegins, Callback,
             DataCallbackMarks, DataCallbackEnds, CompletionCallback, MarkCompleted,
             NotifyBoth
    <3>5. CASE Caller
      BY <1>3, <3>1, <3>5
         DEF Caller, QueueCommand, Enqueue, ClearQueue, Hold, Release, TryClaimChain,
             SetChainAlive, ResetStats, AbortFlags, AbortClear, AbortRelease, StopFlags,
             StopRunning, StopNotifyQueue, StopNotifyDone, NotifyBoth
    <3> QED BY <1>3, <3>2, <3>3, <3>4, <3>5 DEF Next, vars
  <2>2. /\ queue = <<>> /\ ~dispatching /\ outstanding = None
        /\ \A t \in Handlers : cb[t].pc \in {"guarded", "marked"} => cb[t].e.id \in GivenUp
    BY <1>3, <2>1 DEF ScanInv
  <2>3. InFlight = {}
    BY <1>3, <2>2, UsedType DEF SerialAll, SerialInv, Serial
  <2> QED BY <2>2, <2>3 DEF Quiet
<1>4. Struct /\ SerialAll /\ ScanInv /\ [Next]_vars
        => [waiter.pc = "verdict" /\ waiter'.pc = "idle" => Quiet]_vars
  BY <1>3
<1> QED BY <1>1, <1>2, <1>4, SerialAllHolds, PTL DEF Spec, IdleVerdictSound
=============================================================================
