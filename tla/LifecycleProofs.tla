-------------------------- MODULE LifecycleProofs ---------------------------
(***************************************************************************)
(* Theorems about the session lifecycle, for every number of attempts,     *)
(* disconnects and broken links, and about the bring-up a connect runs in  *)
(* it, for any adapters, vehicles, datasets and sequence of connects.      *)
(***************************************************************************)
EXTENDS Lifecycle, Bringup, SequenceTheorems, FiniteSetTheorems, WellFoundedInduction, TLAPS

-----------------------------------------------------------------------------
(* The fence.  A close moves it and takes the writer at once, and a link   *)
(* is installed only under the value its opening was asked with.           *)
FenceInv ==
  /\ fence \in Nat /\ asked \in [Gen -> 0 .. fence] /\ writer \in Gen \cup {Host}
  /\ FencedWriter

(* The steps that leave the platform's fence, its writer and what was      *)
(* asked of it alone.                                                      *)
fenced == <<fence, writer, asked>>

(* Generations are positive numbers: none of them is Host.                 *)
LEMMA GenType == LastEpoch \in Nat /\ Gen \subseteq Nat /\ Host \notin Gen
BY LifecycleAssumption DEF LastEpoch, Gen, Host

(* Every step keeps the fence.                                             *)
LEMMA FenceStep == FenceInv /\ [Next]_vars => FenceInv'
<1> SUFFICES ASSUME FenceInv, [Next]_vars PROVE FenceInv'
  OBVIOUS
<1>1. CASE UNCHANGED fenced
  BY <1>1 DEF FenceInv, FencedWriter, fenced
<1>2. CASE TakeWriter /\ UNCHANGED asked
  BY <1>2 DEF FenceInv, FencedWriter, TakeWriter
<1>3. CASE Open
  <2>1. /\ asked' = [asked EXCEPT ![Job.gen] = fence] /\ UNCHANGED <<fence, writer>>
    BY <1>3 DEF Open
  <2>2. asked' \in [Gen -> 0 .. fence]
    <3>1. fence \in 0 .. fence
      BY DEF FenceInv
    <3> QED BY <2>1, <3>1 DEF FenceInv
  <2>3. writer # Host => asked'[writer] \in {asked[writer], fence}
    BY <2>1 DEF FenceInv
  <2> QED BY <2>1, <2>2, <2>3 DEF FenceInv, FencedWriter
<1>4. ASSUME NEW g \in Gen, Install(g) PROVE FenceInv'
  <2>1. UNCHANGED <<fence, asked>> /\ (writer' = writer \/ (writer' = g /\ fence = asked[g]))
    BY <1>4 DEF Install
  <2> QED BY <2>1 DEF FenceInv, FencedWriter
<1>5. ASSUME NEW g \in Gen, DropWriter(g) PROVE FenceInv'
  BY <1>5 DEF FenceInv, FencedWriter, DropWriter
<1>6. CASE HostCall
  BY <1>1, <1>6 DEF HostCall, ConnectToController, SelectConnector, DisconnectClaim,
     platformVars, fenced
<1>7. CASE HostStep
  BY <1>1, <1>7 DEF HostStep, SelectBegin, BeginBump, BeginPhase, InitiateConnection,
     DisconnectBump, DisconnectPhase, DisconnectEnqueue, platformVars, fenced
<1>8. CASE Worker
  BY <1>1, <1>2, <1>3, <1>8 DEF Worker, Receive, DropClaim, DropBump, DropEnd, Drain,
     CloseWriter, DrainTell, DrainEnd, WaitAnswer, WaitSuperseded, WaitDeadline, Step,
     InitFails, IdentifyFails, Commit, Connected, Abandon, Abandoned, FailClaim,
     FailBump, FailTell, platformVars, fenced
<1>9. ASSUME NEW g \in Gen, Discovery(g) PROVE FenceInv'
  BY <1>1, <1>9 DEF Discovery, DiscoveryRound, DiscoveryEmpty, DiscoveryPicker,
     platformVars, fenced
<1>10. ASSUME NEW g \in Gen, Platform(g) PROVE FenceInv'
  BY <1>1, <1>4, <1>5, <1>10 DEF Platform, OpenFails, OpenUp, OpenTell, LinkDrops,
     DropTell, fenced
<1>11. CASE UNCHANGED vars
  BY <1>1, <1>11 DEF vars, fenced
<1> QED BY <1>6, <1>7, <1>8, <1>9, <1>10, <1>11 DEF Next

(* The fence holds in every reachable state: what was asked for is never   *)
(* younger than connect_epoch, and the writer was asked for under it.      *)
THEOREM FenceHolds == Spec => []FenceInv
<1>1. Init => FenceInv
  BY DEF Init, FenceInv, FencedWriter
<1> QED BY <1>1, FenceStep, PTL DEF Spec

(* Whatever link the commands are written to was asked for since the last  *)
(* close or abandon: a late or stale open never becomes the writer.        *)
THEOREM WriterFenced == Spec => []FencedWriter
BY FenceHolds, PTL DEF FenceInv

-----------------------------------------------------------------------------
(* The structural invariant.  The generations travel from the epoch to the *)
(* host's call, to a message, to the worker, and never run ahead of it.    *)
MessageOK(m, e) ==
  /\ m \in Message /\ m.gen <= e
  /\ m.type = "Connect" \/ (m.type = "Disconnect" /\ m.owner) => m.gen > 0

MailOK(s, e) ==
  s \in Seq(Message) /\ \A i \in 1 .. Len(s) : MessageOK(s[i], e)

Connecting == {"open", "wait", "init", "identify", "commit", "connected", "abandon",
               "abandoned", "failClaim", "failBump", "failClose", "failTell"}
Draining == {"drain", "drainClose", "drainTell", "drainEnd"}

JobInv ==
  /\ MessageOK(Job, epoch)
  /\ worker.pc \in Connecting => Job.type = "Connect"
  /\ worker.pc \in Draining => Job.type = "Disconnect"

HostInv ==
  /\ host.pc \in {"phase", "send", "disconnecting"} => host.gen > 0
  /\ host.pc = "enqueue" /\ host.owner => host.gen > 0

(* Every bump of the epoch is paid for: a begin pays for its own and for   *)
(* the one of whoever claims the attempt it begins.                        *)
One(b) == IF b THEN 1 ELSE 0

Due ==
  One(host.pc = "claimed" /\ host.owner) + One(ClaimUnderWay) + One(~claimed)
    + One(host.pc = "bump") + 2 * One(host.pc = "clear")

EpochBound == epoch + Due <= 2 * begins + 1

Struct == TypeOK /\ MailOK(mailbox, epoch) /\ JobInv /\ HostInv /\ EpochBound

(* Every step pays: each action against the bound, in turn.                *)
LEMMA EpochStep == Struct /\ [Next]_vars => EpochBound'
<1> SUFFICES ASSUME Struct, [Next]_vars PROVE EpochBound'
  OBVIOUS
<1>0. /\ epoch \in Nat /\ begins \in Nat /\ claimed \in BOOLEAN
      /\ host.owner \in BOOLEAN /\ worker.owner \in BOOLEAN
      /\ EpochBound
  BY DEF Struct, TypeOK
<1> USE DEF EpochBound, Due, One, ClaimUnderWay, HostAt, HostGoes, WorkerAt, WorkerGoes
<1>1. CASE ConnectToController
  BY <1>0, <1>1 DEF ConnectToController, BeginClear
<1>2. CASE SelectConnector
  BY <1>0, <1>2 DEF SelectConnector, fenceVars
<1>3. CASE DisconnectClaim
  <2>1. /\ claimed' /\ host'.pc = "claimed" /\ (host'.owner <=> ~claimed)
        /\ host.pc = "idle" /\ UNCHANGED <<epoch, worker, begins>>
    BY <1>3 DEF DisconnectClaim, Struct, TypeOK, ClaimTerminal, Idle
  <2> QED BY <1>0, <2>1
<1>4. CASE SelectBegin
  BY <1>0, <1>4 DEF SelectBegin, countVars, BeginClear
<1>5. CASE BeginBump
  BY <1>0, <1>5 DEF BeginBump, countVars
<1>6. CASE BeginPhase
  <2>1. /\ host.pc = "phase" /\ host'.pc \in {"idle", "send"}
        /\ UNCHANGED <<epoch, claimed, worker, begins>>
    BY <1>6 DEF BeginPhase, Struct, TypeOK, fenceVars, countVars, Idle
  <2> QED BY <1>0, <2>1
<1>7. CASE InitiateConnection
  BY <1>0, <1>7 DEF InitiateConnection, fenceVars, countVars
<1>8. CASE DisconnectBump
  BY <1>0, <1>8 DEF DisconnectBump, countVars, Generation
<1>9. CASE DisconnectPhase
  BY <1>0, <1>9 DEF DisconnectPhase, fenceVars, countVars
<1>10. CASE DisconnectEnqueue
  BY <1>0, <1>10 DEF DisconnectEnqueue, fenceVars, countVars
<1>11. CASE Receive
  BY <1>0, <1>11 DEF Receive, fenceVars, countVars, Idle
<1>12. CASE DropClaim
  <2>1. /\ claimed' /\ worker'.pc = "dropBump" /\ (worker'.owner <=> ~claimed)
        /\ worker.pc = "dropClaim" /\ UNCHANGED <<epoch, host, begins>>
    BY <1>12 DEF DropClaim, Struct, TypeOK, countVars, ClaimTerminal, Idle
  <2> QED BY <1>0, <2>1
<1>13. CASE DropBump
  BY <1>0, <1>13 DEF DropBump, countVars, Idle
<1>14. CASE DropEnd
  BY <1>0, <1>14 DEF DropEnd, fenceVars, countVars, Idle
<1>15. CASE Drain
  BY <1>0, <1>15 DEF Drain, fenceVars, countVars, Idle
<1>16. CASE CloseWriter("drainClose", "drainTell")
  BY <1>0, <1>16 DEF CloseWriter, fenceVars, countVars
<1>17. CASE DrainTell
  BY <1>0, <1>17 DEF DrainTell, fenceVars, countVars, Idle
<1>18. CASE DrainEnd
  BY <1>0, <1>18 DEF DrainEnd, fenceVars, countVars, Idle
<1>19. CASE Open
  BY <1>0, <1>19 DEF Open, fenceVars, countVars
<1>20. CASE WaitAnswer
  <2>1. /\ worker.pc = "wait" /\ worker'.pc \in {"abandon", "init", "failClaim"}
        /\ UNCHANGED <<epoch, claimed, host, begins>>
    BY <1>20 DEF WaitAnswer, Struct, TypeOK, fenceVars, countVars, Idle, Fail
  <2> QED BY <1>0, <2>1
<1>21. CASE WaitSuperseded
  BY <1>0, <1>21 DEF WaitSuperseded, fenceVars, countVars
<1>22. CASE WaitDeadline
  BY <1>0, <1>22 DEF WaitDeadline, fenceVars, countVars, Fail
<1>23. CASE Step("init", "identify")
  BY <1>0, <1>23 DEF Step, fenceVars, countVars, Idle
<1>24. CASE InitFails
  BY <1>0, <1>24 DEF InitFails, fenceVars, countVars, Fail
<1>25. CASE Step("identify", "commit")
  BY <1>0, <1>25 DEF Step, fenceVars, countVars, Idle
<1>26. CASE IdentifyFails
  BY <1>0, <1>26 DEF IdentifyFails, fenceVars, countVars, Idle
<1>27. CASE Commit
  BY <1>0, <1>27 DEF Commit, fenceVars, countVars
<1>28. CASE Connected
  BY <1>0, <1>28 DEF Connected, fenceVars, countVars, Idle
<1>29. CASE Abandon
  <2>1. /\ worker.pc = "abandon" /\ worker'.pc \in {"recv", "abandoned"}
        /\ UNCHANGED <<epoch, claimed, host, begins>>
    BY <1>29 DEF Abandon, Struct, TypeOK, fenceVars, countVars, Idle
  <2> QED BY <1>0, <2>1
<1>30. CASE Abandoned
  BY <1>0, <1>30 DEF Abandoned, fenceVars, countVars, Idle
<1>31. CASE FailClaim
  <2>1. /\ claimed' /\ worker'.pc = "failBump" /\ (worker'.owner <=> ~claimed)
        /\ worker.pc = "failClaim" /\ UNCHANGED <<epoch, host, begins>>
    BY <1>31 DEF FailClaim, Struct, TypeOK, countVars, ClaimTerminal, Idle
  <2> QED BY <1>0, <2>1
<1>32. CASE FailBump
  BY <1>0, <1>32 DEF FailBump, countVars
<1>33. CASE CloseWriter("failClose", "failTell")
  BY <1>0, <1>33 DEF CloseWriter, fenceVars, countVars
<1>34. CASE FailTell
  BY <1>0, <1>34 DEF FailTell, fenceVars, countVars, Idle
<1>35. CASE UNCHANGED <<epoch, claimed, begins, host, worker>>
  BY <1>0, <1>35
<1>36. ASSUME NEW g \in Gen, Discovery(g) \/ Platform(g) PROVE EpochBound'
  BY <1>35, <1>36 DEF Discovery, DiscoveryRound, DiscoveryEmpty, DiscoveryPicker,
     Platform, OpenFails, OpenUp, Install, OpenTell, LinkDrops, DropWriter, DropTell,
     fenceVars, countVars, platformOnly
<1> QED BY <1>1, <1>2, <1>3, <1>4, <1>5, <1>6, <1>7, <1>8, <1>9, <1>10, <1>11, <1>12,
   <1>13, <1>14, <1>15, <1>16, <1>17, <1>18, <1>19, <1>20, <1>21, <1>22, <1>23, <1>24,
   <1>25, <1>26, <1>27, <1>28, <1>29, <1>30, <1>31, <1>32, <1>33, <1>34, <1>35, <1>36
   DEF Next, HostCall, HostStep, Worker, vars

(* No step takes the epoch back.                                           *)
LEMMA EpochGrows == Struct /\ [Next]_vars => epoch' \in Nat /\ epoch <= epoch'
<1> SUFFICES ASSUME Struct, [Next]_vars PROVE epoch' \in {epoch, epoch + 1}
  BY DEF Struct, TypeOK
<1> USE DEF fenceVars, platformOnly, vars
<1>1. CASE HostCall \/ HostStep
  BY <1>1 DEF HostCall, ConnectToController, SelectConnector, DisconnectClaim, HostStep,
     SelectBegin, BeginBump, BeginPhase, InitiateConnection, DisconnectBump,
     DisconnectPhase, DisconnectEnqueue
<1>2. CASE Worker
  BY <1>2 DEF Worker, Receive, DropClaim, DropBump, DropEnd, Drain,
     CloseWriter, DrainTell, DrainEnd, Open, WaitAnswer, WaitSuperseded, WaitDeadline, Step,
     InitFails, IdentifyFails, Commit, Connected, Abandon, Abandoned, FailClaim,
     FailBump, FailTell
<1>3. ASSUME NEW g \in Gen, Discovery(g) \/ Platform(g) PROVE epoch' = epoch
  BY <1>3 DEF Discovery, DiscoveryRound, DiscoveryEmpty, DiscoveryPicker,
     Platform, OpenFails, OpenUp, Install, OpenTell, LinkDrops, DropWriter, DropTell
<1> QED BY <1>1, <1>2, <1>3 DEF Next

(* A mailbox stays in order when the epoch moves, when a message in order  *)
(* is appended, and when one is taken.                                     *)
LEMMA MailGrows ==
  ASSUME NEW s, NEW e \in Nat, NEW f \in Nat, e <= f, MailOK(s, e)
  PROVE  MailOK(s, f)
BY DEF MailOK, MessageOK, Message

LEMMA MailAppend ==
  ASSUME NEW s, NEW e \in Nat, NEW f \in Nat, e <= f, MailOK(s, e),
         NEW m, MessageOK(m, f)
  PROVE  MailOK(Append(s, m), f)
<1>1. s \in Seq(Message) /\ m \in Message
  BY DEF MailOK, MessageOK
<1>2. \A i \in 1 .. Len(s) : MessageOK(s[i], f)
  BY <1>1 DEF MailOK, MessageOK, Message
<1>3. /\ Append(s, m) \in Seq(Message) /\ Len(Append(s, m)) = Len(s) + 1
      /\ Append(s, m)[Len(s) + 1] = m
      /\ \A i \in 1 .. Len(s) : Append(s, m)[i] = s[i]
  BY <1>1
<1>4. \A i \in 1 .. Len(s) + 1 : i \in 1 .. Len(s) \/ i = Len(s) + 1
  BY <1>1
<1> QED BY <1>1, <1>2, <1>3, <1>4 DEF MailOK

LEMMA MailTail ==
  ASSUME NEW s, NEW e \in Nat, MailOK(s, e), s # <<>>
  PROVE  MailOK(Tail(s), e) /\ MessageOK(Head(s), e)
<1>1. s \in Seq(Message)
  BY DEF MailOK
<1>2. /\ Tail(s) \in Seq(Message) /\ 1 \in 1 .. Len(s) /\ Head(s) = s[1]
      /\ \A i \in 1 .. Len(Tail(s)) : i + 1 \in 1 .. Len(s) /\ Tail(s)[i] = s[i + 1]
  BY <1>1
<1> QED BY <1>2 DEF MailOK

(* Every step keeps the mailbox in order.                                  *)
LEMMA MailStep == Struct /\ [Next]_vars => MailOK(mailbox', epoch')
<1> SUFFICES ASSUME Struct, [Next]_vars PROVE MailOK(mailbox', epoch')
  OBVIOUS
<1>1. epoch \in Nat /\ epoch' \in Nat /\ epoch <= epoch' /\ MailOK(mailbox, epoch)
  BY EpochGrows DEF Struct, TypeOK
<1>0. host.gen \in 0 .. LastEpoch /\ host.gen <= epoch /\ host.owner \in BOOLEAN
  <2>1. epoch \in 0 .. LastEpoch /\ host.gen \in 0 .. epoch /\ host.owner \in BOOLEAN
    BY DEF Struct, TypeOK
  <2> QED BY <2>1, GenType
<1>2. CASE UNCHANGED mailbox
  BY <1>1, <1>2, MailGrows
<1>3. CASE InitiateConnection
  <2>1. mailbox' = Append(mailbox, Connect(host.gen)) /\ epoch' = epoch
    BY <1>3 DEF InitiateConnection, Send, fenceVars
  <2>2. host.gen > 0
    BY <1>3 DEF InitiateConnection, HostAt, Struct, HostInv
  <2>3. MessageOK(Connect(host.gen), epoch)
    BY <1>0, <2>2 DEF Connect, MessageOK, Message
  <2> QED BY <1>1, <2>1, <2>3, MailAppend
<1>4. CASE DisconnectEnqueue
  <2>1. mailbox' = Append(mailbox, Disconnect(host.gen, host.owner)) /\ epoch' = epoch
    BY <1>4 DEF DisconnectEnqueue, Send, fenceVars
  <2>2. host.owner => host.gen > 0
    BY <1>4 DEF DisconnectEnqueue, HostAt, Struct, HostInv
  <2>3. MessageOK(Disconnect(host.gen, host.owner), epoch)
    BY <1>0, <2>2 DEF Disconnect, MessageOK, Message
  <2> QED BY <1>1, <2>1, <2>3, MailAppend
<1>5. ASSUME NEW own \in BOOLEAN, TellDisconnected(own) PROVE MailOK(mailbox', epoch')
  <2>1. mailbox' = Append(mailbox, Drop(remembered, own))
    BY <1>5 DEF TellDisconnected, Send
  <2>2. MessageOK(Drop(remembered, own), epoch')
    BY <1>1, GenType DEF Drop, MessageOK, Message, Struct, TypeOK
  <2> QED BY <1>1, <2>1, <2>2, MailAppend
<1>6. CASE Receive
  <2>1. mailbox # <<>> /\ mailbox' = Tail(mailbox)
    BY <1>6 DEF Receive
  <2> QED BY <1>1, <2>1, MailTail, MailGrows
<1>7. CASE HostCall \/ HostStep
  BY <1>2, <1>3, <1>4, <1>7 DEF HostCall, ConnectToController, SelectConnector,
     DisconnectClaim, HostStep, SelectBegin, BeginBump, BeginPhase, DisconnectBump,
     DisconnectPhase
<1>8. CASE Worker
  BY <1>2, <1>5, <1>6, <1>8 DEF Worker, DropClaim, DropBump, DropEnd, Drain,
     CloseWriter, DrainTell, DrainEnd, Open, WaitAnswer, WaitSuperseded, WaitDeadline, Step,
     InitFails, IdentifyFails, Commit, Connected, Abandon, Abandoned, FailClaim,
     FailBump, FailTell
<1>9. ASSUME NEW g \in Gen, Discovery(g) \/ Platform(g) PROVE MailOK(mailbox', epoch')
  BY <1>2, <1>5, <1>9 DEF Discovery, DiscoveryRound, DiscoveryEmpty, DiscoveryPicker,
     Platform, OpenFails, OpenUp, Install, OpenTell, LinkDrops, DropWriter, DropTell
<1>10. CASE UNCHANGED vars
  BY <1>2, <1>10 DEF vars
<1> QED BY <1>7, <1>8, <1>9, <1>10 DEF Next

(* The worker's job comes from the mailbox, and its kind goes with where   *)
(* the worker is.                                                          *)
LEMMA JobStep == Struct /\ [Next]_vars => JobInv'
<1> SUFFICES ASSUME Struct, [Next]_vars PROVE JobInv'
  OBVIOUS
<1>1. epoch \in Nat /\ epoch' \in Nat /\ epoch <= epoch' /\ JobInv
  BY EpochGrows DEF Struct, TypeOK
<1>2. MessageOK(Job, epoch')
  BY <1>1 DEF JobInv, MessageOK, Message
<1>3. MessageOK(NoMessage, epoch')
  BY <1>1, GenType DEF NoMessage, Drop, MessageOK, Message
<1>4. CASE UNCHANGED worker
  BY <1>1, <1>2, <1>4 DEF JobInv, Job
<1>5. CASE worker' = Idle
  BY <1>3, <1>5 DEF JobInv, Job, Idle, Connecting, Draining
<1>6. ASSUME worker'.job = Job,
             worker'.pc \in Connecting => worker.pc \in Connecting,
             worker'.pc \in Draining => worker.pc \in Draining
      PROVE  JobInv'
  BY <1>1, <1>2, <1>6 DEF JobInv, Job
<1>7. CASE Receive
  <2>1. mailbox # <<>> /\ MailOK(mailbox, epoch)
    BY <1>7 DEF Receive, Struct
  <2>2. MessageOK(Head(mailbox), epoch)
    BY <1>1, <2>1, MailTail
  <2>3. MessageOK(Head(mailbox), epoch')
    BY <1>1, <2>2 DEF MessageOK, Message
  <2>4. CASE worker' # Idle
    <3> DEFINE m == Head(mailbox)
               start == [Connect |-> "open", Disconnect |-> "drain", Drop |-> "dropClaim"]
    <3>1. worker' = [pc |-> start[m.type], job |-> m, owner |-> FALSE]
      BY <1>7, <2>4 DEF Receive
    <3>2. m.type \in {"Connect", "Disconnect", "Drop"}
      BY <2>3 DEF MessageOK, Message
    <3> QED BY <2>3, <3>1, <3>2 DEF JobInv, Job, Connecting, Draining
  <2> QED BY <1>5, <2>4
<1>8. CASE HostCall \/ HostStep
  BY <1>4, <1>8 DEF HostCall, ConnectToController, SelectConnector,
     DisconnectClaim, HostStep, SelectBegin, BeginBump, BeginPhase, InitiateConnection,
     DisconnectBump, DisconnectPhase, DisconnectEnqueue
<1>9. CASE Worker
  <2>1. CASE DropClaim
    BY <1>5, <1>6, <2>1 DEF DropClaim, WorkerAt, WorkerGoes, Job, Connecting, Draining,
       Struct, TypeOK
  <2>2. CASE DropBump
    BY <1>5, <1>6, <2>2 DEF DropBump, WorkerAt, WorkerGoes, Job, Connecting, Draining,
       Fail, Struct, TypeOK
  <2>3. CASE DropEnd
    BY <1>5, <1>6, <2>3 DEF DropEnd, WorkerAt, WorkerGoes, Job, Connecting, Draining,
       Fail, Struct, TypeOK
  <2>4. CASE Drain
    BY <1>5, <1>6, <2>4 DEF Drain, WorkerAt, WorkerGoes, Job, Connecting, Draining,
       Fail, Struct, TypeOK
  <2>5. CASE CloseWriter("drainClose", "drainTell")
    BY <1>5, <1>6, <2>5 DEF CloseWriter, WorkerAt, WorkerGoes, Job, Connecting,
       Draining, Fail, Struct, TypeOK
  <2>6. CASE DrainTell
    BY <1>5, <1>6, <2>6 DEF DrainTell, WorkerAt, WorkerGoes, Job, Connecting, Draining,
       Fail, Struct, TypeOK
  <2>7. CASE DrainEnd
    BY <1>5, <1>6, <2>7 DEF DrainEnd, WorkerAt, WorkerGoes, Job, Connecting, Draining,
       Fail, Struct, TypeOK
  <2>8. CASE Open
    BY <1>5, <1>6, <2>8 DEF Open, WorkerAt, WorkerGoes, Job, Connecting, Draining, Fail,
       Struct, TypeOK
  <2>9. CASE WaitAnswer
    BY <1>5, <1>6, <2>9 DEF WaitAnswer, WorkerAt, WorkerGoes, Job, Connecting, Draining,
       Fail, Struct, TypeOK
  <2>10. CASE WaitSuperseded
    BY <1>5, <1>6, <2>10 DEF WaitSuperseded, WorkerAt, WorkerGoes, Job, Connecting,
       Draining, Fail, Struct, TypeOK
  <2>11. CASE WaitDeadline
    BY <1>5, <1>6, <2>11 DEF WaitDeadline, WorkerAt, WorkerGoes, Job, Connecting,
       Draining, Fail, Struct, TypeOK
  <2>12. CASE Step("init", "identify")
    BY <1>5, <1>6, <2>12 DEF Step, WorkerAt, WorkerGoes, Job, Connecting, Draining,
       Fail, Struct, TypeOK
  <2>13. CASE InitFails
    BY <1>5, <1>6, <2>13 DEF InitFails, WorkerAt, WorkerGoes, Job, Connecting, Draining,
       Fail, Struct, TypeOK
  <2>14. CASE Step("identify", "commit")
    BY <1>5, <1>6, <2>14 DEF Step, WorkerAt, WorkerGoes, Job, Connecting, Draining,
       Fail, Struct, TypeOK
  <2>15. CASE IdentifyFails
    BY <1>5, <1>6, <2>15 DEF IdentifyFails, WorkerAt, WorkerGoes, Job, Connecting,
       Draining, Fail, Struct, TypeOK
  <2>16. CASE Commit
    BY <1>5, <1>6, <2>16 DEF Commit, WorkerAt, WorkerGoes, Job, Connecting, Draining,
       Fail, Struct, TypeOK
  <2>17. CASE Connected
    BY <1>5, <1>6, <2>17 DEF Connected, WorkerAt, WorkerGoes, Job, Connecting, Draining,
       Fail, Struct, TypeOK
  <2>18. CASE Abandon
    BY <1>5, <1>6, <2>18 DEF Abandon, WorkerAt, WorkerGoes, Job, Connecting, Draining,
       Fail, Struct, TypeOK
  <2>19. CASE Abandoned
    BY <1>5, <1>6, <2>19 DEF Abandoned, WorkerAt, WorkerGoes, Job, Connecting, Draining,
       Fail, Struct, TypeOK
  <2>20. CASE FailClaim
    BY <1>5, <1>6, <2>20 DEF FailClaim, WorkerAt, WorkerGoes, Job, Connecting, Draining,
       Fail, Struct, TypeOK
  <2>21. CASE FailBump
    BY <1>5, <1>6, <2>21 DEF FailBump, WorkerAt, WorkerGoes, Job, Connecting, Draining,
       Fail, Struct, TypeOK
  <2>22. CASE CloseWriter("failClose", "failTell")
    BY <1>5, <1>6, <2>22 DEF CloseWriter, WorkerAt, WorkerGoes, Job, Connecting,
       Draining, Fail, Struct, TypeOK
  <2>23. CASE FailTell
    BY <1>5, <1>6, <2>23 DEF FailTell, WorkerAt, WorkerGoes, Job, Connecting, Draining,
       Fail, Struct, TypeOK
  <2> QED BY <1>7, <1>9, <2>1, <2>2, <2>3, <2>4, <2>5, <2>6, <2>7, <2>8, <2>9, <2>10,
     <2>11, <2>12, <2>13, <2>14, <2>15, <2>16, <2>17, <2>18, <2>19, <2>20, <2>21, <2>22,
     <2>23 DEF Worker
<1>10. ASSUME NEW g \in Gen, Discovery(g) \/ Platform(g) PROVE JobInv'
  BY <1>4, <1>10 DEF Discovery, DiscoveryRound, DiscoveryEmpty, DiscoveryPicker,
     Platform, OpenFails, OpenUp, Install, OpenTell, LinkDrops, DropWriter, DropTell, platformOnly
<1>11. CASE UNCHANGED vars
  BY <1>4, <1>11 DEF vars
<1> QED BY <1>8, <1>9, <1>10, <1>11 DEF Next

-----------------------------------------------------------------------------
(* The types, one group of variables at a time.                            *)
LEMMA EpochType ==
  Struct /\ [Next]_vars => epoch' \in 0 .. LastEpoch /\ begins' \in 0 .. MaxBegins
<1> SUFFICES ASSUME Struct, [Next]_vars
             PROVE  epoch' \in 0 .. LastEpoch /\ begins' \in 0 .. MaxBegins
  OBVIOUS
<1>1. begins' \in 0 .. MaxBegins
  <2>1. CASE HostCall
    BY <2>1, LifecycleAssumption DEF HostCall, ConnectToController, SelectConnector,
       DisconnectClaim,
       Struct, TypeOK
  <2>2. CASE HostStep \/ Worker
    BY <2>2 DEF HostStep, SelectBegin, BeginBump, BeginPhase, InitiateConnection,
       DisconnectBump, DisconnectPhase, DisconnectEnqueue, Worker,
       Receive, DropClaim, DropBump, DropEnd, Drain, CloseWriter, DrainTell, DrainEnd,
          Open, WaitAnswer, WaitSuperseded, WaitDeadline, Step, InitFails,
          IdentifyFails, Commit, Connected, Abandon, Abandoned, FailClaim, FailBump,
          FailTell, countVars, Struct, TypeOK
  <2>3. ASSUME NEW g \in Gen, Discovery(g) \/ Platform(g) PROVE begins' \in 0 .. MaxBegins
    BY <2>3 DEF Discovery, Platform, DiscoveryRound, DiscoveryEmpty, DiscoveryPicker,
       OpenFails, OpenUp, Install, OpenTell, LinkDrops, DropWriter, DropTell,
       platformOnly, countVars, Struct, TypeOK
  <2> QED BY <2>1, <2>2, <2>3 DEF Next, vars, Struct, TypeOK
<1>2. epoch' \in Nat /\ epoch' + Due' <= 2 * begins' + 1
  BY EpochStep, EpochGrows DEF EpochBound
<1>3. Due' \in Nat
  BY DEF Due, One
<1>4. MaxBegins \in Nat /\ begins' \in Nat /\ begins' <= MaxBegins
  BY <1>1, LifecycleAssumption
<1>5. \A e, d, b, m \in Nat : e + d <= 2 * b + 1 /\ b <= m => e <= 2 * m + 1
  OBVIOUS
<1>6. epoch' <= 2 * MaxBegins + 1
  <2> HIDE DEF Due
  <2> QED BY <1>2, <1>3, <1>4, <1>5
<1> QED BY <1>1, <1>2, <1>6, GenType DEF LastEpoch

(* The host's call is well typed, and its generation is a real one where   *)
(* it is used.                                                             *)
LEMMA HostTypeStep ==
  Struct /\ [Next]_vars =>
    /\ HostInv'
    /\ host' \in [pc : HostPc, call : {"none", "connect", "select"},
                  gen : 0 .. epoch', owner : BOOLEAN]
<1> DEFINE T(e) == [pc : HostPc, call : {"none", "connect", "select"},
                    gen : 0 .. e, owner : BOOLEAN]
<1> SUFFICES ASSUME Struct, [Next]_vars PROVE HostInv' /\ host' \in T(epoch')
  OBVIOUS
<1>1. /\ epoch \in Nat /\ epoch' \in Nat /\ epoch <= epoch' /\ HostInv
      /\ host \in T(epoch) /\ claimed \in BOOLEAN
  BY EpochGrows DEF Struct, TypeOK
<1>2. host \in T(epoch')
  BY <1>1
<1>3. CASE UNCHANGED host
  BY <1>1, <1>2, <1>3 DEF HostInv
<1>4. CASE ConnectToController
  BY <1>1, <1>2, <1>4 DEF ConnectToController, HostAt, HostInv, HostPc, BeginClear
<1>5. CASE SelectConnector
  BY <1>1, <1>2, <1>5 DEF SelectConnector, HostAt, HostGoes, HostInv, HostPc, fenceVars
<1>6. CASE DisconnectClaim
  BY <1>1, <1>2, <1>6 DEF DisconnectClaim, HostAt, HostInv, HostPc
<1>7. CASE SelectBegin
  BY <1>1, <1>2, <1>7 DEF SelectBegin, HostAt, HostInv, HostPc, BeginClear
<1>8. CASE BeginBump
  <2>1. /\ epoch' = epoch + 1 /\ host' = [host EXCEPT !.pc = "phase", !.gen = epoch + 1]
    BY <1>8 DEF BeginBump
  <2>2. epoch + 1 > 0 /\ epoch + 1 \in 0 .. epoch'
    BY <1>1, <2>1
  <2> QED BY <1>2, <2>1, <2>2 DEF HostInv, HostPc
<1>9. CASE BeginPhase
  BY <1>1, <1>2, <1>9 DEF BeginPhase, HostAt, HostGoes, HostInv, HostPc, fenceVars
<1>10. CASE InitiateConnection
  BY <1>1, <1>2, <1>10 DEF InitiateConnection, HostAt, HostGoes, HostInv, HostPc,
     fenceVars
<1>11. CASE DisconnectBump
  <2>1. host' = [host EXCEPT !.pc = IF host.owner THEN "disconnecting" ELSE "enqueue",
                             !.gen = Generation(host.owner)]
    BY <1>11 DEF DisconnectBump
  <2>2. epoch' = Generation(host.owner) /\ (host.owner => epoch' > 0)
    BY <1>1, <1>11 DEF DisconnectBump, Generation
  <2>3. Generation(host.owner) \in 0 .. epoch'
    BY <1>1, <2>2
  <2> QED BY <1>2, <2>1, <2>2, <2>3 DEF HostInv, HostPc
<1>12. CASE DisconnectPhase
  BY <1>1, <1>2, <1>12 DEF DisconnectPhase, HostAt, HostGoes, HostInv, HostPc, fenceVars
<1>13. CASE DisconnectEnqueue
  BY <1>1, <1>2, <1>13 DEF DisconnectEnqueue, HostAt, HostGoes, HostInv, HostPc,
     fenceVars
<1>14. CASE Worker
  BY <1>3, <1>14 DEF Worker,
     Receive, DropClaim, DropBump, DropEnd, Drain, CloseWriter, DrainTell, DrainEnd,
        Open, WaitAnswer, WaitSuperseded, WaitDeadline, Step, InitFails, IdentifyFails,
        Commit, Connected, Abandon, Abandoned, FailClaim, FailBump, FailTell
<1>15. ASSUME NEW g \in Gen, Discovery(g) \/ Platform(g) PROVE UNCHANGED host
  BY <1>15 DEF Discovery, Platform, DiscoveryRound, DiscoveryEmpty, DiscoveryPicker,
     OpenFails, OpenUp, Install, OpenTell, LinkDrops, DropWriter, DropTell, platformOnly
<1> QED BY <1>3, <1>4, <1>5, <1>6, <1>7, <1>8, <1>9, <1>10, <1>11, <1>12, <1>13, <1>14,
   <1>15 DEF Next, HostCall, HostStep, vars

(* The worker's place and job are well typed.                              *)
LEMMA WorkerTypeStep ==
  Struct /\ [Next]_vars => worker' \in [pc : WorkerPc, job : Message, owner : BOOLEAN]
<1> DEFINE T == [pc : WorkerPc, job : Message, owner : BOOLEAN]
<1> SUFFICES ASSUME Struct, [Next]_vars PROVE worker' \in T
  OBVIOUS
<1>1. worker \in T /\ claimed \in BOOLEAN /\ epoch \in Nat /\ MailOK(mailbox, epoch)
  BY DEF Struct, TypeOK
<1>2. Idle \in T
  BY GenType DEF Idle, NoMessage, Drop, Message, WorkerPc
<1>3. CASE Receive
  <2>1. Head(mailbox) \in Message
    BY <1>1, <1>3, MailTail DEF Receive, MessageOK
  <2> DEFINE m == Head(mailbox)
             start == [Connect |-> "open", Disconnect |-> "drain", Drop |-> "dropClaim"]
  <2>2. worker' \in {Idle, [pc |-> start[m.type], job |-> m, owner |-> FALSE]}
    BY <1>3 DEF Receive
  <2>3. start[m.type] \in WorkerPc
    BY <2>1 DEF Message, WorkerPc
  <2>4. [pc |-> start[m.type], job |-> m, owner |-> FALSE] \in T
    BY <2>1, <2>3
  <2> HIDE DEF m, start, T
  <2> QED BY <1>2, <2>2, <2>4
<1>4. CASE Worker
  <2>1. CASE DropClaim
    BY <1>1, <1>2, <2>1 DEF DropClaim, WorkerAt, WorkerGoes, WorkerPc
  <2>2. CASE DropBump
    BY <1>1, <1>2, <2>2 DEF DropBump, WorkerAt, WorkerGoes, WorkerPc, Fail
  <2>3. CASE DropEnd
    BY <1>1, <1>2, <2>3 DEF DropEnd, WorkerAt, WorkerGoes, WorkerPc, Fail
  <2>4. CASE Drain
    BY <1>1, <1>2, <2>4 DEF Drain, WorkerAt, WorkerGoes, WorkerPc, Fail
  <2>5. CASE CloseWriter("drainClose", "drainTell")
    BY <1>1, <1>2, <2>5 DEF CloseWriter, WorkerAt, WorkerGoes, WorkerPc, Fail
  <2>6. CASE DrainTell
    BY <1>1, <1>2, <2>6 DEF DrainTell, WorkerAt, WorkerGoes, WorkerPc, Fail
  <2>7. CASE DrainEnd
    BY <1>1, <1>2, <2>7 DEF DrainEnd, WorkerAt, WorkerGoes, WorkerPc, Fail
  <2>8. CASE Open
    BY <1>1, <1>2, <2>8 DEF Open, WorkerAt, WorkerGoes, WorkerPc, Fail
  <2>9. CASE WaitAnswer
    BY <1>1, <1>2, <2>9 DEF WaitAnswer, WorkerAt, WorkerGoes, WorkerPc, Fail
  <2>10. CASE WaitSuperseded
    BY <1>1, <1>2, <2>10 DEF WaitSuperseded, WorkerAt, WorkerGoes, WorkerPc, Fail
  <2>11. CASE WaitDeadline
    BY <1>1, <1>2, <2>11 DEF WaitDeadline, WorkerAt, WorkerGoes, WorkerPc, Fail
  <2>12. CASE Step("init", "identify")
    BY <1>1, <1>2, <2>12 DEF Step, WorkerAt, WorkerGoes, WorkerPc, Fail
  <2>13. CASE InitFails
    BY <1>1, <1>2, <2>13 DEF InitFails, WorkerAt, WorkerGoes, WorkerPc, Fail
  <2>14. CASE Step("identify", "commit")
    BY <1>1, <1>2, <2>14 DEF Step, WorkerAt, WorkerGoes, WorkerPc, Fail
  <2>15. CASE IdentifyFails
    BY <1>1, <1>2, <2>15 DEF IdentifyFails, WorkerAt, WorkerGoes, WorkerPc, Fail
  <2>16. CASE Commit
    BY <1>1, <1>2, <2>16 DEF Commit, WorkerAt, WorkerGoes, WorkerPc, Fail
  <2>17. CASE Connected
    BY <1>1, <1>2, <2>17 DEF Connected, WorkerAt, WorkerGoes, WorkerPc, Fail
  <2>18. CASE Abandon
    BY <1>1, <1>2, <2>18 DEF Abandon, WorkerAt, WorkerGoes, WorkerPc, Fail
  <2>19. CASE Abandoned
    BY <1>1, <1>2, <2>19 DEF Abandoned, WorkerAt, WorkerGoes, WorkerPc, Fail
  <2>20. CASE FailClaim
    BY <1>1, <1>2, <2>20 DEF FailClaim, WorkerAt, WorkerGoes, WorkerPc, Fail
  <2>21. CASE FailBump
    BY <1>1, <1>2, <2>21 DEF FailBump, WorkerAt, WorkerGoes, WorkerPc, Fail
  <2>22. CASE CloseWriter("failClose", "failTell")
    BY <1>1, <1>2, <2>22 DEF CloseWriter, WorkerAt, WorkerGoes, WorkerPc, Fail
  <2>23. CASE FailTell
    BY <1>1, <1>2, <2>23 DEF FailTell, WorkerAt, WorkerGoes, WorkerPc, Fail
  <2> QED BY <1>3, <1>4, <2>1, <2>2, <2>3, <2>4, <2>5, <2>6, <2>7, <2>8, <2>9, <2>10,
     <2>11, <2>12, <2>13, <2>14, <2>15, <2>16, <2>17, <2>18, <2>19, <2>20, <2>21, <2>22,
     <2>23 DEF Worker
<1>5. CASE HostCall \/ HostStep
  BY <1>1, <1>5 DEF HostCall, HostStep, ConnectToController, SelectConnector,
     DisconnectClaim, SelectBegin, BeginBump, BeginPhase, InitiateConnection,
     DisconnectBump, DisconnectPhase, DisconnectEnqueue
<1>6. ASSUME NEW g \in Gen, Discovery(g) \/ Platform(g) PROVE UNCHANGED worker
  BY <1>6 DEF Discovery, Platform, DiscoveryRound, DiscoveryEmpty, DiscoveryPicker,
     OpenFails, OpenUp, Install, OpenTell, LinkDrops, DropWriter, DropTell, platformOnly
<1> QED BY <1>1, <1>4, <1>5, <1>6 DEF Next, vars

(* The phase never carries an epoch from the future.                       *)
LEMMA PhaseTypeStep ==
  Struct /\ [Next]_vars =>
    phase' \in [kind : {"Idle", "Connecting", "Connected", "Disconnecting"},
                 epoch : 0 .. epoch']
<1> DEFINE T(e) == [kind : {"Idle", "Connecting", "Connected", "Disconnecting"},
                    epoch : 0 .. e]
<1> SUFFICES ASSUME Struct, [Next]_vars PROVE phase' \in T(epoch')
  OBVIOUS
<1>1. /\ epoch \in Nat /\ epoch' \in Nat /\ epoch <= epoch' /\ phase \in T(epoch)
      /\ host.gen \in 0 .. epoch /\ Job.gen \in Nat /\ Job.gen <= epoch
  BY EpochGrows DEF Struct, TypeOK, JobInv, MessageOK, Message
<1>2. CASE UNCHANGED phase
  BY <1>1, <1>2
<1>3. CASE HostCall \/ HostStep
  BY <1>1, <1>2, <1>3 DEF HostCall, HostStep, ConnectToController, SelectConnector,
     DisconnectClaim, SelectBegin, BeginBump, BeginPhase, InitiateConnection,
     DisconnectBump, DisconnectPhase, DisconnectEnqueue, SetPhase, fenceVars
<1>4. CASE Worker
  <2>1. CASE DropEnd \/ DrainEnd
    BY <1>1, <2>1 DEF DropEnd, DrainEnd, SetPhase
  <2>2. CASE Connected
    BY <1>1, <2>2 DEF Connected, SetPhase
  <2> QED BY <1>2, <1>4, <2>1, <2>2 DEF Worker, Receive, DropClaim, DropBump, Drain,
     CloseWriter, DrainTell, Open, WaitAnswer, WaitSuperseded, WaitDeadline, Step,
     InitFails, IdentifyFails, Commit, Abandon, Abandoned, FailClaim, FailBump, FailTell
<1>5. ASSUME NEW g \in Gen, Discovery(g) \/ Platform(g) PROVE UNCHANGED phase
  BY <1>5 DEF Discovery, Platform, DiscoveryRound, DiscoveryEmpty, DiscoveryPicker,
     OpenFails, OpenUp, Install, OpenTell, LinkDrops, DropWriter, DropTell, platformOnly
<1> QED BY <1>2, <1>3, <1>4, <1>5 DEF Next, vars

(* The flags, the status and the bounded counters are well typed.          *)
LEMMA ScalarTypeStep ==
  Struct /\ [Next]_vars =>
    /\ claimed' \in BOOLEAN /\ awaiting' \in BOOLEAN /\ remembered' \in BOOLEAN
    /\ stray' \in BOOLEAN /\ torn' \in BOOLEAN
    /\ status' \in {"Disconnected", "Connected"}
    /\ disconnects' \in 0 .. MaxDisconnects /\ drops' \in 0 .. MaxDrops
<1> SUFFICES ASSUME Struct, [Next]_vars
             PROVE  /\ claimed' \in BOOLEAN /\ awaiting' \in BOOLEAN /\ remembered' \in BOOLEAN
                    /\ stray' \in BOOLEAN /\ torn' \in BOOLEAN
                    /\ status' \in {"Disconnected", "Connected"}
                    /\ disconnects' \in 0 .. MaxDisconnects /\ drops' \in 0 .. MaxDrops
  OBVIOUS
<1>1. /\ claimed \in BOOLEAN /\ awaiting \in BOOLEAN /\ remembered \in BOOLEAN
      /\ stray \in BOOLEAN /\ torn \in BOOLEAN
      /\ status \in {"Disconnected", "Connected"}
      /\ disconnects \in 0 .. MaxDisconnects /\ drops \in 0 .. MaxDrops
      /\ MaxDisconnects \in Nat /\ MaxDrops \in Nat
  BY LifecycleAssumption DEF Struct, TypeOK
<1>2. CASE HostCall
  <2>1. CASE ConnectToController
    <3>1. torn' \in BOOLEAN
      BY <2>1 DEF ConnectToController
    <3> QED BY <1>1, <2>1, <3>1 DEF ConnectToController, BeginClear, platformVars
  <2>2. CASE SelectConnector
    BY <1>1, <2>2 DEF SelectConnector, platformVars, historyVars, fenceVars
  <2>3. CASE DisconnectClaim
    BY <1>1, <2>3 DEF DisconnectClaim, ClaimTerminal, platformVars, historyVars
  <2> QED BY <1>2, <2>1, <2>2, <2>3 DEF HostCall
<1>3. CASE HostStep
  BY <1>1, <1>3 DEF HostStep, SelectBegin, BeginBump, BeginPhase, InitiateConnection,
     DisconnectBump, DisconnectPhase, DisconnectEnqueue, BeginClear, platformVars,
     historyVars, countVars, fenceVars
<1>4. CASE Worker
  BY <1>1, <1>4 DEF Worker, Receive, DropClaim, DropBump, DropEnd, Drain, CloseWriter,
     DrainTell, DrainEnd, Open, WaitAnswer, WaitSuperseded, WaitDeadline, Step,
     InitFails, IdentifyFails, Commit, Connected, Abandon, Abandoned, FailClaim,
     FailBump, FailTell, ClaimTerminal, TellDisconnected, platformVars, historyVars,
     countVars, fenceVars
<1>5. ASSUME NEW g \in Gen, Discovery(g) \/ Platform(g)
      PROVE  /\ claimed' \in BOOLEAN /\ awaiting' \in BOOLEAN /\ remembered' \in BOOLEAN
             /\ stray' \in BOOLEAN /\ torn' \in BOOLEAN
             /\ status' \in {"Disconnected", "Connected"}
             /\ disconnects' \in 0 .. MaxDisconnects /\ drops' \in 0 .. MaxDrops
  <2>1. CASE DropWriter(g)
    <3>1. stray' \in BOOLEAN
      BY <2>1 DEF DropWriter
    <3> QED BY <1>1, <2>1, <3>1 DEF DropWriter, platformOnly, fenceVars, countVars
  <2>2. CASE DropTell(g)
    BY <1>1, <2>2 DEF DropTell, TellDisconnected, platformOnly, fenceVars, countVars
  <2>3. CASE LinkDrops(g)
    BY <1>1, <2>3 DEF LinkDrops, fenceVars
  <2>4. CASE OpenTell(g)
    BY <1>1, <2>4 DEF OpenTell, platformOnly, fenceVars, countVars
  <2>5. CASE OpenFails(g) \/ OpenUp(g) \/ Install(g)
    BY <1>1, <2>5 DEF OpenFails, OpenUp, Install, platformOnly, fenceVars, countVars
  <2>6. CASE Discovery(g)
    BY <1>1, <2>6 DEF Discovery, DiscoveryRound, DiscoveryEmpty, DiscoveryPicker,
       platformVars, historyVars, countVars, fenceVars
  <2> QED BY <1>5, <2>1, <2>2, <2>3, <2>4, <2>5, <2>6 DEF Platform
<1> QED BY <1>1, <1>2, <1>3, <1>4, <1>5 DEF Next, vars

FunctionTypes ==
  /\ discovery \in [Gen -> {"none", "round", "found", "over"}]
  /\ opener \in [Gen -> {"none", "opening", "up", "installed", "over"}]
  /\ result \in [Gen -> {"none", "Connected", "Failed"}]
  /\ link \in [Gen -> {"none", "up", "closed", "dropping", "dropped", "down"}]
  /\ told \in [Gen -> {"nothing", "connected", "failed"}]

(* What is kept for each generation is well typed.                         *)
LEMMA FunctionTypeStep == FunctionTypes /\ [Next]_vars => FunctionTypes'
<1> SUFFICES ASSUME FunctionTypes, [Next]_vars PROVE FunctionTypes'
  OBVIOUS
<1> USE DEF FunctionTypes
<1>1. CASE UNCHANGED <<discovery, opener, result, link, told>>
  BY <1>1
<1>2. CASE TakeWriter /\ UNCHANGED <<discovery, opener, result, told>>
  BY <1>2 DEF TakeWriter
<1>3. CASE HostCall \/ HostStep
  BY <1>1, <1>3 DEF HostCall, HostStep, ConnectToController, SelectConnector,
     DisconnectClaim, SelectBegin, BeginBump, BeginPhase, InitiateConnection,
     DisconnectBump, DisconnectPhase, DisconnectEnqueue, platformVars, historyVars
<1>4. CASE Worker
  <2>1. CASE Open
    BY <2>1 DEF Open, historyVars
  <2>2. CASE Fail /\ UNCHANGED <<discovery, opener, result, link>>
    BY <2>2 DEF Fail
  <2>3. CASE IdentifyFails
    BY <2>3 DEF IdentifyFails, platformVars
  <2>4. CASE Commit
    BY <2>4 DEF Commit
  <2> QED BY <1>1, <1>2, <1>4, <2>1, <2>2, <2>3, <2>4 DEF Worker, Receive, DropClaim,
     DropBump, DropEnd, Drain, CloseWriter, DrainTell, DrainEnd, WaitAnswer,
     WaitSuperseded, WaitDeadline, Step, InitFails, Connected, Abandon, Abandoned,
     FailClaim, FailBump, FailTell, platformVars, historyVars
<1>5. ASSUME NEW g \in Gen, Discovery(g) PROVE FunctionTypes'
  BY <1>5 DEF Discovery, DiscoveryRound, DiscoveryEmpty, DiscoveryPicker, platformVars,
     historyVars
<1>6. ASSUME NEW g \in Gen, Platform(g) PROVE FunctionTypes'
  BY <1>6 DEF Platform, OpenFails, OpenUp, Install, OpenTell, LinkDrops, DropWriter,
     DropTell, platformOnly
<1> QED BY <1>1, <1>3, <1>4, <1>5, <1>6 DEF Next, vars

(* Only real attempts are given up, and none ends before it began.         *)
LEMMA HistoryTypeStep ==
  Struct /\ [Next]_vars => gaveUp' \subseteq Gen /\ ended' \in 0 .. epoch'
<1> SUFFICES ASSUME Struct, [Next]_vars PROVE gaveUp' \subseteq Gen /\ ended' \in 0 .. epoch'
  OBVIOUS
<1>1. /\ epoch \in Nat /\ epoch' \in Nat /\ epoch <= epoch'
      /\ gaveUp \subseteq Gen /\ ended \in 0 .. epoch
      /\ Job.gen \in Nat /\ Job.gen <= epoch
  BY EpochGrows DEF Struct, TypeOK, JobInv, MessageOK, Message
<1>2. worker.pc \in Connecting => Job.gen \in Gen
  BY GenType DEF Struct, JobInv, MessageOK, Message, Gen
<1>3. CASE UNCHANGED <<gaveUp, ended>>
  BY <1>1, <1>3
<1>4. CASE DropBump
  BY <1>1, <1>4 DEF DropBump
<1>5. CASE DrainTell
  <2>1. Job.owner => Job.gen > 0
    BY <1>5 DEF DrainTell, WorkerAt, Draining, Struct, JobInv, MessageOK
  <2> QED BY <1>1, <1>5, <2>1 DEF DrainTell
<1>6. CASE Abandon \/ Abandoned \/ FailTell
  <2>1. Job.gen \in Gen
    BY <1>2, <1>6 DEF Abandon, Abandoned, FailTell, WorkerAt, Connecting
  <2>2. gaveUp' \in {gaveUp, gaveUp \cup {Job.gen}} /\ ended' = ended
    BY <1>6 DEF Abandon, Abandoned, FailTell
  <2> QED BY <1>1, <2>1, <2>2
<1>7. CASE HostCall \/ HostStep
  BY <1>3, <1>7 DEF HostCall, HostStep, ConnectToController, SelectConnector,
     DisconnectClaim, SelectBegin, BeginBump, BeginPhase, InitiateConnection,
     DisconnectBump, DisconnectPhase, DisconnectEnqueue, historyVars
<1>8. CASE Worker
  BY <1>3, <1>4, <1>5, <1>6, <1>8 DEF Worker, Receive, DropClaim, DropEnd, Drain,
     CloseWriter, DrainEnd, Open, WaitAnswer, WaitSuperseded, WaitDeadline, Step,
     InitFails, IdentifyFails, Commit, Connected, FailClaim, FailBump, historyVars
<1>9. ASSUME NEW g \in Gen, Discovery(g) \/ Platform(g) PROVE UNCHANGED <<gaveUp, ended>>
  BY <1>9 DEF Discovery, Platform, DiscoveryRound, DiscoveryEmpty, DiscoveryPicker,
     OpenFails, OpenUp, Install, OpenTell, LinkDrops, DropWriter, DropTell,
     platformOnly, historyVars
<1> QED BY <1>3, <1>7, <1>8, <1>9 DEF Next, vars

(* Every reachable state is well typed.  In particular the epoch stays     *)
(* within two bumps of a begin, whoever wins the claims, and no message,   *)
(* call or job carries a generation from the future.                       *)
THEOREM StructHolds == Spec => []Struct
<1>1. Init => Struct
  <2>1. MessageOK(NoMessage, 0) /\ NoMessage \in Message
    BY GenType DEF NoMessage, Drop, MessageOK, Message
  <2>2. MailOK(<<>>, 0)
    BY DEF MailOK
  <2> SUFFICES ASSUME Init PROVE Struct
    OBVIOUS
  <2>3. FunctionTypes /\ asked \in [Gen -> 0 .. fence]
    BY DEF Init, FunctionTypes
  <2>4. /\ worker = Idle /\ epoch = 0 /\ begins = 0 /\ mailbox = <<>> /\ ~claimed
        /\ host = [pc |-> "idle", call |-> "none", gen |-> 0, owner |-> FALSE]
    BY DEF Init, Idle
  <2>5. TypeOK
    <3>1. /\ 0 \in 0 .. LastEpoch /\ 0 \in 0 .. MaxBegins /\ 0 \in 0 .. MaxDisconnects
          /\ 0 \in 0 .. MaxDrops /\ 0 \in 0 .. 0 /\ 0 \in Nat
      BY GenType, LifecycleAssumption
    <3>2. /\ epoch \in 0 .. LastEpoch /\ claimed \in BOOLEAN /\ awaiting \in BOOLEAN
          /\ status \in {"Disconnected", "Connected"} /\ remembered \in BOOLEAN
          /\ gaveUp \subseteq Gen /\ stray \in BOOLEAN /\ torn \in BOOLEAN
          /\ ended \in 0 .. epoch /\ drops \in 0 .. MaxDrops
          /\ begins \in 0 .. MaxBegins /\ disconnects \in 0 .. MaxDisconnects
          /\ fence \in Nat /\ writer \in Gen \cup {Host}
      BY <3>1 DEF Init
    <3>3. phase \in [kind : {"Idle", "Connecting", "Connected", "Disconnecting"},
                     epoch : 0 .. epoch]
      BY <3>1 DEF Init
    <3>4. host \in [pc : HostPc, call : {"none", "connect", "select"},
                    gen : 0 .. epoch, owner : BOOLEAN]
      BY <2>4, <3>1 DEF HostPc
    <3>5. worker \in [pc : WorkerPc, job : Message, owner : BOOLEAN]
      BY <2>1 DEF Init, WorkerPc
    <3>6. mailbox \in Seq(Message) /\ \A i \in 1 .. Len(mailbox) : mailbox[i].gen <= epoch
      BY <2>4
    <3> QED BY <2>3, <3>2, <3>3, <3>4, <3>5, <3>6 DEF TypeOK, FunctionTypes
  <2>6. JobInv /\ HostInv /\ EpochBound
    BY <2>1, <2>4 DEF JobInv, Job, HostInv, Idle, Connecting, Draining, EpochBound, Due, One,
       ClaimUnderWay
  <2> QED BY <2>2, <2>4, <2>5, <2>6 DEF Struct
<1>2. Struct /\ FenceInv' /\ [Next]_vars => Struct'
  <2> SUFFICES ASSUME Struct, FenceInv', [Next]_vars PROVE Struct'
    OBVIOUS
  <2>1. FunctionTypes'
    BY FunctionTypeStep DEF FunctionTypes, Struct, TypeOK
  <2>2. MailOK(mailbox', epoch')
    BY MailStep
  <2>3. mailbox' \in Seq(Message) /\ \A i \in 1 .. Len(mailbox') : mailbox'[i].gen <= epoch'
    BY <2>2 DEF MailOK, MessageOK
  <2>4. TypeOK'
    BY <2>1, <2>3, EpochType, HostTypeStep, WorkerTypeStep, PhaseTypeStep,
       ScalarTypeStep, HistoryTypeStep DEF FunctionTypes, FenceInv, TypeOK
  <2> QED BY <2>2, <2>4, JobStep, HostTypeStep, EpochStep DEF Struct
<1> QED BY <1>1, <1>2, FenceHolds, PTL DEF Spec

(* The type invariant alone, which the runs check.                         *)
THEOREM TypeCorrect == Spec => []TypeOK
BY StructHolds, PTL DEF Struct

-----------------------------------------------------------------------------
(* No attempt that was ended, nor an older one, is current again; and the  *)
(* attempt the worker connects is younger than the last one that ended.    *)
EndedInv ==
  /\ epoch > 0 => ended < epoch
  /\ worker.pc \in Connecting => ended < Job.gen

(* Every step keeps the attempts that ended below those that may connect.  *)
LEMMA EndedStep == Struct /\ Struct' /\ EndedInv /\ [Next]_vars => EndedInv'
<1> SUFFICES ASSUME Struct, Struct', EndedInv, [Next]_vars PROVE EndedInv'
  OBVIOUS
<1>1. /\ epoch \in Nat /\ epoch' \in Nat /\ epoch <= epoch' /\ ended \in Nat /\ ended <= epoch
      /\ ended' \in Nat /\ ended' <= epoch' /\ Job.gen \in Nat /\ Job.gen <= epoch
  <2>1. epoch \in Nat /\ ended \in 0 .. epoch /\ Job.gen \in Nat /\ Job.gen <= epoch
    BY DEF Struct, TypeOK, JobInv, MessageOK, Message
  <2>2. epoch' \in Nat /\ epoch <= epoch' /\ ended' \in 0 .. epoch'
    BY EpochGrows, HistoryTypeStep
  <2> QED BY <2>1, <2>2
<1>2. ASSUME ended' = ended, worker'.pc \in Connecting => worker.pc \in Connecting,
             worker'.job = Job \/ worker'.pc \notin Connecting
      PROVE  EndedInv'
  BY <1>1, <1>2 DEF EndedInv, Job
<1>3. CASE worker' = Idle /\ ended' = ended
  BY <1>2, <1>3 DEF Idle, Connecting
<1>4. CASE UNCHANGED <<worker, ended>>
  BY <1>2, <1>4 DEF Job
<1>5. CASE Receive
  <2>1. mailbox # <<>> /\ MessageOK(Head(mailbox), epoch) /\ epoch' = epoch /\ ended' = ended
    BY <1>1, <1>5, MailTail DEF Receive, Struct, fenceVars, historyVars
  <2> DEFINE m == Head(mailbox)
             start == [Connect |-> "open", Disconnect |-> "drain", Drop |-> "dropClaim"]
  <2>2. CASE worker' # Idle /\ m.type = "Connect"
    <3>1. m.gen = epoch /\ worker'.job = m
      BY <1>5, <2>2 DEF Receive, IsCurrent
    <3>2. m.gen > 0
      BY <2>1, <2>2 DEF MessageOK
    <3> QED BY <1>1, <2>1, <3>1, <3>2 DEF EndedInv, Job
  <2>3. CASE worker' # Idle /\ m.type # "Connect"
    <3>1. worker'.pc = start[m.type] /\ m.type \in {"Disconnect", "Drop"}
      BY <1>5, <2>1, <2>3 DEF Receive, MessageOK, Message
    <3>2. worker'.pc \notin Connecting
      BY <3>1 DEF Connecting
    <3> QED BY <1>1, <1>2, <2>1, <3>2
  <2> QED BY <1>3, <2>1, <2>2, <2>3
<1>6. CASE DropBump
  <2>1. worker'.pc \notin Connecting
    BY <1>6 DEF DropBump, WorkerAt, Idle, Connecting, Struct, TypeOK
  <2>2. CASE worker.owner
    BY <1>1, <1>6, <2>1, <2>2 DEF DropBump, EndedInv
  <2>3. CASE ~worker.owner
    BY <1>2, <1>6, <2>1, <2>3 DEF DropBump
  <2> QED BY <2>2, <2>3
<1>7. CASE DrainTell
  <2>1. worker'.pc \notin Connecting /\ epoch' = epoch
    BY <1>7 DEF DrainTell, WorkerAt, Idle, Connecting, Struct, TypeOK, fenceVars
  <2>2. ended' = Job.gen - 1 \/ ended' = ended
    BY <1>7 DEF DrainTell
  <2> QED BY <1>1, <1>2, <2>1, <2>2 DEF EndedInv
<1>8. CASE Worker
  <2>1. CASE DropClaim
    BY <1>2, <1>3, <2>1 DEF DropClaim, WorkerAt, WorkerGoes, Job, Connecting,
       historyVars, Struct, TypeOK
  <2>2. CASE DropEnd
    BY <1>2, <1>3, <2>2 DEF DropEnd, WorkerAt, WorkerGoes, Job, Connecting, Fail,
       historyVars, Struct, TypeOK
  <2>3. CASE Drain
    BY <1>2, <1>3, <2>3 DEF Drain, WorkerAt, WorkerGoes, Job, Connecting, Fail,
       historyVars, Struct, TypeOK
  <2>4. CASE CloseWriter("drainClose", "drainTell")
    BY <1>2, <1>3, <2>4 DEF CloseWriter, WorkerAt, WorkerGoes, Job, Connecting, Fail,
       historyVars, Struct, TypeOK
  <2>5. CASE DrainEnd
    BY <1>2, <1>3, <2>5 DEF DrainEnd, WorkerAt, WorkerGoes, Job, Connecting, Fail,
       historyVars, Struct, TypeOK
  <2>6. CASE Open
    BY <1>2, <1>3, <2>6 DEF Open, WorkerAt, WorkerGoes, Job, Connecting, Fail,
       historyVars, Struct, TypeOK
  <2>7. CASE WaitAnswer
    BY <1>2, <1>3, <2>7 DEF WaitAnswer, WorkerAt, WorkerGoes, Job, Connecting, Fail,
       historyVars, Struct, TypeOK
  <2>8. CASE WaitSuperseded
    BY <1>2, <1>3, <2>8 DEF WaitSuperseded, WorkerAt, WorkerGoes, Job, Connecting, Fail,
       historyVars, Struct, TypeOK
  <2>9. CASE WaitDeadline
    BY <1>2, <1>3, <2>9 DEF WaitDeadline, WorkerAt, WorkerGoes, Job, Connecting, Fail,
       historyVars, Struct, TypeOK
  <2>10. CASE Step("init", "identify")
    BY <1>2, <1>3, <2>10 DEF Step, WorkerAt, WorkerGoes, Job, Connecting, Fail,
       historyVars, Struct, TypeOK
  <2>11. CASE InitFails
    BY <1>2, <1>3, <2>11 DEF InitFails, WorkerAt, WorkerGoes, Job, Connecting, Fail,
       historyVars, Struct, TypeOK
  <2>12. CASE Step("identify", "commit")
    BY <1>2, <1>3, <2>12 DEF Step, WorkerAt, WorkerGoes, Job, Connecting, Fail,
       historyVars, Struct, TypeOK
  <2>13. CASE IdentifyFails
    BY <1>2, <1>3, <2>13 DEF IdentifyFails, WorkerAt, WorkerGoes, Job, Connecting, Fail,
       historyVars, Struct, TypeOK
  <2>14. CASE Commit
    BY <1>2, <1>3, <2>14 DEF Commit, WorkerAt, WorkerGoes, Job, Connecting, Fail,
       historyVars, Struct, TypeOK
  <2>15. CASE Connected
    BY <1>2, <1>3, <2>15 DEF Connected, WorkerAt, WorkerGoes, Job, Connecting, Fail,
       historyVars, Struct, TypeOK
  <2>16. CASE Abandon
    BY <1>2, <1>3, <2>16 DEF Abandon, WorkerAt, WorkerGoes, Job, Connecting, Fail,
       historyVars, Struct, TypeOK
  <2>17. CASE Abandoned
    BY <1>2, <1>3, <2>17 DEF Abandoned, WorkerAt, WorkerGoes, Job, Connecting, Fail,
       historyVars, Struct, TypeOK
  <2>18. CASE FailClaim
    BY <1>2, <1>3, <2>18 DEF FailClaim, WorkerAt, WorkerGoes, Job, Connecting, Fail,
       historyVars, Struct, TypeOK
  <2>19. CASE FailBump
    BY <1>2, <1>3, <2>19 DEF FailBump, WorkerAt, WorkerGoes, Job, Connecting, Fail,
       historyVars, Struct, TypeOK
  <2>20. CASE CloseWriter("failClose", "failTell")
    BY <1>2, <1>3, <2>20 DEF CloseWriter, WorkerAt, WorkerGoes, Job, Connecting, Fail,
       historyVars, Struct, TypeOK
  <2>21. CASE FailTell
    BY <1>2, <1>3, <2>21 DEF FailTell, WorkerAt, WorkerGoes, Job, Connecting, Fail,
       historyVars, Struct, TypeOK
  <2> QED BY <1>5, <1>6, <1>7, <1>8, <2>1, <2>2, <2>3, <2>4, <2>5, <2>6, <2>7, <2>8,
     <2>9, <2>10, <2>11, <2>12, <2>13, <2>14, <2>15, <2>16, <2>17, <2>18, <2>19, <2>20,
     <2>21 DEF Worker
<1>9. CASE HostCall \/ HostStep
  BY <1>4, <1>9 DEF HostCall, HostStep, ConnectToController, SelectConnector,
     DisconnectClaim, SelectBegin, BeginBump, BeginPhase, InitiateConnection,
     DisconnectBump, DisconnectPhase, DisconnectEnqueue, historyVars
<1>10. ASSUME NEW g \in Gen, Discovery(g) \/ Platform(g) PROVE UNCHANGED <<worker, ended>>
  BY <1>10 DEF Discovery, Platform, DiscoveryRound, DiscoveryEmpty, DiscoveryPicker,
     OpenFails, OpenUp, Install, OpenTell, LinkDrops, DropWriter, DropTell,
     platformOnly, historyVars
<1> QED BY <1>4, <1>8, <1>9, <1>10 DEF Next, vars

(* A CONNECTED is only ever said by the commit of the worker's job.        *)
LEMMA ToldByCommit ==
  ASSUME Struct, [Next]_vars, NEW g \in Gen, told[g] # "connected", told'[g] = "connected"
  PROVE  worker.pc \in Connecting /\ g = Job.gen
<1>1. told \in [Gen -> {"nothing", "connected", "failed"}]
  BY DEF Struct, TypeOK
<1>2. told' # told
  OBVIOUS
<1>3. ASSUME NEW h, told' = [told EXCEPT ![h] = "failed"] PROVE FALSE
  BY <1>1, <1>3
<1>4. Commit
  <2>1. CASE Worker
    BY <1>2, <1>3, <2>1 DEF Worker, Receive, DropClaim, DropBump, DropEnd, Drain,
       CloseWriter, DrainTell, DrainEnd, Open, WaitAnswer, WaitSuperseded, WaitDeadline,
       Step, InitFails, IdentifyFails, Connected, Abandon, Abandoned, FailClaim,
       FailBump, FailTell, Fail, historyVars
  <2>2. CASE HostCall \/ HostStep
    BY <1>2, <2>2 DEF HostCall, HostStep, ConnectToController, SelectConnector,
       DisconnectClaim, SelectBegin, BeginBump, BeginPhase, InitiateConnection,
       DisconnectBump, DisconnectPhase, DisconnectEnqueue, historyVars
  <2>3. ASSUME NEW h \in Gen, Discovery(h) \/ Platform(h) PROVE FALSE
    BY <1>2, <1>3, <2>3 DEF Discovery, Platform, DiscoveryRound, DiscoveryEmpty,
       DiscoveryPicker, OpenFails, OpenUp, Install, OpenTell, LinkDrops, DropWriter,
       DropTell, platformOnly, historyVars
  <2> QED BY <1>2, <2>1, <2>2, <2>3 DEF Next, vars
<1> QED BY <1>1, <1>4 DEF Commit, WorkerAt, Connecting

(* An attempt whose DISCONNECTED the host was told, or an older one, is    *)
(* never said to be CONNECTED afterwards, whatever seconds connect_body    *)
(* spent in between and whoever won the claim.                             *)
THEOREM Unresurrected == Spec => NoResurrection
<1>1. Init => EndedInv
  BY DEF Init, EndedInv, Connecting
<1>2. Struct /\ EndedInv /\ [Next]_vars =>
        [\A g \in Gen : told[g] # "connected" /\ told'[g] = "connected" => g > ended]_vars
  <2> SUFFICES ASSUME Struct, EndedInv, [Next]_vars, NEW g \in Gen,
                      told[g] # "connected", told'[g] = "connected"
               PROVE  g > ended
    OBVIOUS
  <2>1. worker.pc \in Connecting /\ g = Job.gen
    BY ToldByCommit
  <2>2. ended \in Nat /\ Job.gen \in Nat /\ ended < Job.gen
    BY <2>1 DEF EndedInv, Struct, TypeOK, JobInv, MessageOK, Message
  <2> QED BY <2>1, <2>2
<1> QED BY <1>1, <1>2, EndedStep, StructHolds, PTL DEF Spec, NoResurrection

-----------------------------------------------------------------------------
(* A generation is opened once: its Connect is enqueued once, and its      *)
(* connect thread starts when the worker has taken that one message.       *)
IsConnect(s, i) == i \in 1 .. Len(s) /\ s[i].type = "Connect"
Queued(s, g) == \E i \in 1 .. Len(s) : IsConnect(s, i) /\ s[i].gen = g
Once(s) ==
  \A i, j \in 1 .. Len(s) :
    IsConnect(s, i) /\ IsConnect(s, j) /\ s[i].gen = s[j].gen => i = j

(* What an enqueued message adds to the Connects waiting.                  *)
LEMMA QueuedAppend ==
  ASSUME NEW s \in Seq(Message), NEW m \in Message
  PROVE  /\ m.type # "Connect" /\ Once(s) => Once(Append(s, m))
         /\ m.type = "Connect" /\ Once(s) /\ ~Queued(s, m.gen) => Once(Append(s, m))
         /\ \A g : Queued(Append(s, m), g) => Queued(s, g) \/ (m.type = "Connect" /\ g = m.gen)
<1> DEFINE t == Append(s, m)
<1>1. /\ Len(s) \in Nat /\ Len(t) = Len(s) + 1 /\ t[Len(s) + 1] = m
      /\ \A i \in 1 .. Len(s) : t[i] = s[i]
      /\ \A i \in 1 .. Len(t) : i \in 1 .. Len(s) \/ i = Len(s) + 1
  OBVIOUS
<1> HIDE DEF t
<1>2. \A i \in 1 .. Len(t) : IsConnect(t, i) =>
        IsConnect(s, i) \/ (i = Len(s) + 1 /\ m.type = "Connect")
  BY <1>1 DEF IsConnect
<1>3. ASSUME NEW g, Queued(t, g) PROVE Queued(s, g) \/ (m.type = "Connect" /\ g = m.gen)
  <2>1. PICK i \in 1 .. Len(t) : IsConnect(t, i) /\ t[i].gen = g
    BY <1>3 DEF Queued
  <2> QED BY <1>1, <1>2, <2>1 DEF Queued, IsConnect
<1>4. ASSUME Once(s), m.type # "Connect" PROVE Once(t)
  BY <1>1, <1>2, <1>4 DEF Once, IsConnect
<1>5. ASSUME Once(s), ~Queued(s, m.gen) PROVE Once(t)
  <2> SUFFICES ASSUME NEW i \in 1 .. Len(t), NEW j \in 1 .. Len(t),
                      IsConnect(t, i), IsConnect(t, j), t[i].gen = t[j].gen
               PROVE  i = j
    BY DEF Once
  <2>1. CASE IsConnect(s, i) /\ IsConnect(s, j)
    BY <1>1, <1>5, <2>1 DEF Once, IsConnect
  <2>2. IsConnect(s, i) => j # Len(s) + 1
    BY <1>1, <1>5 DEF Queued, IsConnect
  <2>3. IsConnect(s, j) => i # Len(s) + 1
    BY <1>1, <1>5 DEF Queued, IsConnect
  <2> QED BY <1>2, <2>1, <2>2, <2>3
<1> QED BY <1>3, <1>4, <1>5 DEF t

(* What a taken message removes from the Connects waiting.                 *)
LEMMA QueuedTail ==
  ASSUME NEW s \in Seq(Message), s # <<>>, Once(s)
  PROVE  /\ Once(Tail(s)) /\ \A g : Queued(Tail(s), g) => Queued(s, g)
         /\ Head(s).type = "Connect" =>
              Queued(s, Head(s).gen) /\ ~Queued(Tail(s), Head(s).gen)
<1> DEFINE t == Tail(s)
<1>1. /\ 1 \in 1 .. Len(s) /\ Head(s) = s[1] /\ Len(t) \in Nat
      /\ \A i \in 1 .. Len(t) : i \in Nat /\ i > 0 /\ i + 1 \in 1 .. Len(s) /\ t[i] = s[i + 1]
  OBVIOUS
<1> HIDE DEF t
<1>2. \A i \in 1 .. Len(t) : IsConnect(t, i) => IsConnect(s, i + 1)
  BY <1>1 DEF IsConnect
<1>3. Once(t)
  <2> SUFFICES ASSUME NEW i \in 1 .. Len(t), NEW j \in 1 .. Len(t),
                      IsConnect(t, i), IsConnect(t, j), t[i].gen = t[j].gen
               PROVE  i = j
    BY DEF Once
  <2>1. i + 1 = j + 1
    BY <1>1, <1>2 DEF Once
  <2> QED BY <1>1, <2>1
<1>4. \A g : Queued(t, g) => \E i \in 2 .. Len(s) : IsConnect(s, i) /\ s[i].gen = g
  <2> SUFFICES ASSUME NEW g, NEW i \in 1 .. Len(t), IsConnect(t, i), t[i].gen = g
               PROVE  i + 1 \in 2 .. Len(s) /\ IsConnect(s, i + 1) /\ s[i + 1].gen = g
    BY <1>1 DEF Queued
  <2> QED BY <1>1, <1>2
<1>5. \A g : Queued(t, g) => Queued(s, g)
  BY <1>4 DEF Queued
<1>6. Head(s).type = "Connect" => Queued(s, Head(s).gen) /\ ~Queued(t, Head(s).gen)
  BY <1>1, <1>4 DEF Queued, Once, IsConnect
<1> QED BY <1>3, <1>5, <1>6 DEF t

Sending == host.pc \in {"phase", "send"}    \* the host holds a Connect not yet enqueued

FreshInv ==
  /\ Once(mailbox)
  /\ \A g \in Gen : Queued(mailbox, g) \/ epoch < g => opener[g] = "none"
  /\ Sending => opener[host.gen] = "none" /\ ~Queued(mailbox, host.gen)
  /\ WorkerAt("open") => /\ opener[Job.gen] = "none" /\ ~Queued(mailbox, Job.gen)
                         /\ Sending => host.gen # Job.gen

(* The generations the threads hold are real, and not from the future.     *)
LEMMA GenFacts ==
  ASSUME Struct
  PROVE  /\ epoch \in Nat /\ mailbox \in Seq(Message) /\ Job \in Message
         /\ worker.pc \in Connecting => Job.gen \in Gen /\ Job.gen <= epoch
         /\ Sending => host.gen \in Gen /\ host.gen <= epoch
         /\ \A g : Queued(mailbox, g) => g \in Gen /\ g <= epoch
         /\ opener \in [Gen -> {"none", "opening", "up", "installed", "over"}]
<1>1. /\ epoch \in 0 .. LastEpoch /\ mailbox \in Seq(Message) /\ LastEpoch \in Nat
      /\ host.gen \in 0 .. epoch
  BY GenType DEF Struct, TypeOK
<1>2. \A m : MessageOK(m, epoch) /\ m.type = "Connect" => m.gen \in Gen /\ m.gen <= epoch
  BY <1>1 DEF MessageOK, Message, Gen
<1>3. worker.pc \in Connecting => Job.gen \in Gen /\ Job.gen <= epoch
  BY <1>2 DEF Struct, JobInv
<1>4. Sending => host.gen \in Gen /\ host.gen <= epoch
  BY <1>1 DEF Struct, HostInv, Sending, Gen
<1>5. \A g : Queued(mailbox, g) => g \in Gen /\ g <= epoch
  BY <1>2 DEF Struct, MailOK, Queued, IsConnect
<1> QED BY <1>1, <1>3, <1>4, <1>5 DEF Struct, TypeOK, JobInv, MessageOK

(* Every step keeps the generations that wait fresh.                       *)
LEMMA FreshStep == Struct /\ Struct' /\ FreshInv /\ [Next]_vars => FreshInv'
<1> SUFFICES ASSUME Struct, Struct', FreshInv, [Next]_vars PROVE FreshInv'
  OBVIOUS
<1>1. epoch \in Nat /\ epoch' \in Nat /\ epoch <= epoch'
  BY EpochGrows, GenFacts
\* The host and the worker hold what they held, or less.
<1> DEFINE HeldSame ==
             /\ Sending' => Sending /\ host'.gen = host.gen
             /\ worker'.pc = "open" => worker.pc = "open" /\ worker'.job = worker.job
           OpenSame == \A g \in Gen : opener[g] = "none" => opener'[g] = "none"
<1>2. ASSUME HeldSame, OpenSame, mailbox' = mailbox PROVE FreshInv'
  <2>1. Once(mailbox') /\ \A g : Queued(mailbox', g) <=> Queued(mailbox, g)
    BY <1>2 DEF FreshInv
  <2>2. \A g \in Gen : Queued(mailbox', g) \/ epoch' < g => opener'[g] = "none"
    <3> SUFFICES ASSUME NEW g \in Gen, Queued(mailbox', g) \/ epoch' < g
                 PROVE  opener[g] = "none"
      BY <1>2
    <3>1. g \in Nat
      BY GenType
    <3> QED BY <1>1, <2>1, <3>1 DEF FreshInv
  <2>3. Sending' => opener'[host'.gen] = "none" /\ ~Queued(mailbox', host'.gen)
    BY <1>2, <2>1, GenFacts DEF FreshInv
  <2>4. worker'.pc = "open" =>
          /\ opener'[worker'.job.gen] = "none" /\ ~Queued(mailbox', worker'.job.gen)
          /\ Sending' => host'.gen # worker'.job.gen
    BY <1>2, <2>1, GenFacts DEF FreshInv, WorkerAt, Job, Connecting
  <2> QED BY <2>1, <2>2, <2>3, <2>4 DEF FreshInv, WorkerAt, Job
<1>3. ASSUME NEW m \in Message, m.type # "Connect", mailbox' = Append(mailbox, m),
             HeldSame, OpenSame
      PROVE  FreshInv'
  <2>1. Once(mailbox') /\ \A g : Queued(mailbox', g) => Queued(mailbox, g)
    BY <1>3, QueuedAppend, GenFacts DEF FreshInv
  <2>2. \A g \in Gen : Queued(mailbox', g) \/ epoch' < g => opener'[g] = "none"
    <3> SUFFICES ASSUME NEW g \in Gen, Queued(mailbox', g) \/ epoch' < g
                 PROVE  opener[g] = "none"
      BY <1>3
    <3>1. g \in Nat
      BY GenType
    <3> QED BY <1>1, <2>1, <3>1 DEF FreshInv
  <2>3. Sending' => opener'[host'.gen] = "none" /\ ~Queued(mailbox', host'.gen)
    BY <1>3, <2>1, GenFacts DEF FreshInv
  <2>4. worker'.pc = "open" =>
          /\ opener'[worker'.job.gen] = "none" /\ ~Queued(mailbox', worker'.job.gen)
          /\ Sending' => host'.gen # worker'.job.gen
    BY <1>3, <2>1, GenFacts DEF FreshInv, WorkerAt, Job, Connecting
  <2> QED BY <2>1, <2>2, <2>3, <2>4 DEF FreshInv, WorkerAt, Job
<1>4. ASSUME NEW own \in BOOLEAN, TellDisconnected(own), HeldSame, OpenSame PROVE FreshInv'
  <2>1. Drop(remembered, own) \in Message /\ Drop(remembered, own).type # "Connect"
    BY GenType DEF Drop, Message, Struct, TypeOK
  <2> QED BY <1>3, <1>4, <2>1 DEF TellDisconnected, Send
\* The host: a new generation, and its Connect.
<1>5. CASE BeginBump
  <2>1. /\ epoch' = epoch + 1 /\ host'.gen = epoch + 1
        /\ UNCHANGED <<mailbox, opener, worker>>
    BY <1>5 DEF BeginBump, platformVars, Struct, TypeOK
  <2>2. epoch + 1 \in Gen
    BY <1>1, <2>1 DEF Struct, TypeOK, Gen
  <2>3. ~Queued(mailbox, epoch + 1) /\ opener[epoch + 1] = "none"
    BY <1>1, <2>2, GenFacts DEF FreshInv
  <2>4. worker.pc = "open" => Job.gen # epoch + 1
    BY <1>1, GenFacts DEF Connecting
  <2>5. \A g \in Gen : Queued(mailbox', g) \/ epoch' < g => opener'[g] = "none"
    BY <1>1, <2>1, GenType DEF FreshInv
  <2> QED BY <2>1, <2>3, <2>4, <2>5 DEF FreshInv, WorkerAt, Job
<1>6. CASE InitiateConnection
  <2> DEFINE m == Connect(host.gen)
  <2>1. /\ mailbox' = Append(mailbox, m) /\ ~Sending' /\ Sending
        /\ UNCHANGED <<epoch, opener, worker>>
    BY <1>6 DEF InitiateConnection, Send, HostAt, HostGoes, Sending, fenceVars,
       platformVars, Struct, TypeOK
  <2>2. m \in Message /\ m.type = "Connect" /\ m.gen = host.gen
    <3>1. host.gen \in 0 .. LastEpoch
      BY <2>1, GenFacts, GenType DEF Gen
    <3> QED BY <3>1 DEF Connect, Message
  <2> HIDE DEF m
  <2>3. Once(mailbox') /\ \A g : Queued(mailbox', g) => Queued(mailbox, g) \/ g = host.gen
    BY <2>1, <2>2, QueuedAppend, GenFacts DEF FreshInv
  <2>4. \A g \in Gen : Queued(mailbox', g) \/ epoch' < g => opener'[g] = "none"
    BY <2>1, <2>3 DEF FreshInv
  <2>5. worker'.pc = "open" =>
          opener'[worker'.job.gen] = "none" /\ ~Queued(mailbox', worker'.job.gen)
    BY <2>1, <2>3 DEF FreshInv, WorkerAt, Job
  <2> QED BY <2>1, <2>3, <2>4, <2>5 DEF FreshInv, WorkerAt, Job
<1>7. CASE DisconnectEnqueue
  <2>1. Disconnect(host.gen, host.owner) \in Message
    <3>1. epoch \in 0 .. LastEpoch /\ host.gen \in 0 .. epoch /\ host.owner \in BOOLEAN
      BY DEF Struct, TypeOK
    <3> QED BY <3>1, GenType DEF Disconnect, Message
  <2>2. Disconnect(host.gen, host.owner).type # "Connect"
    BY DEF Disconnect
  <2>3. HeldSame /\ OpenSame
    BY <1>7 DEF DisconnectEnqueue, HostGoes, Sending, platformVars, Struct, TypeOK
  <2> QED BY <1>3, <1>7, <2>1, <2>2, <2>3 DEF DisconnectEnqueue, Send
<1>8. CASE HostCall \/ HostStep
  <2>1. CASE ConnectToController \/ SelectConnector \/ SelectBegin \/ DisconnectClaim
    <3>1. mailbox' = mailbox /\ OpenSame /\ worker' = worker
      BY <2>1 DEF ConnectToController, SelectConnector, SelectBegin, DisconnectClaim,
         platformVars
    <3>2. host'.pc \in {"bump", "clear", "claimed"}
      <4>1. CASE ConnectToController \/ SelectBegin
        <5>1. PICK c : host' = [host EXCEPT !.pc = "bump", !.call = c]
          BY <4>1 DEF ConnectToController, SelectBegin, BeginClear
        <5> QED BY <5>1 DEF Struct, TypeOK
      <4>2. CASE SelectConnector
        BY <4>2 DEF SelectConnector, HostGoes, Struct, TypeOK
      <4>3. CASE DisconnectClaim
        BY <4>3 DEF DisconnectClaim, Struct, TypeOK
      <4> QED BY <2>1, <4>1, <4>2, <4>3
    <3> QED BY <1>2, <3>1, <3>2 DEF Sending
  <2>2. CASE DisconnectBump \/ DisconnectPhase
    <3>1. mailbox' = mailbox /\ OpenSame /\ worker' = worker
      BY <2>2 DEF DisconnectBump, DisconnectPhase, platformVars
    <3>2. host'.pc \in {"disconnecting", "enqueue"}
      <4>1. CASE DisconnectBump
        BY <4>1 DEF DisconnectBump, Struct, TypeOK
      <4>2. CASE DisconnectPhase
        BY <4>2 DEF DisconnectPhase, HostGoes, Struct, TypeOK
      <4> QED BY <2>2, <4>1, <4>2
    <3> QED BY <1>2, <3>1, <3>2 DEF Sending
  <2>3. CASE BeginPhase
    <3>1. mailbox' = mailbox /\ OpenSame /\ worker' = worker /\ Sending
      BY <2>3 DEF BeginPhase, HostAt, Sending, platformVars
    <3>2. host'.gen = host.gen
      BY <2>3 DEF BeginPhase, HostGoes, Struct, TypeOK
    <3> QED BY <1>2, <3>1, <3>2
  <2> QED BY <1>5, <1>6, <1>7, <1>8, <2>1, <2>2, <2>3 DEF HostCall, HostStep
\* The worker: it takes the message, then starts the thread.
<1>9. CASE Receive
  <2>1. /\ mailbox # <<>> /\ mailbox' = Tail(mailbox) /\ UNCHANGED <<epoch, opener, host>>
        /\ worker'.pc = "open" =>
             worker'.job = Head(mailbox) /\ Head(mailbox).type = "Connect"
    <3>1. /\ mailbox # <<>> /\ mailbox' = Tail(mailbox) /\ UNCHANGED <<epoch, opener, host>>
      BY <1>9 DEF Receive, fenceVars, platformVars
    <3>2. Head(mailbox) \in Message
      BY <3>1, GenFacts
    <3>3. worker'.pc = "open" => worker'.job = Head(mailbox)
      BY <1>9 DEF Receive, Idle
    <3>4. worker'.pc = "open" => Head(mailbox).type = "Connect"
      BY <1>9, <3>2 DEF Receive, Idle, Message
    <3> QED BY <3>1, <3>3, <3>4
  <2>2. /\ Once(mailbox') /\ \A g : Queued(mailbox', g) => Queued(mailbox, g)
        /\ Head(mailbox).type = "Connect" =>
             Queued(mailbox, Head(mailbox).gen) /\ ~Queued(mailbox', Head(mailbox).gen)
    BY <2>1, QueuedTail, GenFacts DEF FreshInv
  <2>3. worker'.pc = "open" =>
          /\ opener'[worker'.job.gen] = "none" /\ ~Queued(mailbox', worker'.job.gen)
          /\ Sending' => host'.gen # worker'.job.gen
    BY <2>1, <2>2, GenFacts DEF FreshInv, Sending
  <2>4. Sending' => opener'[host'.gen] = "none" /\ ~Queued(mailbox', host'.gen)
    BY <2>1, <2>2 DEF FreshInv, Sending
  <2> QED BY <2>1, <2>2, <2>3, <2>4 DEF FreshInv, WorkerAt, Job
<1>10. CASE Open
  <2>1. /\ worker.pc = "open" /\ worker'.pc = "wait"
        /\ opener' = [opener EXCEPT ![Job.gen] = "opening"]
        /\ UNCHANGED <<epoch, mailbox, host>>
    BY <1>10 DEF Open, WorkerAt, WorkerGoes, fenceVars, Struct, TypeOK
  <2>2. \A g \in Gen : g # Job.gen => opener'[g] = opener[g]
    BY <2>1, GenFacts
  <2>3. \A g \in Gen : Queued(mailbox', g) \/ epoch' < g => opener'[g] = "none"
    <3>1. Job.gen \in Nat /\ Job.gen <= epoch /\ ~Queued(mailbox, Job.gen)
      BY <1>1, <2>1, GenFacts, GenType DEF FreshInv, WorkerAt, Connecting
    <3> QED BY <1>1, <2>1, <2>2, <3>1, GenType DEF FreshInv
  <2>4. Sending' => opener'[host'.gen] = "none" /\ ~Queued(mailbox', host'.gen)
    BY <2>1, <2>2, GenFacts DEF FreshInv, WorkerAt, Sending
  <2> QED BY <2>1, <2>3, <2>4 DEF FreshInv, WorkerAt
<1>11. CASE Worker
  <2>1. CASE DrainTell \/ FailTell
    <3>1. TellDisconnected(TRUE) /\ OpenSame /\ host' = host
      BY <2>1 DEF DrainTell, FailTell
    <3>2. worker'.pc # "open"
      <4>1. worker' \in {Idle, [worker EXCEPT !.pc = "drainEnd"]}
        BY <2>1 DEF DrainTell, FailTell
      <4> QED BY <4>1 DEF Idle, Struct, TypeOK
    <3> QED BY <1>4, <3>1, <3>2 DEF Sending
  <2>2. CASE DropClaim
    BY <1>2, <2>2 DEF DropClaim, WorkerGoes, Idle, Sending, platformVars, Struct, TypeOK
  <2>3. CASE DropBump
    BY <1>2, <2>3 DEF DropBump, WorkerGoes, Idle, Fail, Sending, platformVars, Struct,
       TypeOK
  <2>4. CASE DropEnd
    BY <1>2, <2>4 DEF DropEnd, WorkerGoes, Idle, Fail, Sending, platformVars, Struct, TypeOK
  <2>5. CASE Drain
    BY <1>2, <2>5 DEF Drain, WorkerGoes, Idle, Fail, Sending, platformVars, Struct, TypeOK
  <2>6. CASE CloseWriter("drainClose", "drainTell")
    BY <1>2, <2>6 DEF CloseWriter, WorkerGoes, Idle, Fail, Sending, platformVars,
       Struct, TypeOK
  <2>7. CASE DrainEnd
    BY <1>2, <2>7 DEF DrainEnd, WorkerGoes, Idle, Fail, Sending, platformVars, Struct,
       TypeOK
  <2>8. CASE WaitAnswer
    BY <1>2, <2>8 DEF WaitAnswer, WorkerGoes, Idle, Fail, Sending, platformVars, Struct,
       TypeOK
  <2>9. CASE WaitSuperseded
    BY <1>2, <2>9 DEF WaitSuperseded, WorkerGoes, Idle, Fail, Sending, platformVars,
       Struct, TypeOK
  <2>10. CASE WaitDeadline
    BY <1>2, <2>10 DEF WaitDeadline, WorkerGoes, Idle, Fail, Sending, platformVars,
       Struct, TypeOK
  <2>11. CASE Step("init", "identify")
    BY <1>2, <2>11 DEF Step, WorkerGoes, Idle, Fail, Sending, platformVars, Struct, TypeOK
  <2>12. CASE InitFails
    BY <1>2, <2>12 DEF InitFails, WorkerGoes, Idle, Fail, Sending, platformVars, Struct,
       TypeOK
  <2>13. CASE Step("identify", "commit")
    BY <1>2, <2>13 DEF Step, WorkerGoes, Idle, Fail, Sending, platformVars, Struct, TypeOK
  <2>14. CASE IdentifyFails
    BY <1>2, <2>14 DEF IdentifyFails, WorkerGoes, Idle, Fail, Sending, platformVars,
       Struct, TypeOK
  <2>15. CASE Commit
    BY <1>2, <2>15 DEF Commit, WorkerGoes, Idle, Fail, Sending, platformVars, Struct, TypeOK
  <2>16. CASE Connected
    BY <1>2, <2>16 DEF Connected, WorkerGoes, Idle, Fail, Sending, platformVars, Struct,
       TypeOK
  <2>17. CASE Abandon
    BY <1>2, <2>17 DEF Abandon, WorkerGoes, Idle, Fail, Sending, platformVars, Struct,
       TypeOK
  <2>18. CASE Abandoned
    BY <1>2, <2>18 DEF Abandoned, WorkerGoes, Idle, Fail, Sending, platformVars, Struct,
       TypeOK
  <2>19. CASE FailClaim
    BY <1>2, <2>19 DEF FailClaim, WorkerGoes, Idle, Fail, Sending, platformVars, Struct,
       TypeOK
  <2>20. CASE FailBump
    BY <1>2, <2>20 DEF FailBump, WorkerGoes, Idle, Fail, Sending, platformVars, Struct,
       TypeOK
  <2>21. CASE CloseWriter("failClose", "failTell")
    BY <1>2, <2>21 DEF CloseWriter, WorkerGoes, Idle, Fail, Sending, platformVars,
       Struct, TypeOK
  <2> QED BY <1>9, <1>10, <1>11, <2>1, <2>2, <2>3, <2>4, <2>5, <2>6, <2>7, <2>8, <2>9,
     <2>10, <2>11, <2>12, <2>13, <2>14, <2>15, <2>16, <2>17, <2>18, <2>19, <2>20, <2>21
     DEF Worker
\* The platform's threads.
<1>12. ASSUME NEW g \in Gen, Discovery(g) \/ Platform(g) PROVE FreshInv'
  <2>1. /\ UNCHANGED <<host, worker>>
        /\ mailbox' = mailbox \/ TellDisconnected(FALSE)
    BY <1>12 DEF Discovery, Platform, DiscoveryRound, DiscoveryEmpty, DiscoveryPicker,
       OpenFails, OpenUp, Install, OpenTell, LinkDrops, DropWriter, DropTell,
       platformOnly
  <2>2. OpenSame
    <3>1. opener' = opener \/ (opener[g] # "none" /\ \E x : opener' = [opener EXCEPT ![g] = x])
      BY <1>12 DEF Discovery, Platform, DiscoveryRound, DiscoveryEmpty, DiscoveryPicker,
         OpenFails, OpenUp, Install, OpenTell, LinkDrops, DropWriter, DropTell,
         platformOnly, platformVars
    <3> QED BY <3>1, GenFacts
  <2> QED BY <1>2, <1>4, <2>1, <2>2 DEF Sending
<1>13. CASE UNCHANGED vars
  BY <1>2, <1>13 DEF vars, Sending
<1> QED BY <1>8, <1>11, <1>12, <1>13 DEF Next

-----------------------------------------------------------------------------
(* Who answers for a link.  Waiting: the connect thread of the worker's    *)
(* job may still run, and it is the only one asked under the present       *)
(* fence.  Trying: the link of the worker's job, once it is out of its     *)
(* thread's hands, is the writer.  Leaving: the fence has just moved.      *)
Waiting == {"wait", "abandon", "failClaim", "failBump", "failClose"}
Trying  == Waiting \cup {"init", "identify", "commit", "connected"}
Leaving == {"abandoned", "failTell"}

GivenUp(g) == g \in gaveUp \/ (worker.pc \in Leaving /\ g = Job.gen)

AnswerInv ==
  \A g \in Gen : /\ result[g] # "none" => opener[g] = "over"
                 /\ opener[g] \in {"none", "opening"} => link[g] = "none"

ThreadInv ==
  \A g \in Gen :
    opener[g] \in {"opening", "up", "installed"} /\ asked[g] = fence =>
      worker.pc \in Waiting /\ Job.gen = g

OwnerInv ==
  worker.pc \in Trying =>
    /\ opener[Job.gen] # "none"
    /\ link[Job.gen] = "up" /\ opener[Job.gen] # "up" => writer = Job.gen \/ stray

ClosedInv ==
  \A g \in Gen :
    GivenUp(g) =>
      /\ opener[g] # "none" /\ asked[g] < fence
      /\ link[g] = "up" => opener[g] = "up" \/ stray

LinkInv == AnswerInv /\ ThreadInv /\ OwnerInv /\ ClosedInv

linkVars == <<opener, link, writer, fence, asked, result, stray>>

(* The answer comes from the end of the connect thread, and a link only    *)
(* from an open that came up.                                              *)
LEMMA AnswerStep == Struct /\ FreshInv /\ AnswerInv /\ [Next]_vars => AnswerInv'
<1> SUFFICES ASSUME Struct, FreshInv, AnswerInv, [Next]_vars PROVE AnswerInv'
  OBVIOUS
<1>1. /\ opener \in [Gen -> {"none", "opening", "up", "installed", "over"}]
      /\ result \in [Gen -> {"none", "Connected", "Failed"}]
      /\ link \in [Gen -> {"none", "up", "closed", "dropping", "dropped", "down"}]
  BY DEF Struct, TypeOK
<1>2. CASE UNCHANGED <<opener, result, link>>
  BY <1>2 DEF AnswerInv
<1>3. CASE TakeWriter /\ UNCHANGED <<opener, result>>
  BY <1>1, <1>3 DEF TakeWriter, AnswerInv
<1>4. CASE Open
  <2>1. /\ opener' = [opener EXCEPT ![Job.gen] = "opening"] /\ opener[Job.gen] = "none"
        /\ UNCHANGED <<result, link>>
    BY <1>4 DEF Open, FreshInv
  <2> QED BY <1>1, <2>1 DEF AnswerInv
<1>5. CASE HostCall \/ HostStep
  BY <1>2, <1>5 DEF HostCall, HostStep, ConnectToController, SelectConnector,
     DisconnectClaim, SelectBegin, BeginBump, BeginPhase, InitiateConnection,
     DisconnectBump, DisconnectPhase, DisconnectEnqueue, platformVars
<1>6. CASE Worker
  BY <1>2, <1>3, <1>4, <1>6 DEF Worker, Receive, DropClaim, DropBump, DropEnd, Drain,
     CloseWriter, DrainTell, DrainEnd, WaitAnswer, WaitSuperseded, WaitDeadline, Step,
     InitFails, IdentifyFails, Commit, Connected, Abandon, Abandoned, FailClaim,
     FailBump, FailTell, platformVars
<1>7. ASSUME NEW g \in Gen, Discovery(g) PROVE AnswerInv'
  BY <1>2, <1>7 DEF Discovery, DiscoveryRound, DiscoveryEmpty, DiscoveryPicker, platformVars
<1>8. ASSUME NEW g \in Gen, Platform(g) PROVE AnswerInv'
  BY <1>1, <1>8 DEF Platform, OpenFails, OpenUp, Install, OpenTell, LinkDrops,
     DropWriter, DropTell, AnswerInv
<1> QED BY <1>2, <1>5, <1>6, <1>7, <1>8 DEF Next, vars

(* Every step leaves somebody to answer for each link.                     *)
LEMMA LinkStep ==
  Struct /\ Struct' /\ FreshInv /\ LinkInv /\ AnswerInv' /\ [Next]_vars => LinkInv'
<1> SUFFICES ASSUME Struct, Struct', FreshInv, LinkInv, AnswerInv', [Next]_vars
             PROVE  LinkInv'
  OBVIOUS
<1>1. /\ opener \in [Gen -> {"none", "opening", "up", "installed", "over"}]
      /\ result \in [Gen -> {"none", "Connected", "Failed"}]
      /\ link \in [Gen -> {"none", "up", "closed", "dropping", "dropped", "down"}]
      /\ fence \in Nat /\ asked \in [Gen -> 0 .. fence] /\ writer \in Gen \cup {Host}
      /\ worker.pc \in Connecting => Job.gen \in Gen
  BY GenFacts DEF Struct, TypeOK
<1>2. Waiting \subseteq Trying /\ Trying \subseteq Connecting /\ Leaving \subseteq Connecting
      /\ Trying \cap Leaving = {} /\ "open" \in Connecting \ (Trying \cup Leaving)
  BY DEF Waiting, Trying, Leaving, Connecting
\* A step of the worker that leaves the links alone.
<1>3. ASSUME UNCHANGED <<linkVars, gaveUp>>,
             worker'.pc \in Trying => worker.pc \in Trying /\ worker'.job = Job,
             worker'.pc \in Leaving => worker.pc \in Leaving /\ worker'.job = Job,
             worker.pc \in Waiting =>
               (worker'.pc \in Waiting /\ worker'.job = Job) \/ opener[Job.gen] = "over"
      PROVE  LinkInv'
  <2>1. ThreadInv'
    BY <1>3 DEF LinkInv, ThreadInv, linkVars, Job
  <2>2. OwnerInv'
    BY <1>3 DEF LinkInv, OwnerInv, linkVars, Job
  <2>3. ClosedInv'
    BY <1>3 DEF LinkInv, ClosedInv, GivenUp, linkVars, Job
  <2> QED BY <2>1, <2>2, <2>3 DEF LinkInv
<1>4. CASE UNCHANGED <<linkVars, gaveUp, worker>>
  BY <1>3, <1>4 DEF Job, linkVars, LinkInv, ThreadInv, OwnerInv, ClosedInv, GivenUp
<1>5. CASE UNCHANGED <<linkVars, gaveUp>> /\ worker' = Idle /\ worker.pc \notin Waiting
  BY <1>3, <1>5 DEF Idle, Waiting, Trying, Leaving
\* The fence moves, and the writer is closed.
<1>6. ASSUME TakeWriter, UNCHANGED <<opener, asked, stray>>, worker'.pc \notin Trying,
             \A g \in Gen : GivenUp(g)' => GivenUp(g) \/ (worker.pc \in Trying /\ g = Job.gen)
      PROVE  LinkInv'
  <2>1. \A g \in Gen : asked[g] <= fence /\ asked[g] < fence' /\ asked'[g] # fence'
    BY <1>1, <1>6 DEF TakeWriter
  <2>2. \A g \in Gen : link'[g] = "up" => link[g] = "up" /\ g # writer
    BY <1>1, <1>6 DEF TakeWriter
  <2>3. ClosedInv'
    <3> SUFFICES ASSUME NEW g \in Gen, GivenUp(g)'
                 PROVE  /\ opener[g] # "none" /\ asked[g] < fence'
                        /\ link'[g] = "up" => opener[g] = "up" \/ stray
      BY <1>6 DEF ClosedInv
    <3>1. CASE GivenUp(g)
      BY <2>1, <2>2, <3>1 DEF LinkInv, ClosedInv
    <3>2. CASE worker.pc \in Trying /\ g = Job.gen
      BY <2>1, <2>2, <3>2 DEF LinkInv, OwnerInv
    <3> QED BY <1>6, <3>1, <3>2
  <2> QED BY <1>6, <2>1, <2>3 DEF LinkInv, ThreadInv, OwnerInv
<1>7. CASE CloseWriter("drainClose", "drainTell")
  <2>1. worker.pc = "drainClose" /\ worker'.pc = "drainTell" /\ gaveUp' = gaveUp
    BY <1>7 DEF CloseWriter, WorkerAt, WorkerGoes, historyVars, Struct, TypeOK
  <2> QED BY <1>6, <1>7, <2>1 DEF CloseWriter, GivenUp, Trying, Waiting, Leaving,
     historyVars
<1>8. CASE CloseWriter("failClose", "failTell")
  <2>1. /\ worker.pc = "failClose" /\ worker'.pc = "failTell" /\ worker'.job = Job
        /\ gaveUp' = gaveUp
    BY <1>8 DEF CloseWriter, WorkerAt, WorkerGoes, Job, historyVars, Struct, TypeOK
  <2>2. \A g \in Gen : GivenUp(g)' => GivenUp(g) \/ (worker.pc \in Trying /\ g = Job.gen)
    BY <2>1 DEF GivenUp, Trying, Waiting, Job
  <2> QED BY <1>6, <1>8, <2>1, <2>2 DEF CloseWriter, Trying, Waiting, historyVars
<1>9. CASE Abandon
  <2>1. worker.pc = "abandon"
    BY <1>9 DEF Abandon, WorkerAt
  <2>2. CASE writer = Host
    <3>1. worker' = Idle /\ gaveUp' = gaveUp \cup {Job.gen}
      BY <1>9, <2>2 DEF Abandon
    <3>2. \A g \in Gen : GivenUp(g)' => GivenUp(g) \/ (worker.pc \in Trying /\ g = Job.gen)
      BY <2>1, <3>1 DEF GivenUp, Idle, Leaving, Trying, Waiting
    <3> QED BY <1>6, <1>9, <3>1, <3>2 DEF Abandon, Idle, Trying, Waiting
  <2>3. CASE writer # Host
    <3>1. worker'.pc = "abandoned" /\ worker'.job = Job /\ gaveUp' = gaveUp
      BY <1>9, <2>3 DEF Abandon, WorkerGoes, Job, Struct, TypeOK
    <3>2. \A g \in Gen : GivenUp(g)' => GivenUp(g) \/ (worker.pc \in Trying /\ g = Job.gen)
      BY <2>1, <3>1 DEF GivenUp, Trying, Waiting, Job
    <3> QED BY <1>6, <1>9, <3>1, <3>2 DEF Abandon, Trying, Waiting
  <2> QED BY <2>2, <2>3
<1>10. CASE Abandoned \/ FailTell
  <2>1. /\ worker.pc \in Leaving /\ worker' = Idle /\ gaveUp' = gaveUp \cup {Job.gen}
        /\ UNCHANGED linkVars
    BY <1>10 DEF Abandoned, FailTell, WorkerAt, Leaving, linkVars
  <2>2. worker.pc \notin Waiting /\ worker'.pc \notin Trying /\ worker'.pc \notin Leaving
    BY <1>2, <2>1 DEF Idle, Trying, Waiting, Leaving
  <2>3. \A g \in Gen : GivenUp(g)' => GivenUp(g)
    BY <2>1, <2>2 DEF GivenUp
  <2> QED BY <2>1, <2>2, <2>3 DEF LinkInv, ThreadInv, OwnerInv, ClosedInv, linkVars
<1>11. CASE Open
  <2>1. /\ worker.pc = "open" /\ worker'.pc = "wait" /\ worker'.job = Job
        /\ opener' = [opener EXCEPT ![Job.gen] = "opening"]
        /\ asked' = [asked EXCEPT ![Job.gen] = fence]
        /\ UNCHANGED <<fence, writer, link, result, gaveUp, stray>>
    BY <1>11 DEF Open, WorkerAt, WorkerGoes, Job, historyVars, Struct, TypeOK
  <2>2. Job.gen \in Gen /\ opener[Job.gen] = "none" /\ link[Job.gen] = "none"
    BY <1>1, <1>2, <2>1 DEF FreshInv, WorkerAt, LinkInv, AnswerInv
  <2>3. \A g \in Gen : g # Job.gen => opener'[g] = opener[g] /\ asked'[g] = asked[g]
    BY <1>1, <2>1, <2>2
  <2>4. ThreadInv'
    BY <2>1, <2>3 DEF LinkInv, ThreadInv, Waiting, Job
  <2>5. OwnerInv'
    BY <1>1, <2>1, <2>2 DEF OwnerInv, Job
  <2>6. \A g \in Gen : GivenUp(g)' => GivenUp(g) /\ g # Job.gen
    BY <2>1, <2>2 DEF GivenUp, Leaving, LinkInv, ClosedInv
  <2>7. ClosedInv'
    BY <2>1, <2>3, <2>6 DEF LinkInv, ClosedInv
  <2> QED BY <2>4, <2>5, <2>7 DEF LinkInv
<1>12. CASE WaitAnswer
  <2>1. /\ worker.pc = "wait" /\ opener[Job.gen] = "over" /\ UNCHANGED <<linkVars, gaveUp>>
    BY <1>1, <1>2, <1>12 DEF WaitAnswer, WorkerAt, linkVars, platformVars, LinkInv,
       AnswerInv,
       Waiting, Trying
  <2>2. worker' \in {[worker EXCEPT !.pc = q] : q \in {"abandon", "init", "failClaim"}}
    BY <1>12 DEF WaitAnswer, WorkerGoes, Fail
  <2>3. worker'.pc \in Trying /\ worker'.pc \notin Leaving /\ worker'.job = Job
    <3>1. PICK q \in {"abandon", "init", "failClaim"} : worker' = [worker EXCEPT !.pc = q]
      BY <2>2
    <3>2. worker'.pc = q /\ worker'.job = Job
      BY <3>1 DEF Struct, TypeOK, Job
    <3> QED BY <3>2 DEF Trying, Waiting, Leaving
  <2> QED BY <1>2, <1>3, <2>1, <2>3 DEF Waiting
<1>13. CASE Worker
  <2>1. CASE DropClaim
    BY <1>3, <1>5, <2>1 DEF DropClaim, WorkerAt, WorkerGoes, Job, Idle, Waiting, Trying,
       Leaving, linkVars, platformVars, historyVars, Struct, TypeOK
  <2>2. CASE DropBump
    BY <1>3, <1>5, <2>2 DEF DropBump, WorkerAt, WorkerGoes, Job, Fail, Idle, Waiting,
       Trying, Leaving, linkVars, platformVars, historyVars, Struct, TypeOK
  <2>3. CASE DropEnd
    BY <1>3, <1>5, <2>3 DEF DropEnd, WorkerAt, WorkerGoes, Job, Fail, Idle, Waiting,
       Trying, Leaving, linkVars, platformVars, historyVars, Struct, TypeOK
  <2>4. CASE Drain
    BY <1>3, <1>5, <2>4 DEF Drain, WorkerAt, WorkerGoes, Job, Fail, Idle, Waiting,
       Trying, Leaving, linkVars, platformVars, historyVars, Struct, TypeOK
  <2>5. CASE DrainTell
    BY <1>3, <1>5, <2>5 DEF DrainTell, WorkerAt, WorkerGoes, Job, Fail, Idle, Waiting,
       Trying, Leaving, linkVars, platformVars, historyVars, Struct, TypeOK
  <2>6. CASE DrainEnd
    BY <1>3, <1>5, <2>6 DEF DrainEnd, WorkerAt, WorkerGoes, Job, Fail, Idle, Waiting,
       Trying, Leaving, linkVars, platformVars, historyVars, Struct, TypeOK
  <2>7. CASE WaitSuperseded
    BY <1>3, <1>5, <2>7 DEF WaitSuperseded, WorkerAt, WorkerGoes, Job, Fail, Idle,
       Waiting, Trying, Leaving, linkVars, platformVars, historyVars, Struct, TypeOK
  <2>8. CASE WaitDeadline
    BY <1>3, <1>5, <2>8 DEF WaitDeadline, WorkerAt, WorkerGoes, Job, Fail, Idle,
       Waiting, Trying, Leaving, linkVars, platformVars, historyVars, Struct, TypeOK
  <2>9. CASE Step("init", "identify")
    BY <1>3, <1>5, <2>9 DEF Step, WorkerAt, WorkerGoes, Job, Fail, Idle, Waiting,
       Trying, Leaving, linkVars, platformVars, historyVars, Struct, TypeOK
  <2>10. CASE InitFails
    BY <1>3, <1>5, <2>10 DEF InitFails, WorkerAt, WorkerGoes, Job, Fail, Idle, Waiting,
       Trying, Leaving, linkVars, platformVars, historyVars, Struct, TypeOK
  <2>11. CASE Step("identify", "commit")
    BY <1>3, <1>5, <2>11 DEF Step, WorkerAt, WorkerGoes, Job, Fail, Idle, Waiting,
       Trying, Leaving, linkVars, platformVars, historyVars, Struct, TypeOK
  <2>12. CASE IdentifyFails
    BY <1>3, <1>5, <2>12 DEF IdentifyFails, WorkerAt, WorkerGoes, Job, Fail, Idle,
       Waiting, Trying, Leaving, linkVars, platformVars, historyVars, Struct, TypeOK
  <2>13. CASE Commit
    BY <1>3, <1>5, <2>13 DEF Commit, WorkerAt, WorkerGoes, Job, Fail, Idle, Waiting,
       Trying, Leaving, linkVars, platformVars, historyVars, Struct, TypeOK
  <2>14. CASE Connected
    BY <1>3, <1>5, <2>14 DEF Connected, WorkerAt, WorkerGoes, Job, Fail, Idle, Waiting,
       Trying, Leaving, linkVars, platformVars, historyVars, Struct, TypeOK
  <2>15. CASE FailClaim
    BY <1>3, <1>5, <2>15 DEF FailClaim, WorkerAt, WorkerGoes, Job, Fail, Idle, Waiting,
       Trying, Leaving, linkVars, platformVars, historyVars, Struct, TypeOK
  <2>16. CASE FailBump
    BY <1>3, <1>5, <2>16 DEF FailBump, WorkerAt, WorkerGoes, Job, Fail, Idle, Waiting,
       Trying, Leaving, linkVars, platformVars, historyVars, Struct, TypeOK
  <2>17. CASE Receive
    <3>1. /\ worker.pc = "recv" /\ worker'.pc \notin Trying \cup Leaving
          /\ UNCHANGED <<linkVars, gaveUp>>
      <4>1. worker.pc = "recv" /\ UNCHANGED <<linkVars, gaveUp>> /\ Head(mailbox) \in Message
        BY <2>17, GenFacts DEF Receive, WorkerAt, linkVars, platformVars, historyVars
      <4>2. worker'.pc \in {"recv", "open", "drain", "dropClaim"}
        BY <2>17, <4>1 DEF Receive, Idle, Message
      <4> QED BY <4>1, <4>2 DEF Trying, Waiting, Leaving
    <3> QED BY <1>3, <3>1 DEF Waiting
  <2> QED BY <1>7, <1>8, <1>9, <1>10, <1>11, <1>12, <1>13, <2>1, <2>2, <2>3, <2>4, <2>5,
     <2>6, <2>7, <2>8, <2>9, <2>10, <2>11, <2>12, <2>13, <2>14, <2>15, <2>16, <2>17 DEF
     Worker
<1>14. CASE HostCall \/ HostStep
  BY <1>4, <1>14 DEF HostCall, HostStep, ConnectToController, SelectConnector,
     DisconnectClaim, SelectBegin, BeginBump, BeginPhase, InitiateConnection,
     DisconnectBump, DisconnectPhase, DisconnectEnqueue, linkVars, platformVars,
     historyVars
<1>15. ASSUME NEW g \in Gen, Discovery(g) PROVE LinkInv'
  BY <1>4, <1>15 DEF Discovery, DiscoveryRound, DiscoveryEmpty, DiscoveryPicker,
     linkVars, platformVars, historyVars
\* The platform's threads: one attempt's opener and link change.
<1>16. ASSUME NEW g \in Gen, Platform(g) PROVE LinkInv'
  <2>1. /\ UNCHANGED <<worker, fence, asked, gaveUp>> /\ (stray => stray')
        /\ opener[g] # "none" => opener'[g] # "none"
    <3>1. UNCHANGED <<worker, fence, asked, gaveUp>>
      BY <1>16 DEF Platform, OpenFails, OpenUp, Install, OpenTell, LinkDrops,
         DropWriter, DropTell, platformOnly
    <3>2. stray => stray'
      BY <1>16 DEF Platform, OpenFails, OpenUp, Install, OpenTell, LinkDrops,
         DropWriter, DropTell, platformOnly
    <3>3. \/ opener' = opener
          \/ \E x \in {"up", "installed", "over"} : opener' = [opener EXCEPT ![g] = x]
      BY <1>16 DEF Platform, OpenFails, OpenUp, Install, OpenTell, LinkDrops,
         DropWriter, DropTell, platformOnly
    <3> QED BY <1>1, <3>1, <3>2, <3>3
  <2>2. \A h \in Gen : GivenUp(h)' <=> GivenUp(h)
    BY <2>1 DEF GivenUp, Job
  <2>3. \A h \in Gen : h # g => opener'[h] = opener[h] /\ link'[h] = link[h]
    BY <1>1, <1>16 DEF Platform, OpenFails, OpenUp, Install, OpenTell, LinkDrops,
       DropWriter, DropTell
  <2>4. ThreadInv'
    <3>1. opener'[g] \in {"opening", "up", "installed"} =>
            opener[g] \in {"opening", "up", "installed"}
      BY <1>1, <1>16 DEF Platform, OpenFails, OpenUp, Install, OpenTell, LinkDrops,
         DropWriter, DropTell
    <3> QED BY <2>1, <2>3, <3>1 DEF LinkInv, ThreadInv, Job
  <2>5. ASSUME link'[g] = "up", opener'[g] # "up"
        PROVE  \/ link[g] = "up" /\ opener[g] # "up"
               \/ fence = asked[g] /\ writer' = g
    BY <1>1, <1>16, <2>5 DEF Platform, OpenFails, OpenUp, Install, OpenTell, LinkDrops,
       DropWriter, DropTell, LinkInv, AnswerInv
  <2>6. ClosedInv'
    <3> SUFFICES ASSUME NEW h \in Gen, GivenUp(h)
                 PROVE  /\ opener'[h] # "none" /\ asked[h] < fence
                        /\ link'[h] = "up" => opener'[h] = "up" \/ stray'
      BY <2>1, <2>2 DEF ClosedInv
    <3>1. /\ opener[h] # "none" /\ asked[h] < fence
          /\ link[h] = "up" => opener[h] = "up" \/ stray
      BY DEF LinkInv, ClosedInv
    <3>2. CASE h = g
      BY <1>1, <2>1, <2>5, <3>1, <3>2
    <3>3. CASE h # g
      BY <2>1, <2>3, <3>1, <3>3
    <3> QED BY <3>2, <3>3
  <2>7. \/ writer' = writer
        \/ writer' = g /\ opener[g] = "up" /\ asked[g] = fence
        \/ link'[g] # "up" /\ (writer \notin {g, Host} => stray')
    BY <1>1, <1>16 DEF Platform, OpenFails, OpenUp, Install, OpenTell, LinkDrops,
       DropWriter, DropTell
  <2>8. OwnerInv'
    <3> SUFFICES ASSUME worker.pc \in Trying
                 PROVE  /\ opener'[Job.gen] # "none"
                        /\ link'[Job.gen] = "up" /\ opener'[Job.gen] # "up" =>
                             writer' = Job.gen \/ stray'
      BY <2>1 DEF OwnerInv, Job
    <3>1. /\ opener[Job.gen] # "none" /\ Job.gen \in Gen
          /\ link[Job.gen] = "up" /\ opener[Job.gen] # "up" => writer = Job.gen \/ stray
      BY <1>1, <1>2 DEF LinkInv, OwnerInv
    <3>2. opener[g] = "up" /\ asked[g] = fence => Job.gen = g
      BY DEF LinkInv, ThreadInv
    <3>3. Job.gen # Host
      BY <3>1, GenType
    <3>4. CASE Job.gen = g
      BY <2>1, <2>5, <2>7, <3>1, <3>3, <3>4
    <3>5. CASE Job.gen # g
      BY <2>1, <2>3, <2>7, <3>1, <3>2, <3>3, <3>5
    <3> QED BY <3>4, <3>5
  <2> QED BY <2>4, <2>6, <2>8 DEF LinkInv
<1> QED BY <1>4, <1>13, <1>14, <1>15, <1>16 DEF Next, vars, linkVars

(* "A failed attempt closes what it opened", and so does an abandoned one: *)
(* once connect_body has given an attempt up, its link is closed, or its   *)
(* connect thread will close it when it looks at the fence - unless the    *)
(* drop sink of an older link took the writer away first.                  *)
THEOREM GivenUpClosed == Spec => []GivenUpIsClosed
<1>1. Init => FreshInv /\ LinkInv
  BY DEF Init, FreshInv, Once, Queued, Sending, WorkerAt, LinkInv, AnswerInv, ThreadInv,
     OwnerInv, ClosedInv, GivenUp, Waiting, Trying, Leaving
<1>2. Struct /\ LinkInv => GivenUpIsClosed
  BY DEF LinkInv, ClosedInv, GivenUp, GivenUpIsClosed, Struct, TypeOK
<1> QED BY <1>1, <1>2, FreshStep, AnswerStep, LinkStep, StructHolds, PTL DEF Spec, LinkInv

-----------------------------------------------------------------------------
(***************************************************************************)
(* The bring-up: what a connect leaves of the adapter and knows of the car.*)
(***************************************************************************)

(* How far a connect has come.                                             *)
Shaking == {"init", "headers", "echo", "purge", "batch", "format", "ready", "sniff", "atdpn"}
Walking == {"target", "name", "cal", "presence"}
Reading == {"gm", "ford", "windows", "default", "broadcast"}
Surveying == {"engine", "mode01", "mode06", "mode09", "roster"}
Identified == {"cache", "backfill", "strategy", "save", "persist", "chunk", "connected"}
                \cup Surveying \cup Walking \cup Reading
Placeable == pc \in Identified \/ outcome = "connected"
Missing == MaxTrouble - trouble
Calm == trouble = MaxTrouble
Own == session.attached = Vehicle.vin
Fields == {"vin", "engine", "ranges", "ecus", "strategy", "whole"}

Shape ==
  /\ trip \in Trips /\ leg \in 0 .. Len(trip) /\ (leg = 0 => pc = "closed" /\ outcome = "none")
  /\ pc \in {"closed", "vin"} \cup Shaking \cup Identified
  /\ outcome # "none" => pc = "closed"
  /\ trouble \in Nat /\ trouble <= MaxTrouble /\ shaken \in BOOLEAN /\ acked \in BOOLEAN
  /\ DOMAIN tool = {"echo", "headers", "header", "slots", "batch", "extended"}
  /\ DOMAIN facts = {"pipes", "cap", "periodic"} /\ DOMAIN plugin = {"pipe", "chunk", "mode22"}
  /\ DOMAIN session = {"addressing", "primary", "attached", "sniffed", "whole"}
  /\ DOMAIN info = Fields /\ DOMAIN files = DOMAIN Datasets
  /\ \A vin \in DOMAIN Datasets : DOMAIN files[vin] = Fields

(* Echo survives two losses only, and with headers and without echo only a *)
(* serial bus answers 0100 with data that names none.  With nothing lost    *)
(* there are headers, and the lines of 0902 all came.                       *)
Misled == Vehicle.bus = "serial" \/ ~tool.headers \/ (tool.echo /\ Missing >= 2)
Heard ==
  /\ pc \in {"headers", "echo"} => IF acked THEN ~tool.echo ELSE Missing >= 1
  /\ tool.echo => pc \in {"closed", "init", "headers", "echo"} \/ Missing >= 2
  /\ pc = "atdpn" /\ seen = "data" => Misled
  /\ outcome = "unsupported_protocol" => Misled
  /\ Calm => pc \in {"closed", "init", "headers"} \/ tool.headers
  /\ Calm /\ Placeable => session.whole

(* The header leaves the functional one for the walk and the reads, and    *)
(* the session its default between the windows and the close.              *)
Broadcasting == pc \notin Walking \cup Reading /\ (pc = "closed" => outcome # "none")
Restored ==
  /\ pc \notin {"closed", "windows", "default"} => shaken \/ ~tool.extended
  /\ Broadcasting => shaken \/ (tool.header = Functional /\ ~tool.extended)

(* Past the VIN the bus is a CAN one, the VIN is one the vehicle's modules  *)
(* give - the lowest's, if all lines came - and the primary is of its        *)
(* responders; a file is of the VIN it is found under.                      *)
Placed ==
  /\ pc = "vin" \/ Placeable =>
       /\ Can /\ session.addressing = Vehicle.bus
       /\ session.sniffed => session.primary \in Vehicle.functional
  /\ Placeable =>
       /\ session.attached = info.vin /\ info.vin \in Range(Vehicle.vins)
       /\ info.vin # "none"
       /\ session.whole => info.vin = Vehicle.vins[Min(Givers)]
  /\ Placeable /\ pc \notin {"cache"} \cup Surveying /\ roster # {} =>
       session.primary \in Vehicle.functional
  /\ \A vin \in DOMAIN files : files[vin] # Unread => files[vin].vin = vin /\ vin # "none"
  /\ pc = "atdpn" => ~session.sniffed
  /\ pc = "cache" => info.ranges = {}
  /\ pc = "backfill" => info = files[info.vin]
  /\ pc \in Surveying =>
       roster = IF info.ranges = {} \/ ~tool.headers THEN {} ELSE Vehicle.functional

Fresh ==
  /\ facts.cap \in Nat
  /\ facts.pipes \/ pc = "format" => Adapter.pipes
  /\ plugin.pipe => Adapter.pipes
  /\ leg > 0 /\ Adapter.cap # 0 => facts.cap = Adapter.cap
  /\ leg > 0 /\ Adapter.periodic # "unsaid" => facts.periodic = (Adapter.periodic = "yes")
  /\ plugin.chunk => Vehicle.pairs /\ Adapter.cap # 1

(* With nothing lost a calibration that is wanted is read.                     *)
Wanted == Gate # "none" /\ Vehicle.strategy /\ PCM \in Vehicle.functional
Learned ==
  /\ pc \in {"gm", "ford", "windows"} /\ Calm => tool.header = PCM
  /\ pc \in {"default", "broadcast", "save", "persist"} /\ Calm /\ Wanted =>
       info.strategy
  /\ (pc \in {"chunk", "connected"} \/ outcome = "connected") /\ Calm /\ Wanted =>
       info.strategy /\ files[info.vin].strategy

(* The modules a vehicle has, and those of them its walk asks about.       *)
TableOf(v) == Datasets[Vehicles[v].vin].walk
Listed(rows) == {m.addr : m \in {n \in Range(rows) : ~n.ms}}
AskedOf(v) == IF TableOf(v) # <<>> THEN Listed(TableOf(v))
              ELSE Vehicles[v].functional
                     \cup (IF Vehicles[v].bus = "11" THEN Block \cap Vehicles[v].named ELSE {})

(* A module that may still be found: one that is there and, without a      *)
(* table, one that gives itself away.                                      *)
Findable == IF ByTable THEN Fitted ELSE Vehicle.functional \cup Vehicle.named
Counted == info.ecus \cup (Listed(todo) \cap Findable) = Asked \cap Fitted
Walked ==
  /\ pc \in Walking =>
       /\ todo \in Seq([addr : Nat, ms : BOOLEAN]) /\ (Calm => Counted)
       /\ IF ByTable THEN Listed(todo) \subseteq Listed(Table)
          ELSE roster \subseteq Vehicle.functional /\ (Calm => roster = Vehicle.functional)
  /\ pc \in Walking \ {"target"} =>
       /\ todo # <<>> /\ ~Head(todo).ms
       /\ pc = "presence" => ByTable /\ Head(todo).addr \notin Block
       /\ pc # "presence" => ~ByTable \/ Head(todo).addr \in Block
       /\ pc = "presence" \/ Calm => tool.header = Head(todo).addr
  /\ pc = "cal" => IF ByTable THEN at.named => Head(todo).addr \in Vehicle.named
                   ELSE Head(todo).addr \in Findable
  /\ pc \in {"strategy"} \cup Reading /\ ~Cached /\ Calm =>
       info.ecus = Asked \cap Fitted
  /\ pc = "save" => ~Cached /\ (Calm => info.ecus = Asked \cap Fitted)
Manned ==
  /\ Placeable /\ Own => FittedFound
  /\ pc \in {"cache"} \cup Surveying => info.ecus = {}
  /\ pc \in {"cache"} \cup Surveying \cup Walking => ~info.whole
  /\ \A v \in DOMAIN Vehicles :
       LET file == files[Vehicles[v].vin]
       IN file # Unread => /\ file.ecus \subseteq FittedOf(v)
                           /\ file.whole => file.ecus = AskedOf(v) \cap FittedOf(v)

UpInv == Shape /\ Heard /\ Restored /\ Placed /\ Fresh /\ Learned
UpMen == UpInv /\ Walked /\ Manned

(* The steps of a connect after its opening, by the part of it.            *)
Shakes == \/ InitList \/ InitHeaders \/ InitTimeout \/ VerifyEcho \/ Purge \/ ProbeBatch
          \/ ProbeFormat \/ Ready
Places == Sniff \/ AskProtocol \/ GatherVin \/ CheckCache
Surveys == \/ EngineType \/ (\E mode \in {"mode01", "mode06", "mode09"} : Support(mode))
           \/ Roster
Walks == \/ Target1 \/ SkipMs \/ AskName \/ AskCal \/ Presence \/ EndWalk
Reads == \/ Backfill \/ NoGate \/ TargetPcm \/ ReadGm \/ OpenFord
         \/ ReadWindows \/ CloseFord \/ Broadcast
Ends == Save \/ Persist \/ ProbeChunk \/ Established
Talks == Shakes \/ Places \/ Surveys \/ Walks \/ Reads \/ Ends

-----------------------------------------------------------------------------
LEMMA SameLeg == ASSUME Talks PROVE UNCHANGED <<trip, leg>>
<1>1. CASE Shakes
  BY <1>1 DEF Shakes, InitList, InitHeaders, InitTimeout, VerifyEcho, Purge, ProbeBatch,
              ProbeFormat, Ready, initSame, run
<1>2. CASE Places
  BY <1>2 DEF Places, Sniff, AskProtocol, GatherVin, Identify, CheckCache, identSame, run
<1>3. CASE Surveys
  BY <1>3 DEF Surveys, EngineType, Support, Roster, identSame, run
<1>4. CASE Walks
  BY <1>4 DEF Walks, Target1, SkipMs, AskName, AskCal, Presence, EndWalk,
              walkSame, run
<1>5. CASE Reads
  BY <1>5 DEF Reads, Backfill, NoGate, TargetPcm, ReadGm, OpenFord,
              ReadWindows, CloseFord, Broadcast, readSame, run
<1>6. CASE Ends
  BY <1>6 DEF Ends, Save, Persist, ProbeChunk, Established, readSame, run
<1> QED BY <1>1, <1>2, <1>3, <1>4, <1>5, <1>6 DEF Talks

LEMMA SameCar ==
  ASSUME UNCHANGED <<trip, leg>>
  PROVE  /\ Vehicle' = Vehicle /\ Adapter' = Adapter /\ Can' = Can
         /\ Givers' = Givers /\ Fitted' = Fitted
  BY DEF Vehicle, Adapter, Can, Givers, Fitted

-----------------------------------------------------------------------------
LEMMA Fewer ==
  ASSUME MaxTrouble \in Int, trouble \in Int, trouble' \in Int, trouble' <= trouble, Missing >= 2
  PROVE  Missing' >= 2
<1>1. \A m, a, b \in Int : b <= a /\ m - a >= 2 => m - b >= 2
  OBVIOUS
<1> QED BY <1>1 DEF Missing

LEMMA FewerYet ==
  ASSUME MaxTrouble \in Int, trouble \in Int, trouble' \in Int, trouble' <= trouble, Missing >= 1
  PROVE  Missing' >= 1
<1>1. \A m, a, b \in Int : b <= a /\ m - a >= 1 => m - b >= 1
  OBVIOUS
<1> QED BY <1>1 DEF Missing

LEMMA OneLess ==
  ASSUME MaxTrouble \in Int, trouble \in Int, trouble > 0, trouble <= MaxTrouble,
         trouble' = trouble - 1
  PROVE  Missing' >= 1
<1>1. \A m, a \in Int : a <= m => m - (a - 1) >= 1
  OBVIOUS
<1> QED BY <1>1 DEF Missing

(* What any of these steps keeps of the shape.                             *)
LEMMA Troubles ==
  ASSUME Sound, Shape, Talks
  PROVE  trouble' \in Nat /\ trouble' <= trouble /\ trouble' <= MaxTrouble
<1>0. MaxTrouble \in Nat /\ trouble \in Nat /\ trouble <= MaxTrouble
  BY DEF Sound, Shape
<1>1. CASE Shakes
  BY <1>0, <1>1 DEF Shakes, InitList, InitHeaders, InitTimeout, VerifyEcho, Purge,
       ProbeBatch, ProbeFormat, Ready, initSame, Ask
<1>2. CASE Places
  <2>1. UNCHANGED trouble \/ (trouble > 0 /\ trouble' = trouble - 1)
    BY <1>2 DEF Places, Sniff, AskProtocol, GatherVin, Identify, CheckCache, identSame, Ask
  <2> QED BY <1>0, <2>1
<1>3. CASE Surveys
  BY <1>0, <1>3 DEF Surveys, EngineType, Support, Roster, identSame, Ask
<1>4. CASE Walks
  BY <1>0, <1>4 DEF Walks, Target1, SkipMs, AskName, AskCal, Presence,
       EndWalk, walkSame, Ask
<1>5. CASE Reads
  <2>1. CASE CloseFord
    <3>1. UNCHANGED trouble \/ (trouble > 0 /\ trouble' = trouble - 1)
      BY <2>1 DEF CloseFord, Ask
    <3> QED BY <1>0, <3>1
  <2>3. CASE OpenFord
    BY <1>0, <2>3 DEF OpenFord, Ask
  <2>2. CASE Reads /\ ~CloseFord /\ ~OpenFord
    BY <1>0, <2>2 DEF Reads, Backfill, NoGate, TargetPcm, ReadGm, ReadWindows,
                      Broadcast, readSame, Ask
  <2> QED BY <1>5, <2>1, <2>2, <2>3
<1>6. CASE Ends
  BY <1>0, <1>6 DEF Ends, Save, Persist, ProbeChunk, Established, readSame,
       Ask
<1> QED BY <1>1, <1>2, <1>3, <1>4, <1>5, <1>6 DEF Talks

LEMMA Flags == ASSUME Shape, Talks PROVE shaken' \in BOOLEAN /\ acked' \in BOOLEAN
<1> USE DEF Shape
<1>1. CASE Shakes
  BY <1>1 DEF Shakes, InitList, InitHeaders, InitTimeout, VerifyEcho, Purge, ProbeBatch,
       ProbeFormat, Ready, initSame, Ask
<1>2. CASE Places
  BY <1>2 DEF Places, Sniff, AskProtocol, GatherVin, Identify, CheckCache, identSame,
       Ask
<1>3. CASE Surveys
  BY <1>3 DEF Surveys, EngineType, Support, Roster, identSame, Ask
<1>4. CASE Walks
  BY <1>4 DEF Walks, Target1, SkipMs, AskName, AskCal, Presence, EndWalk,
       walkSame, Ask
<1>5. CASE Reads
  <2>1. CASE CloseFord \/ OpenFord
    BY <2>1 DEF CloseFord, OpenFord, Ask, readSame
  <2>2. CASE Reads /\ ~CloseFord /\ ~OpenFord
    BY <2>2 DEF Reads, Backfill, NoGate, TargetPcm, ReadGm, ReadWindows,
                Broadcast, readSame, Ask
  <2> QED BY <1>5, <2>1, <2>2
<1>6. CASE Ends
  BY <1>6 DEF Ends, Save, Persist, ProbeChunk, Established, readSame, Ask
<1> QED BY <1>1, <1>2, <1>3, <1>4, <1>5, <1>6 DEF Talks

LEMMA Tools == ASSUME Shape, Talks PROVE DOMAIN tool' = DOMAIN tool
<1>1. CASE Shakes
  BY <1>1 DEF Shakes, InitList, InitHeaders, InitTimeout, VerifyEcho, Purge, ProbeBatch,
       ProbeFormat, Ready, initSame, Ask
<1>2. CASE Places
  BY <1>2 DEF Places, Sniff, AskProtocol, GatherVin, Identify, CheckCache, identSame,
       Ask
<1>3. CASE Surveys
  BY <1>3 DEF Surveys, EngineType, Support, Roster, identSame, Ask
<1>4. CASE Walks
  BY <1>4 DEF Walks, Target1, SkipMs, AskName, AskCal, Presence, EndWalk,
       walkSame, Ask, To
<1>5. CASE Reads
  BY <1>5 DEF Reads, Backfill, NoGate, TargetPcm, ReadGm, OpenFord,
       ReadWindows, CloseFord, Broadcast, readSame, Ask, To
<1>6. CASE Ends
  BY <1>6 DEF Ends, Save, Persist, ProbeChunk, Established, readSame, Ask
<1> QED BY <1>1, <1>2, <1>3, <1>4, <1>5, <1>6 DEF Talks

LEMMA Records ==
  ASSUME Shape, Talks
  PROVE  /\ DOMAIN facts' = DOMAIN facts /\ DOMAIN plugin' = DOMAIN plugin
         /\ DOMAIN session' = DOMAIN session
<1>1. CASE Shakes
  BY <1>1 DEF Shakes, InitList, InitHeaders, InitTimeout, VerifyEcho, Purge, ProbeBatch,
       ProbeFormat, Ready, initSame, Ask
<1>2. CASE Places
  BY <1>2 DEF Places, Sniff, AskProtocol, GatherVin, Identify, CheckCache, identSame,
       Ask
<1>3. CASE Surveys
  BY <1>3 DEF Surveys, EngineType, Support, Roster, identSame, Ask
<1>4. CASE Walks
  BY <1>4 DEF Walks, Target1, SkipMs, AskName, AskCal, Presence, EndWalk,
       walkSame, Ask
<1>5. CASE Reads
  BY <1>5 DEF Reads, Backfill, NoGate, TargetPcm, ReadGm, OpenFord,
       ReadWindows, CloseFord, Broadcast, readSame, Ask
<1>6. CASE Ends
  BY <1>6 DEF Ends, Save, Persist, ProbeChunk, Established, readSame, Ask
<1> QED BY <1>1, <1>2, <1>3, <1>4, <1>5, <1>6 DEF Talks

LEMMA Rides ==
  ASSUME Sound, Shape, leg # 0
  PROVE  /\ trip[leg].vehicle \in DOMAIN Vehicles /\ trip[leg].adapter \in DOMAIN Adapters
         /\ Range(Vehicle.vins) \subseteq DOMAIN Datasets /\ Adapter.cap \in Nat
         /\ Vehicle.functional \subseteq Nat /\ DOMAIN Vehicle.vins \subseteq Vehicle.functional
<1> DEFINE Leg == [adapter : DOMAIN Adapters, vehicle : DOMAIN Vehicles, pref : BOOLEAN]
<1>1. trip \in Seq(Leg)
  BY DEF Sound, Shape
<1>2. leg \in 1 .. Len(trip)
  BY <1>1 DEF Shape
<1>3. trip[leg] \in Leg
  <2> HIDE DEF Leg
  <2> QED BY <1>1, <1>2
<1> QED BY <1>3 DEF Sound, Vehicle, Adapter

LEMMA Filed ==
  ASSUME Sound, Shape, Placed, Placeable PROVE info.vin \in DOMAIN files
<1>1. leg # 0
  BY DEF Shape, Placeable, Surveying, Identified, Walking, Reading
<1> QED BY <1>1, Rides DEF Placed, Shape

LEMMA Infos ==
  ASSUME Sound, Shape, Placed, Talks
  PROVE  /\ DOMAIN info' = Fields /\ DOMAIN files' = DOMAIN files
         /\ \A vin \in DOMAIN files : DOMAIN files'[vin] = Fields
<1> USE DEF Shape
<1>1. CASE Shakes
  BY <1>1 DEF Shakes, InitList, InitHeaders, InitTimeout, VerifyEcho, Purge, ProbeBatch,
       ProbeFormat, Ready, initSame, Ask
<1>2. CASE Places
  <2>1. pc = "cache" => info.vin \in DOMAIN files
    BY Filed DEF Placeable, Surveying, Identified
  <2>2. DOMAIN Unread = Fields
    BY DEF Unread, Fields
  <2>3. CASE Sniff \/ AskProtocol
    BY <2>3 DEF Sniff, AskProtocol, identSame, Ask
  <2>4. CASE GatherVin
    <3>1. UNCHANGED files /\ \E vin : info' = [Unread EXCEPT !.vin = vin]
      BY <2>4 DEF GatherVin, Identify, identSame, Ask
    <3> QED BY <2>2, <3>1
  <2>5. CASE CheckCache
    BY <2>1, <2>5 DEF CheckCache, identSame
  <2> QED BY <1>2, <2>3, <2>4, <2>5 DEF Places
<1>3. CASE Surveys
  BY <1>3 DEF Surveys, EngineType, Support, Roster, identSame, Ask
<1>4. CASE Walks
  BY <1>4 DEF Walks, Target1, SkipMs, AskName, AskCal, Presence, EndWalk,
       walkSame, Ask, Skip, Keep
<1>5. CASE Reads
  BY <1>5 DEF Reads, Backfill, NoGate, TargetPcm, ReadGm, OpenFord,
       ReadWindows, CloseFord, Broadcast, readSame, Ask, Learn
<1>6. CASE Ends
  BY <1>6 DEF Ends, Save, Persist, ProbeChunk, Established, readSame, Ask
<1> QED BY <1>1, <1>2, <1>3, <1>4, <1>5, <1>6 DEF Talks

LEMMA Flows ==
  ASSUME Shape, Talks
  PROVE  /\ pc' \in {"closed", "vin"} \cup Shaking \cup Identified
         /\ outcome' # "none" => pc' = "closed"
<1> USE DEF Shape, Shaking, Surveying, Identified, Walking, Reading, Fails
<1>1. CASE Shakes
  BY <1>1 DEF Shakes, InitList, InitHeaders, InitTimeout, VerifyEcho, Purge, ProbeBatch,
       ProbeFormat, Ready, initSame, Ask
<1>2. CASE Places
  BY <1>2 DEF Places, Sniff, AskProtocol, GatherVin, Identify, CheckCache, identSame,
       Ask
<1>3. CASE Surveys
  BY <1>3 DEF Surveys, EngineType, Support, Roster, identSame, Ask,
       NextMode
<1>4. CASE Walks
  BY <1>4 DEF Walks, Target1, SkipMs, AskName, AskCal, Presence, EndWalk,
       walkSame, Ask, Skip, Keep
<1>5. CASE Reads
  BY <1>5 DEF Reads, Backfill, NoGate, TargetPcm, ReadGm, OpenFord,
       ReadWindows, CloseFord, Broadcast, readSame, Ask, AfterRead,
       Gate
<1>6. CASE Ends
  BY <1>6 DEF Ends, Save, Persist, ProbeChunk, Established, readSame, Ask
<1> QED BY <1>1, <1>2, <1>3, <1>4, <1>5, <1>6 DEF Talks

LEMMA ShapeNext == ASSUME Sound, Shape, Placed, Talks PROVE Shape'
<1>1. leg # 0
  BY DEF Shape, Talks, Shakes, Places, Surveys, Walks, Reads, Ends, InitList, InitHeaders,
     InitTimeout, VerifyEcho, Purge, ProbeBatch, ProbeFormat, Ready, Sniff,
     AskProtocol, GatherVin, Identify, CheckCache, EngineType, Support, Roster,
     Target1, SkipMs, AskName, AskCal, Presence, EndWalk, Backfill,
     NoGate, TargetPcm, ReadGm, OpenFord, ReadWindows, CloseFord,
     Broadcast, Save, Persist, ProbeChunk, Established
<1>2. trip' = trip /\ leg' = leg
  BY SameLeg
<1>3. trouble' \in Nat /\ trouble' <= MaxTrouble /\ shaken' \in BOOLEAN /\ acked' \in BOOLEAN
  BY Troubles, Flags
<1> QED BY <1>1, <1>2, <1>3, Tools, Records, Infos, Flows DEF Shape

-----------------------------------------------------------------------------
(* The lowest of some numbers is one of them.                              *)
LEMMA Lowest == ASSUME NEW S \in SUBSET Nat, S # {} PROVE Min(S) \in S
<1> DEFINE R == {ss \in Nat \X Nat : ss[1] < ss[2]}
<1>1. IsWellFoundedOn(R, Nat)
  BY NatLessThanWellFounded DEF OpToRel
<1>2. \E x \in S : \A y \in S : <<y, x>> \notin R
  <2> HIDE DEF R
  <2> QED BY <1>1, WFMin
<1>3. \A x, y \in S : <<y, x>> \notin R => x <= y
  <2>1. SUFFICES ASSUME NEW x \in S, NEW y \in S, y < x PROVE <<y, x>> \in R
    OBVIOUS
  <2> QED BY <2>1
<1>4. \E x \in S : \A y \in S : x <= y
  <2> HIDE DEF R
  <2> QED BY <1>2, <1>3
<1> QED BY <1>4 DEF Min

(* Past the VIN nobody changes the VIN, the dataset or the addressing.      *)
LEMMA Unmoved ==
  ASSUME Shape, Surveys \/ Walks \/ Reads \/ Ends
  PROVE  /\ session'.addressing = session.addressing /\ session'.attached = session.attached
         /\ session'.sniffed = session.sniffed /\ session'.whole = session.whole
         /\ info'.vin = info.vin
         /\ session'.primary = session.primary \/ Roster
         /\ Placeable /\ pc # "cache"
<1>1. /\ DOMAIN session = {"addressing", "primary", "attached", "sniffed", "whole"}
      /\ DOMAIN info = Fields
  BY DEF Shape
<1> USE DEF Fields, Placeable, Surveying, Identified, Walking, Reading
<1>2. CASE Surveys
  BY <1>1, <1>2 DEF Surveys, EngineType, Support, Roster, identSame, Ask
<1>3. CASE Walks
  BY <1>1, <1>3 DEF Walks, Target1, SkipMs, AskName, AskCal, Presence,
       EndWalk, walkSame, Ask, Skip, Keep
<1>4. CASE Reads
  BY <1>1, <1>4 DEF Reads, Backfill, NoGate, TargetPcm, ReadGm, OpenFord,
       ReadWindows, CloseFord, Broadcast, readSame, Ask, Learn
<1>5. CASE Ends
  BY <1>1, <1>5 DEF Ends, Save, Persist, ProbeChunk, Established, readSame,
       Ask
<1> QED BY <1>2, <1>3, <1>4, <1>5

(* Undisturbed so far: this command was answered.                          *)
LEMMA Answered ==
  ASSUME Sound, Shape, Talks, Calm'
  PROVE  Calm /\ trouble' = trouble /\ trouble \in Nat
<1>1. trouble' <= trouble /\ trouble <= MaxTrouble /\ trouble' = MaxTrouble
      /\ trouble \in Nat /\ MaxTrouble \in Nat
  BY Troubles DEF Shape, Calm, Sound
<1> QED BY <1>1 DEF Calm

(* Nothing after the handshake touches the echo or the headers.            *)
LEMMA EchoKept ==
  ASSUME Shape, Surveys \/ Walks \/ Reads \/ Ends
  PROVE  /\ tool'.echo = tool.echo /\ tool'.headers = tool.headers
         /\ outcome' # "unsupported_protocol"
         /\ pc \notin {"closed", "init", "headers", "echo", "atdpn"}
         /\ pc' \notin {"init", "headers", "echo", "atdpn"}
<1> USE DEF Shape, Fails
<1>1. CASE Surveys
  BY <1>1 DEF Surveys, EngineType, Support, Roster, identSame, Ask,
       NextMode
<1>2. CASE Walks
  BY <1>2 DEF Walks, Target1, SkipMs, AskName, AskCal, Presence, EndWalk,
       walkSame, Ask, To, Skip, Keep
<1>3. CASE Reads
  <2>1. CASE CloseFord
    BY <2>1 DEF CloseFord, Ask, readSame
  <2>2. CASE Reads /\ ~CloseFord
    BY <2>2 DEF Reads, Backfill, NoGate, TargetPcm, ReadGm, OpenFord,
                ReadWindows, Broadcast, readSame, Ask, To, AfterRead, Gate
  <2> QED BY <1>3, <2>1, <2>2
<1>4. CASE Ends
  BY <1>4 DEF Ends, Save, Persist, ProbeChunk, Established, readSame, Ask
<1> QED BY <1>1, <1>2, <1>3, <1>4

LEMMA HeardNext == ASSUME Sound, Shape, Placed, Heard, Talks PROVE Heard'
<1>1. /\ MaxTrouble \in Nat /\ trouble \in Nat /\ trouble <= MaxTrouble
      /\ trouble' \in Nat /\ trouble' <= trouble
  BY Troubles DEF Shape, Sound
<1>2. Vehicle' = Vehicle /\ Can' = Can
  BY SameLeg, SameCar
<1>3. DOMAIN tool = {"echo", "headers", "header", "slots", "batch", "extended"}
  BY DEF Shape
<1>4. CASE Shakes
  <2>1. ~Placeable'
    BY <1>4 DEF Shakes, InitList, InitHeaders, InitTimeout, VerifyEcho, Purge, ProbeBatch,
         ProbeFormat, Ready, initSame, Ask, Fails, Shape, Placeable, Identified, Surveying,
         Walking, Reading
  <2>2. outcome' # "unsupported_protocol" /\ pc' # "atdpn"
    BY <1>4 DEF Shakes, InitList, InitHeaders, InitTimeout, VerifyEcho, Purge, ProbeBatch,
         ProbeFormat, Ready, initSame, Ask, Fails, Shape
  <2>3. /\ pc' \in {"headers", "echo"} => IF acked' THEN ~tool'.echo ELSE Missing' >= 1
        /\ tool'.echo => pc' \in {"closed", "init", "headers", "echo"} \/ Missing' >= 2
    <3>1. CASE InitList
      <4>1. \/ acked' /\ tool' = [tool EXCEPT !.echo = FALSE]
            \/ ~acked' /\ trouble > 0 /\ trouble' = trouble - 1
        BY <3>1 DEF InitList, Ask
      <4>2. pc' = "headers"
        BY <3>1 DEF InitList, Ask
      <4>3. CASE acked' /\ tool' = [tool EXCEPT !.echo = FALSE]
        BY <1>3, <4>2, <4>3
      <4>4. CASE ~acked' /\ trouble > 0 /\ trouble' = trouble - 1
        <5>1. Missing' >= 1
          BY <1>1, <4>4, OneLess
        <5> QED BY <4>2, <4>4, <5>1
      <4> QED BY <4>1, <4>3, <4>4
    <3>2. CASE InitHeaders
      <4>1. /\ tool'.echo = tool.echo /\ acked' = acked /\ pc' = "echo" /\ pc = "headers"
        BY <1>3, <3>2 DEF InitHeaders, Ask
      <4>2. Missing >= 1 => Missing' >= 1
        BY <1>1, FewerYet
      <4> QED BY <4>1, <4>2 DEF Heard
    <3>3. CASE Shakes /\ ~InitList /\ ~InitHeaders
      BY <1>1, <1>3, <3>3 DEF Heard, Missing, Fails, Shakes, InitTimeout, VerifyEcho, Purge,
           ProbeBatch, ProbeFormat, Ready, initSame, Ask
    <3> QED BY <1>4, <3>1, <3>2, <3>3
  <2>4. Calm' => pc' \in {"closed", "init", "headers"} \/ tool'.headers
    <3>1. Calm' => Calm /\ trouble' = trouble /\ trouble # trouble - 1
      BY <1>4, Answered DEF Talks
    <3> QED BY <1>3, <1>4, <3>1 DEF Heard, Fails, Shakes, InitList, InitHeaders, InitTimeout,
         VerifyEcho, Purge, ProbeBatch, ProbeFormat, Ready, initSame, Ask
  <2> QED BY <2>1, <2>2, <2>3, <2>4 DEF Heard
<1>5. CASE Places
  <2>1. /\ UNCHANGED tool /\ pc \notin {"closed", "init", "headers", "echo"}
        /\ pc' \notin {"init", "headers", "echo"}
    BY <1>5 DEF Places, Sniff, AskProtocol, GatherVin, Identify, CheckCache, identSame, Ask,
         Fails
  <2>2. (tool.echo => Missing >= 2) /\ (Missing >= 2 => Missing' >= 2)
    BY <1>1, <2>1, Fewer DEF Heard
  <2>3. Misled => Misled'
    BY <1>2, <2>1, <2>2 DEF Misled
  <2>4. Calm' => Calm /\ trouble' = trouble /\ trouble # trouble - 1 /\ tool.headers
    BY <1>5, <2>1, Answered DEF Talks, Heard
  <2>5. (pc' = "atdpn" /\ seen' = "data" => Misled') /\ (Calm' /\ Placeable' => session'.whole)
        /\ (outcome' = "unsupported_protocol" => Misled')
    <3>1. CASE Sniff
      <4>1. pc' = "atdpn" /\ seen' = "data" => Misled
        BY <2>2, <3>1 DEF Sniff, Ask, Broadcasted, Misled
      <4>2. ~Placeable' /\ outcome' # "unsupported_protocol"
        BY <3>1 DEF Sniff, Ask, Shape, Placeable, Identified, Surveying, Walking, Reading
      <4> QED BY <2>3, <4>1, <4>2
    <3>2. CASE AskProtocol
      <4>1. /\ pc = "atdpn" /\ pc' # "atdpn" /\ ~Placeable'
            /\ outcome' = "unsupported_protocol" => seen = "data"
        BY <3>2 DEF AskProtocol, Ask, Fails, Shape, Placeable, Identified, Surveying, Walking,
                    Reading
      <4> QED BY <2>3, <4>1 DEF Heard
    <3>3. CASE GatherVin
      <4>1. pc' # "atdpn" /\ outcome' # "unsupported_protocol"
        BY <3>3 DEF GatherVin, Identify, Ask, Fails, Shape
      <4>2. Calm' => session'.whole
        <5>1. DOMAIN session = {"addressing", "primary", "attached", "sniffed", "whole"}
          BY DEF Shape
        <5>2. \/ trouble' = trouble - 1
              \/ \E vin \in Given : Identify(vin, tool.headers)
          BY <3>3 DEF GatherVin, Ask
        <5> QED BY <2>4, <5>1, <5>2 DEF Identify
      <4> QED BY <4>1, <4>2
    <3>4. CASE CheckCache
      BY <2>4, <3>4 DEF CheckCache, identSame, Shape, Heard, Placeable, Identified
    <3> QED BY <1>5, <3>1, <3>2, <3>3, <3>4 DEF Places
  <2> QED BY <2>1, <2>2, <2>4, <2>5 DEF Heard
<1>6. CASE Surveys \/ Walks \/ Reads \/ Ends
  <2>1. (tool'.echo => tool.echo /\ Missing >= 2) /\ tool'.headers = tool.headers
    BY <1>6, EchoKept DEF Heard
  <2>2. Missing >= 2 => Missing' >= 2
    BY <1>1, Fewer
  <2>3. Calm' => tool'.headers /\ session'.whole
    BY <1>6, <2>1, Answered, EchoKept, Unmoved DEF Heard, Talks
  <2> QED BY <1>6, <2>1, <2>2, <2>3, EchoKept DEF Heard
<1> QED BY <1>4, <1>5, <1>6 DEF Talks

LEMMA RestoredNext == ASSUME Sound, Shape, Placed, Restored, Talks PROVE Restored'
<1> USE DEF Restored, Shape, Broadcasting, Walking, Reading
<1>1. CASE Shakes
  BY <1>1 DEF Shakes, InitList, InitHeaders, InitTimeout, VerifyEcho, Purge, ProbeBatch,
       ProbeFormat, Ready, initSame, Ask, Fails
<1>2. CASE Places
  BY <1>2 DEF Places, Sniff, AskProtocol, GatherVin, Identify, CheckCache, identSame,
       Ask, Fails
<1>3. CASE Surveys
  BY <1>3 DEF Surveys, EngineType, Support, Roster, identSame, Ask, Fails,
       NextMode
<1>4. CASE Walks
  BY <1>4 DEF Walks, Target1, SkipMs, AskName, AskCal, Presence, EndWalk,
       walkSame, Ask, To, Skip, Keep
<1>5. CASE Reads
  <2>1. CASE TargetPcm
    <3>1. To(PCM).header = PCM /\ To(PCM).extended = tool.extended
      BY DEF To
    <3>2. /\ pc = "strategy" /\ pc' \in {"save", "persist", "ford", "gm"}
          /\ outcome' = outcome
      BY <2>1 DEF TargetPcm, readSame, Ask, AfterRead, Gate
    <3>3. shaken' \/ ~shaken
      BY <2>1 DEF TargetPcm, Ask
    <3>4. ~shaken' => \/ tool' = tool
                      \/ tool' = To(PCM) /\ pc' \in {"ford", "gm"}
                      \/ tool' = To(PCM) /\ tool.header = PCM
      BY <2>1, <3>1 DEF TargetPcm, Ask, Gate
    <3> QED BY <3>1, <3>2, <3>3, <3>4
  <2>2. CASE Backfill \/ NoGate
    BY <2>2 DEF Backfill, NoGate, readSame, AfterRead
  <2>3. CASE ReadGm \/ ReadWindows
    BY <2>3 DEF ReadGm, ReadWindows, readSame, Ask
  <2>4. CASE OpenFord
    BY <2>4 DEF OpenFord, readSame, Ask
  <2>5. CASE CloseFord
    BY <2>5 DEF CloseFord, readSame, Ask
  <2>6. CASE Broadcast
    BY <2>6 DEF Broadcast, readSame, Ask, To, AfterRead
  <2> QED BY <1>5, <2>1, <2>2, <2>3, <2>4, <2>5, <2>6 DEF Reads
<1>6. CASE Ends
  BY <1>6 DEF Ends, Save, Persist, ProbeChunk, Established, readSame, Ask
<1> QED BY <1>1, <1>2, <1>3, <1>4, <1>5, <1>6 DEF Talks

-----------------------------------------------------------------------------
LEMMA FreshNext == ASSUME Sound, Shape, Placed, Fresh, Talks PROVE Fresh'
<1>1. Vehicle' = Vehicle /\ Adapter' = Adapter /\ leg' = leg
  BY SameLeg, SameCar
<1>2. DOMAIN facts = {"pipes", "cap", "periodic"} /\ DOMAIN plugin = {"pipe", "chunk", "mode22"}
  BY DEF Shape
<1>3. CASE Shakes
  BY <1>1, <1>2, <1>3 DEF Fresh, Fails, Shakes, InitList, InitHeaders, InitTimeout,
       VerifyEcho, Purge, ProbeBatch, ProbeFormat, Ready, initSame, Ask
<1>4. CASE UNCHANGED <<facts, plugin>> /\ pc' # "format"
  BY <1>1, <1>4 DEF Fresh
<1>5. CASE ProbeChunk
  <2>1. UNCHANGED facts /\ pc' # "format" /\ plugin'.pipe = plugin.pipe
    BY <1>2, <1>5 DEF ProbeChunk, Ask
  <2>2. plugin'.chunk => plugin.chunk \/ (Vehicle.pairs /\ ~(facts.cap <= 1))
    BY <1>2, <1>5 DEF ProbeChunk, Ask
  <2>3. leg > 0
    BY <1>5 DEF ProbeChunk, Shape
  <2>4. ~(facts.cap <= 1) => Adapter.cap # 1
    BY <2>3 DEF Fresh
  <2> QED BY <1>1, <2>1, <2>2, <2>3, <2>4 DEF Fresh
<1>6. CASE Places \/ Surveys
  <2>1. UNCHANGED <<facts, plugin>>
    BY <1>6 DEF Places, Sniff, AskProtocol, GatherVin, Identify, CheckCache, Surveys,
                EngineType, Support, Roster, identSame
  <2>2. pc' # "format"
    <3>1. CASE Places
      BY <3>1 DEF Fails, Places, Sniff, AskProtocol, GatherVin, Identify, CheckCache, Ask
    <3>2. CASE Surveys
      BY <3>2 DEF Fails, NextMode, Surveys, EngineType, Support, Roster, Ask
    <3> QED BY <1>6, <3>1, <3>2
  <2> QED BY <1>4, <2>1, <2>2
<1>7. CASE Walks
  <2>1. UNCHANGED <<facts, plugin>> /\ pc' # "format"
    BY <1>7 DEF Walks, Target1, SkipMs, AskName, AskCal, Presence,
         EndWalk, walkSame, Ask, Skip, Keep
  <2> QED BY <1>4, <2>1
<1>8. CASE Reads
  <2>1. UNCHANGED <<facts, plugin>> /\ pc' # "format"
    BY <1>8 DEF Reads, Backfill, NoGate, TargetPcm, ReadGm, OpenFord,
         ReadWindows, CloseFord, Broadcast, readSame, Ask, AfterRead,
         Gate
  <2> QED BY <1>4, <2>1
<1>9. CASE Ends /\ ~ProbeChunk
  <2>1. UNCHANGED <<facts, plugin>> /\ pc' # "format"
    BY <1>9 DEF Ends, Save, Persist, Established, readSame
  <2> QED BY <1>4, <2>1
<1> QED BY <1>3, <1>5, <1>6, <1>7, <1>8, <1>9 DEF Talks

LEMMA PlacedNext == ASSUME Sound, Shape, Placed, Talks PROVE Placed'
<1>1. /\ Vehicle' = Vehicle /\ Adapter' = Adapter /\ Can' = Can
      /\ Givers' = Givers /\ UNCHANGED <<trip, leg>>
  BY SameLeg, SameCar
<1>2. /\ DOMAIN session = {"addressing", "primary", "attached", "sniffed", "whole"}
      /\ DOMAIN info = Fields /\ DOMAIN files = DOMAIN Datasets
      /\ \A vin \in DOMAIN Datasets : DOMAIN files[vin] = Fields
      /\ DOMAIN Unread = Fields
  BY DEF Shape, Unread, Fields
<1>3. CASE Shakes
  <2>1. /\ UNCHANGED files /\ pc' \in {"closed"} \cup (Shaking \ {"atdpn"})
        /\ outcome' # "connected"
    BY <1>3 DEF Shakes, InitList, InitHeaders, InitTimeout, VerifyEcho, Purge, ProbeBatch,
         ProbeFormat, Ready, initSame, Ask, Fails, Shaking, Shape
  <2> QED BY <2>1 DEF Placed, Placeable, Surveying, Identified, Walking, Reading, Shaking
<1>4. CASE Sniff
  <2>1. /\ UNCHANGED files /\ pc' \in {"vin", "atdpn"} /\ outcome' # "connected"
        /\ pc' = "atdpn" => ~session'.sniffed
    BY <1>2, <1>4 DEF Sniff, Ask, identSame, Shape
  <2>2. pc' = "vin" => Can /\ session'.addressing = Vehicle.bus
                       /\ session'.primary \in Vehicle.functional
    BY <1>2, <1>4 DEF Sniff, Ask, Broadcasted
  <2> QED BY <1>1, <2>1, <2>2 DEF Placed, Placeable, Surveying, Identified, Walking, Reading
<1>5. CASE AskProtocol
  <2>1. /\ UNCHANGED files /\ pc' \in {"vin", "closed"} /\ outcome' # "connected"
        /\ ~session'.sniffed
    BY <1>2, <1>5 DEF AskProtocol, Ask, Fails, identSame, Shape, Placed
  <2>2. pc' = "vin" => Can /\ session'.addressing = Vehicle.bus
    BY <1>2, <1>5 DEF AskProtocol, Ask, Fails
  <2> QED BY <1>1, <2>1, <2>2 DEF Placed, Placeable, Surveying, Identified, Walking, Reading
<1>6. CASE GatherVin
  <2>1. PICK vin, whole : /\ Identify(vin, whole)
                          /\ vin \in Range(Vehicle.vins) \cup {"none"}
                          /\ (whole /\ vin # "none") => vin = Vehicle.vins[Min(Givers)]
    <3>1. Givers # {} => Vehicle.vins[Min(Givers)] \in Range(Vehicle.vins)
      <4>1. leg # 0
        BY <1>6 DEF GatherVin, Shape
      <4>2. Givers \in SUBSET Nat
        BY <4>1, Rides DEF Givers
      <4>3. Givers # {} => Min(Givers) \in Givers
        BY <4>2, Lowest
      <4> QED BY <4>3 DEF Givers, Range
    <3>2. \A vin \in Given : /\ vin \in Range(Vehicle.vins) \cup {"none"}
                             /\ tool.headers /\ vin # "none" => vin = Vehicle.vins[Min(Givers)]
      BY <3>1 DEF Given
    <3>3. \/ \E vin \in Given \cup {"none"} : Identify(vin, tool.headers)
          \/ \E vin \in Range(Vehicle.vins) : Identify(vin, FALSE)
      BY <1>6 DEF GatherVin, Ask
    <3>4. CASE \E vin \in Given \cup {"none"} : Identify(vin, tool.headers)
      BY <3>2, <3>4
    <3>5. CASE \E vin \in Range(Vehicle.vins) : Identify(vin, FALSE)
      BY <3>5
    <3> QED BY <3>3, <3>4, <3>5
  <2>2. /\ UNCHANGED <<files, roster>> /\ pc' \in {"cache", "closed"} /\ outcome' # "connected"
        /\ session'.addressing = session.addressing /\ session'.sniffed = session.sniffed
        /\ session'.primary = session.primary
    BY <1>2, <1>6, <2>1 DEF GatherVin, Identify, Fails, identSame, Shape
  <2>3. pc' = "cache" => /\ session'.attached = info'.vin /\ info'.vin \in Range(Vehicle.vins)
                         /\ info'.vin # "none" /\ info'.ranges = {}
                         /\ session'.whole => info'.vin = Vehicle.vins[Min(Givers)]
    BY <1>2, <2>1 DEF Identify, Fails, Unread
  <2>4. Can /\ session.addressing = Vehicle.bus
        /\ (session.sniffed => session.primary \in Vehicle.functional)
    BY <1>6 DEF GatherVin, Placed
  <2> QED BY <1>1, <2>2, <2>3, <2>4 DEF Placed, Placeable, Surveying, Identified, Walking, Reading
<1>7. CASE CheckCache
  <2>1. Placeable /\ info.vin \in DOMAIN files
    BY <1>7, Filed DEF CheckCache, Placeable, Identified
  <2>2. UNCHANGED <<files, session, outcome>> /\ info'.vin = info.vin /\ roster' = {}
        /\ pc = "cache"
    BY <1>2, <1>7, <2>1 DEF CheckCache, identSame, Placed
  <2>3. \/ pc' = "engine" /\ info'.ranges = {}
        \/ pc' = "backfill" /\ info' = files[info.vin]
    BY <1>7 DEF CheckCache, Placed
  <2> QED BY <1>1, <2>1, <2>2, <2>3 DEF Placed, Placeable, Surveying, Identified, Walking, Reading
<1>8. CASE Surveys
  <2>1. UNCHANGED files /\ pc' \in {"target", "closed"} \cup Surveying
        /\ outcome' # "connected"
    BY <1>8 DEF Surveys, EngineType, Support, Roster, identSame, Ask,
         NextMode, Fails, Surveying, Shape
  <2>2. CASE ~Roster
    <3> DEFINE Rolled == roster' = IF info'.ranges = {} \/ ~tool'.headers THEN {}
                                   ELSE Vehicle.functional
    <3>1. Rolled /\ pc \in Surveying
      <4>0. tool'.headers = tool.headers
        BY <1>8, EchoKept
      <4>1. CASE EngineType
        BY <1>2, <4>0, <4>1 DEF EngineType, identSame, Ask, Placed, Surveying, Fields
      <4>2. ASSUME NEW mode \in {"mode01", "mode06", "mode09"}, Support(mode)
            PROVE  Rolled /\ pc \in Surveying
        <5>1. \/ UNCHANGED <<info, roster>>
              \/ /\ info'.ranges # {}
                 /\ roster' = roster \cup (IF tool.headers THEN Vehicle.functional ELSE {})
          BY <1>2, <4>2 DEF Support, Ask, Fields
        <5>2. pc \in Surveying
          BY <4>2 DEF Support, Surveying
        <5> QED BY <4>0, <5>1, <5>2 DEF Placed
      <4> QED BY <1>8, <2>2, <4>1, <4>2 DEF Surveys
    <3>2. pc' \in Surveying
      BY <1>8, <2>2 DEF Surveys, EngineType, Support, Ask, NextMode, Surveying
    <3> QED BY <1>1, <1>8, <2>1, <2>2, <3>1, <3>2, Unmoved
            DEF Placed, Placeable, Surveying, Identified, Walking, Reading
  <2>3. CASE Roster
    <3>1. /\ pc = "roster" /\ roster' = roster
          /\ roster \in {{}, Vehicle.functional} /\ Vehicle.functional \subseteq Nat
      BY <2>3, Rides DEF Roster, Placed, Surveying, Shape
    <3>2. roster # {} => Min(roster) \in Vehicle.functional
      BY <3>1, Lowest
    <3>3. pc' = "target" => session'.primary = IF roster = {} THEN session.primary ELSE Min(roster)
      BY <1>2, <2>3 DEF Roster, Fails
    <3>4. pc' \in {"target", "closed"}
      BY <2>3 DEF Roster, Fails
    <3>5. session.sniffed => session.primary \in Vehicle.functional
      BY <3>1 DEF Placed, Placeable, Identified, Surveying
    <3> QED BY <1>1, <1>8, <2>1, <3>1, <3>2, <3>3, <3>4, <3>5, Unmoved
            DEF Placed, Placeable, Surveying, Identified, Walking, Reading
  <2> QED BY <2>2, <2>3
<1>9. CASE Walks
  <2>1. UNCHANGED <<files, roster>> /\ pc' \in {"strategy"} \cup Walking
        /\ pc \in Walking
    BY <1>9 DEF Walks, Target1, SkipMs, AskName, AskCal, Presence,
         EndWalk, walkSame, Ask, Skip, Keep, Walking
  <2>2. ~Roster
    BY <1>9 DEF Walks, Target1, SkipMs, AskName, AskCal, Presence, EndWalk,
                Roster
  <2> QED BY <1>1, <1>9, <2>1, <2>2, Unmoved
          DEF Placed, Placeable, Surveying, Identified, Walking, Reading
<1>10. CASE Reads
  <2>1. /\ UNCHANGED <<files, roster>>
        /\ pc' \in {"strategy", "chunk", "save", "persist"} \cup Reading
        /\ pc \in {"backfill", "strategy"} \cup Reading
    BY <1>10 DEF Reads, Backfill, NoGate, TargetPcm, ReadGm, OpenFord,
         ReadWindows, CloseFord, Broadcast, readSame, walk, Ask, AfterRead,
         Gate, Reading
  <2>2. ~Roster
    BY <1>10 DEF Reads, Backfill, NoGate, TargetPcm, ReadGm, OpenFord,
                 ReadWindows, CloseFord, Broadcast, Roster
  <2> QED BY <1>1, <1>10, <2>1, <2>2, Unmoved
          DEF Placed, Placeable, Surveying, Identified, Walking, Reading
<1>11. CASE Ends
  <2>1. /\ pc' \in {"chunk", "connected", "closed"} /\ ~Roster /\ UNCHANGED roster
        /\ pc \in {"save", "persist", "chunk", "connected"}
    BY <1>11 DEF Ends, Save, Persist, ProbeChunk, Established, readSame, walk,
         Ask, Roster
  <2>2. Placeable /\ info.vin \in DOMAIN files
    BY <1>11, Filed, Unmoved
  <2>3. UNCHANGED files \/ files' = [files EXCEPT ![info.vin] = info']
    BY <1>11 DEF Ends, Save, Persist, ProbeChunk, Established, readSame, Ask
  <2>4. \A vin \in DOMAIN files' : files'[vin] # Unread' => files'[vin].vin = vin /\ vin # "none"
    BY <1>11, <2>2, <2>3, Unmoved DEF Placed, Unread
  <2> QED BY <1>1, <1>11, <2>1, <2>2, <2>4, Unmoved
          DEF Placed, Placeable, Surveying, Identified, Walking, Reading
<1> QED BY <1>3, <1>4, <1>5, <1>6, <1>7, <1>8, <1>9, <1>10, <1>11 DEF Talks, Places

-----------------------------------------------------------------------------
LEMMA LearnedNext ==
  ASSUME Sound, Shape, Heard, Placed, Learned, Talks PROVE Learned'
<1> DEFINE Later == {"gm", "ford", "windows", "default", "broadcast", "save", "persist",
                     "chunk", "connected"}
<1>1. CASE pc' \notin Later /\ outcome' # "connected"
  BY <1>1 DEF Learned
<1>2. CASE Shakes \/ Places \/ Surveys
  <2>1. pc' \notin Later /\ outcome' # "connected"
    <3>1. CASE Shakes
      BY <3>1 DEF Shakes, InitList, InitHeaders, InitTimeout, VerifyEcho, Purge,
           ProbeBatch, ProbeFormat, Ready, initSame, Ask, Fails, Shape
    <3>2. CASE Places
      BY <3>2 DEF Places, Sniff, AskProtocol, GatherVin, Identify, CheckCache,
           identSame, Ask, Fails, Shape
    <3>3. CASE Surveys
      BY <3>3 DEF Surveys, EngineType, Support, Roster, identSame, Ask,
           Fails, NextMode, Shape
    <3> QED BY <1>2, <3>1, <3>2, <3>3
  <2> QED BY <1>1, <2>1
<1>3. CASE Walks
  <2>1. pc' \notin Later /\ outcome' # "connected"
    BY <1>3 DEF Walks, Target1, SkipMs, AskName, AskCal, Presence,
         EndWalk, walkSame, Ask, Skip, Keep, Shape
  <2> QED BY <1>1, <2>1
<1>4. CASE Reads \/ Ends
  <2>1. /\ UNCHANGED <<trip, leg>> /\ Vehicle' = Vehicle
        /\ session'.attached = session.attached /\ info'.vin = info.vin
        /\ Placeable /\ Can
    BY <1>4, SameLeg, SameCar, Unmoved DEF Placed
  <2>2. Wanted' = Wanted
    BY <2>1 DEF Wanted, Gate, Dataset
  <2>3. Calm' => Calm /\ trouble' = trouble /\ trouble # trouble - 1 /\ tool.headers
    BY <1>4, Answered, EchoKept DEF Heard
  <2>4. DOMAIN info = Fields /\ DOMAIN tool = {"echo", "headers", "header", "slots", "batch", "extended"}
    BY DEF Shape
  <2>5. outcome' = "connected" => Established
    BY <1>4 DEF Reads, Backfill, NoGate, TargetPcm, ReadGm, OpenFord,
         ReadWindows, CloseFord, Broadcast, readSame, Ask, Ends, Save,
         Persist, ProbeChunk, Established, Shape
  <2>6. CASE Backfill \/ NoGate
    BY <2>1, <2>2, <2>3, <2>5, <2>6
       DEF Learned, Wanted, Backfill, NoGate, AfterRead, readSame, Placed
  <2>7. CASE TargetPcm
    <3>1. To(PCM).header = PCM
      BY <2>4 DEF To
    <3>2. Calm' => pc' \in {"gm", "ford"} /\ tool'.header = PCM
      BY <2>3, <2>7, <3>1 DEF TargetPcm, Ask, Gate
    <3>3. outcome' # "connected"
      BY <2>7 DEF TargetPcm, readSame, Shape
    <3> QED BY <3>2, <3>3 DEF Learned
  <2>8. CASE ReadGm \/ ReadWindows
    <3>1. /\ pc' \in {"broadcast", "default"} /\ pc \in {"gm", "windows"}
          /\ outcome' # "connected"
      BY <2>8 DEF ReadGm, ReadWindows, Ask, readSame, Shape
    <3>2. Calm' /\ Wanted' => info'.strategy
      BY <2>1, <2>2, <2>3, <2>4, <2>8, <3>1 DEF ReadGm, ReadWindows, Ask, Learn, Fields,
         Strategy, Hears, Wanted, Learned
    <3> QED BY <3>1, <3>2 DEF Learned
  <2>9. CASE OpenFord
    <3>1. outcome' # "connected" /\ pc = "ford"
      BY <2>9 DEF OpenFord, readSame, Shape
    <3>2. Calm' => pc' = "windows" /\ tool'.header = PCM
      BY <2>1, <2>3, <2>4, <2>9, <3>1 DEF OpenFord, Ask, Hears, Learned
    <3>3. pc' \in {"windows", "broadcast"}
      BY <2>9 DEF OpenFord, Ask
    <3> QED BY <3>1, <3>2, <3>3 DEF Learned
  <2>10. CASE CloseFord \/ Broadcast
    <3>1. /\ pc' \in {"broadcast", "save", "persist"} /\ pc \in {"default", "broadcast"}
          /\ outcome' # "connected" /\ info' = info
      BY <2>10 DEF CloseFord, Broadcast, Ask, AfterRead, readSame, Shape
    <3> QED BY <2>2, <2>3, <3>1 DEF Learned
  <2>11. CASE Save \/ Persist
    <3>1. info.vin \in DOMAIN files
      BY <2>1, Filed
    <3>2. /\ pc' = "chunk" /\ pc \in {"save", "persist"} /\ info'.strategy = info.strategy
          /\ files' = [files EXCEPT ![info.vin] = info'] /\ outcome' # "connected"
      BY <2>4, <2>11 DEF Save, Persist, readSame, Shape, Fields
    <3> QED BY <2>1, <2>2, <2>3, <3>1, <3>2 DEF Learned
  <2>12. CASE ProbeChunk \/ Established
    <3>1. /\ pc' \in {"connected", "closed"} /\ pc \in {"chunk", "connected"}
          /\ UNCHANGED <<info, files>>
      BY <2>12 DEF ProbeChunk, Established, Ask
    <3> QED BY <2>2, <2>3, <3>1 DEF Learned
  <2> QED BY <1>4, <2>6, <2>7, <2>8, <2>9, <2>10, <2>11, <2>12 DEF Reads, Ends
<1> QED BY <1>2, <1>3, <1>4 DEF Talks

-----------------------------------------------------------------------------
(* The rows of a table, one at a time.                                     *)
Row == [addr : Nat, ms : BOOLEAN]

LEMMA Listing ==
  ASSUME NEW rows \in Seq(Row), rows # <<>>
  PROVE  /\ Tail(rows) \in Seq(Row) /\ Head(rows) \in Row
         /\ Listed(rows) = Listed(Tail(rows))
                             \cup (IF Head(rows).ms THEN {} ELSE {Head(rows).addr})
<1> DEFINE R == Row
<1> HIDE DEF R
<1>1. rows \in Seq(R) /\ Tail(rows) \in Seq(R) /\ Head(rows) \in R
  BY DEF R
<1>2. Range(rows) = {Head(rows)} \cup Range(Tail(rows))
  <2>1. Len(rows) \in Nat /\ Len(rows) > 0 /\ DOMAIN rows = 1 .. Len(rows)
        /\ Head(rows) = rows[1] /\ DOMAIN Tail(rows) = 1 .. Len(rows) - 1
        /\ \A i \in 1 .. Len(rows) - 1 : Tail(rows)[i] = rows[i + 1]
    BY <1>1
  <2>2. ASSUME NEW i \in DOMAIN rows PROVE rows[i] \in {Head(rows)} \cup Range(Tail(rows))
    <3>1. CASE i = 1
      BY <2>1, <3>1
    <3>2. CASE i # 1
      <4>1. i - 1 \in DOMAIN Tail(rows) /\ Tail(rows)[i - 1] = rows[i]
        BY <2>1, <3>2
      <4> QED BY <4>1 DEF Range
    <3> QED BY <3>1, <3>2
  <2>3. ASSUME NEW i \in DOMAIN Tail(rows) PROVE Tail(rows)[i] \in Range(rows)
    <3>1. i + 1 \in DOMAIN rows /\ Tail(rows)[i] = rows[i + 1]
      BY <2>1
    <3> QED BY <3>1 DEF Range
  <2>4. Head(rows) \in Range(rows)
    BY <2>1 DEF Range
  <2> QED BY <2>2, <2>3, <2>4 DEF Range
<1> QED BY <1>1, <1>2 DEF Listed, R

LEMMA NothingListed == Listed(<<>>) = {}
  BY DEF Listed, Range

(* The vehicle of this connect, which is the one of the VIN if that is its *)
(* own.                                                                    *)
LEMMA Car ==
  ASSUME Sound, Shape, Placed, Placeable
  PROVE  /\ trip[leg].vehicle \in DOMAIN Vehicles /\ session.attached = info.vin
         /\ info.vin \in DOMAIN files /\ info.vin # "none"
         /\ Table \in Seq(Row)
         /\ Own => /\ Vehicles[trip[leg].vehicle].vin = info.vin
                   /\ Table = TableOf(trip[leg].vehicle)
                   /\ AskedOf(trip[leg].vehicle) = Asked
         /\ Vehicle.functional \cup Vehicle.named \subseteq Fitted
<1>1. leg # 0
  BY DEF Shape, Placeable, Surveying, Identified, Walking, Reading
<1>2. /\ trip[leg].vehicle \in DOMAIN Vehicles /\ info.vin # "none"
      /\ session.attached = info.vin
      /\ info.vin \in DOMAIN files /\ info.vin \in DOMAIN Datasets
      /\ Own => Vehicles[trip[leg].vehicle].vin = info.vin
  BY <1>1, Rides, Filed DEF Placed, Shape, Vehicle, Own
<1>3. Own => Table = TableOf(trip[leg].vehicle)
  BY <1>2 DEF Table, Dataset, TableOf
<1>4. Table \in Seq(Row)
  BY <1>2 DEF Table, Dataset, Sound, Row
<1>5. Own => AskedOf(trip[leg].vehicle) = Asked
  BY <1>3 DEF AskedOf, Asked, Listed, ByTable, Vehicle
<1>6. Vehicle.functional \cup Vehicle.named \subseteq Fitted
  BY DEF Fitted, FittedOf, Vehicle
<1> QED BY <1>2, <1>3, <1>4, <1>5, <1>6

(* With nothing lost the VIN is the vehicle's own, and it comes of no other. *)
LEMMA Itself ==
  ASSUME Sound, OneCar, Shape, Heard, Placed, Placeable
  PROVE  /\ Calm => Own /\ (tool.headers \/ outcome = "connected")
         /\ \A v \in DOMAIN Vehicles : Vehicles[v].vin = info.vin => v = trip[leg].vehicle /\ Own
<1>1. /\ trip[leg].vehicle \in DOMAIN Vehicles /\ session.attached = info.vin
      /\ info.vin \in Range(Vehicle.vins) /\ info.vin # "none"
  BY Car DEF Placed
<1>2. Givers # {}
  BY <1>1 DEF Givers, Range
<1>3. Vehicle.vins[Min(Givers)] = Vehicle.vin
  BY <1>1, <1>2 DEF OneCar, Vehicle, Givers
<1>4. Calm => Own
  BY <1>1, <1>3 DEF Heard, Placed, Own
<1>5. Calm => tool.headers \/ outcome = "connected"
  BY DEF Heard, Placeable, Identified, Surveying, Walking, Reading
<1>6. ASSUME NEW v \in DOMAIN Vehicles, Vehicles[v].vin = info.vin
      PROVE  v = trip[leg].vehicle /\ Own
  <2>1. v = trip[leg].vehicle
    BY <1>1, <1>6 DEF OneCar, Vehicle
  <2> QED BY <1>1, <1>6, <2>1 DEF Own, Vehicle
<1> QED BY <1>4, <1>5, <1>6

(* What is asked about stays the same for the rest of the connect.         *)
LEMMA SameWalk ==
  ASSUME Shape, Surveys \/ Walks \/ Reads \/ Ends
  PROVE  /\ Table' = Table /\ ByTable' = ByTable /\ Asked' = Asked
         /\ Fitted' = Fitted /\ Findable' = Findable /\ Vehicle' = Vehicle
         /\ Can' = Can /\ Own' = Own
<1>1. /\ UNCHANGED <<trip, leg>> /\ session'.attached = session.attached
      /\ Vehicle' = Vehicle /\ Can' = Can /\ Fitted' = Fitted
  BY SameLeg, SameCar, Unmoved DEF Talks
<1>2. Table' = Table /\ ByTable' = ByTable
  BY <1>1 DEF Table, ByTable, Dataset
<1>3. Asked' = Asked
  BY <1>1, <1>2 DEF Asked
<1> QED BY <1>1, <1>2, <1>3 DEF Findable, Own

(* The walk starts on the table, or on everyone who may be there.          *)
LEMMA RosterWalked ==
  ASSUME Sound, OneCar, Shape, Heard, Placed, Manned, Roster, pc' = "target"
  PROVE  /\ todo' \in Seq(Row) /\ (Calm' => Counted')
         /\ IF ByTable' THEN Listed(todo') \subseteq Listed(Table')
            ELSE /\ roster' \subseteq Vehicle'.functional
                 /\ Calm' => roster' = Vehicle'.functional
<1>0. /\ pc = "roster" /\ info.ranges # {}
      /\ UNCHANGED <<info, roster, trouble>>
  BY DEF Roster, Fails
<1>1. /\ roster \subseteq Vehicle.functional
      /\ tool.headers => roster = Vehicle.functional
      /\ info.ecus = {}
  BY <1>0 DEF Placed, Manned, Surveying
<1>2. Surveys /\ Placeable
  BY <1>0 DEF Surveys, Placeable, Surveying, Identified
<1>5. Calm' => /\ Own
               /\ roster = Vehicle.functional
  <2>1. Calm' => Calm
    BY <1>0 DEF Calm
  <2>2. Calm => session.whole /\ tool.headers
    BY <1>0, <1>2 DEF Heard
  <2> QED BY <1>1, <1>2, <2>1, <2>2, Itself
<1>3. CASE Table # <<>>
  <2>1. todo' = Table
    BY <1>0, <1>3 DEF Roster, Fails
  <2>2. ByTable /\ Asked = Listed(Table) /\ Findable = Fitted
    BY <1>3 DEF ByTable, Asked, Listed, Findable
  <2>3. Table \in Seq(Row)
    BY <1>2, Car
  <2> QED BY <1>0, <1>1, <1>2, <2>1, <2>2, <2>3, SameWalk DEF Counted
<1>4. CASE Table = <<>>
  <2>1. PICK s \in Ascending(Candidates) :
          todo' = [i \in DOMAIN s |-> [addr |-> s[i], ms |-> FALSE]]
    BY <1>0, <1>4 DEF Roster, Fails
  <2>2. session.addressing = Vehicle.bus /\ trip[leg].vehicle \in DOMAIN Vehicles
    BY <1>2, Car DEF Placed
  <2>3. /\ Candidates = roster \cup (IF Vehicle.bus = "11" THEN Block ELSE {})
        /\ Candidates \subseteq Nat
    BY <1>1, <2>2 DEF Candidates, Sound, Vehicle
  <2>4. Cardinality(Candidates) \in Nat
    <3>1. IsFiniteSet(roster) /\ IsFiniteSet(Block) /\ IsFiniteSet({})
      BY <1>1, <2>2, FS_EmptySet, FS_Subset DEF Sound, Vehicle
    <3>2. IsFiniteSet(Candidates)
      BY <2>3, <3>1, FS_Union
    <3> QED BY <3>2, FS_CardinalityType
  <2>5. /\ DOMAIN s = 1 .. Cardinality(Candidates) /\ Range(s) = Candidates
        /\ \A i \in DOMAIN s : s[i] \in Nat
    <3>1. /\ s \in [1 .. Cardinality(Candidates) -> Candidates]
          /\ Range(s) = Candidates
      BY <2>1 DEF Ascending
    <3> QED BY <2>3, <3>1
  <2>6. todo' \in Seq(Row)
    <3>1. \A i \in DOMAIN s : [addr |-> s[i], ms |-> FALSE] \in Row
      BY <2>5 DEF Row
    <3>2. todo' \in [1 .. Cardinality(Candidates) -> Row]
      BY <2>1, <2>5, <3>1
    <3> QED BY <2>4, <3>2
  <2>7. Listed(todo') = Candidates
    <3>1. \A i \in DOMAIN s : todo'[i] = [addr |-> s[i], ms |-> FALSE]
      BY <2>1
    <3>2. DOMAIN todo' = DOMAIN s
      BY <2>1
    <3> QED BY <2>5, <3>1, <3>2 DEF Listed, Range
  <2>8. /\ ~ByTable /\ Findable = Vehicle.functional \cup Vehicle.named
        /\ Asked = Vehicle.functional
             \cup (IF Vehicle.bus = "11" THEN Block \cap Vehicle.named ELSE {})
    BY <1>4 DEF ByTable, Asked, Findable
  <2>9. Calm' => Candidates \cap Findable = Asked \cap Fitted
    BY <1>2, <1>5, <2>3, <2>8, Car
  <2>10. /\ Calm' => Counted'
         /\ ~ByTable' /\ roster' = roster /\ Vehicle' = Vehicle
    BY <1>0, <1>1, <1>2, <2>7, <2>8, <2>9, SameWalk DEF Counted
  <2> QED BY <1>1, <1>5, <2>6, <2>10
<1> QED BY <1>3, <1>4

-----------------------------------------------------------------------------
(* One module less to ask: kept if it may be found, left out if not.       *)
LEMMA Struck ==
  ASSUME todo \in Seq(Row), todo # <<>>, todo' = Tail(todo),
         Asked' = Asked, Fitted' = Fitted, Findable' = Findable, Counted,
         IF info'.ecus = info.ecus
         THEN Head(todo).ms \/ Head(todo).addr \notin Findable
                \/ Head(todo).addr \in info.ecus
         ELSE /\ ~Head(todo).ms /\ Head(todo).addr \in Findable
              /\ info'.ecus = info.ecus \cup {Head(todo).addr}
  PROVE  Counted'
<1>1. Listed(todo) = Listed(todo') \cup (IF Head(todo).ms THEN {} ELSE {Head(todo).addr})
  BY Listing
<1>2. info.ecus \cup (Listed(todo) \cap Findable) = Asked \cap Fitted
  BY DEF Counted
<1>3. info'.ecus \cup (Listed(todo') \cap Findable) = Asked \cap Fitted
  BY <1>1, <1>2
<1> QED BY <1>3 DEF Counted, Listed

(* The walk goes on as it must: what a step of it has to show.             *)
Asking == /\ todo # <<>> /\ ~Head(todo).ms
          /\ pc = "presence" => ByTable /\ Head(todo).addr \notin Block
          /\ pc # "presence" => ~ByTable \/ Head(todo).addr \in Block
          /\ pc = "presence" \/ Calm => tool.header = Head(todo).addr
          /\ pc = "cal" => IF ByTable THEN at.named => Head(todo).addr \in Vehicle.named
                           ELSE Head(todo).addr \in Findable

LEMMA WalkGoes ==
  ASSUME Sound, Shape, Walked, Walks, pc \in Walking, pc' \in Walking,
         todo' \in {todo, Tail(todo)}, todo' = todo \/ todo # <<>>,
         Calm' => Counted', pc' # "target" => Asking'
  PROVE  Walked'
<1>0. Calm' => Calm
  BY Answered DEF Talks
<1>1. /\ ByTable' = ByTable /\ Table' = Table /\ Vehicle' = Vehicle
      /\ roster' = roster
  BY SameWalk DEF Walks, Target1, SkipMs, AskName, AskCal, Presence, EndWalk,
                  walkSame
<1>2. todo \in Seq(Row) /\ todo' \in Seq(Row) /\ Listed(todo') \subseteq Listed(todo)
  <2>1. todo \in Seq(Row)
    BY DEF Walked, Row
  <2> QED BY <2>1, Listing
<1>3. IF ByTable THEN Listed(todo) \subseteq Listed(Table)
      ELSE roster \subseteq Vehicle.functional /\ (Calm => roster = Vehicle.functional)
  BY DEF Walked
<1>4. IF ByTable' THEN Listed(todo') \subseteq Listed(Table')
      ELSE roster' \subseteq Vehicle'.functional /\ (Calm' => roster' = Vehicle'.functional)
  BY <1>0, <1>1, <1>2, <1>3
<1> QED BY <1>1, <1>2, <1>4 DEF Walked, Asking, Walking, Reading, Row

(* A step of the walk, and what the module asked about turns out to be.    *)
LEMMA WalkSteps ==
  ASSUME Sound, OneCar, Answering, Shape, Heard, Placed, Walked, Manned, Walks
  PROVE  Walked' /\ (Own => info'.ecus \subseteq Fitted)
<1>1. /\ Asked' = Asked /\ Fitted' = Fitted /\ Findable' = Findable
      /\ Vehicle' = Vehicle /\ ByTable' = ByTable /\ Can /\ Placeable
  BY SameWalk, Unmoved DEF Placed
<1>3. pc \in Walking /\ outcome # "connected"
  BY DEF Walking, Walks, Target1, SkipMs, AskName, AskCal, Presence, EndWalk, Shape
<1>2. /\ Calm' => Calm /\ trouble' = trouble /\ trouble # trouble - 1
      /\ Calm => Own /\ tool.headers
  BY <1>1, <1>3, Answered, Itself DEF Talks
<1>4. /\ todo \in Seq(Row) /\ (Calm => Counted) /\ (Own => info.ecus \subseteq Fitted)
      /\ DOMAIN info = Fields /\ DOMAIN tool = {"echo", "headers", "header", "slots", "batch", "extended"}
      /\ Findable \subseteq Fitted
      /\ Vehicle.functional \cup Vehicle.named \subseteq Fitted
      /\ Vehicle.functional \cup Vehicle.named \subseteq Findable
  <2>1. Vehicle.functional \cup Vehicle.named \subseteq Fitted
    BY <1>1, Car
  <2>2. Findable \subseteq Fitted
        /\ Vehicle.functional \cup Vehicle.named \subseteq Findable
    BY <2>1 DEF Findable
  <2> QED BY <1>1, <1>3, <2>1, <2>2 DEF Walked, Row, Manned, FittedFound, Shape
<1>5. /\ pc \in {"name", "cal", "presence"} => Asking
      /\ IF ByTable THEN Listed(todo) \subseteq Listed(Table)
         ELSE roster \subseteq Vehicle.functional /\ (Calm => roster = Vehicle.functional)
  BY <1>3 DEF Walked, Asking, Walking
<1>6. CASE Target1
  <2>1. /\ pc = "target" /\ todo # <<>> /\ ~Head(todo).ms /\ UNCHANGED info
        /\ \/ pc' = "target" /\ todo' = Tail(todo) /\ ~Calm'
           \/ /\ todo' = todo /\ at' = [named |-> FALSE]
              /\ pc' = IF ~ByTable \/ Head(todo).addr \in Block THEN "name" ELSE "presence"
              /\ pc' = "presence" \/ Calm' => tool'.header = Head(todo).addr
    BY <1>2, <1>4, <1>6 DEF Target1, Ask, To, Target
  <2>2. CASE pc' = "target" /\ todo' = Tail(todo) /\ ~Calm'
    BY <1>3, <1>4, <2>1, <2>2, WalkGoes DEF Walking
  <2>3. CASE /\ todo' = todo /\ at' = [named |-> FALSE]
             /\ pc' = IF ~ByTable \/ Head(todo).addr \in Block THEN "name" ELSE "presence"
             /\ pc' = "presence" \/ Calm' => tool'.header = Head(todo).addr
    <3>1. Counted' <=> Counted
      BY <1>1, <2>1, <2>3 DEF Counted
    <3>2. Asking'
      BY <1>1, <2>1, <2>3 DEF Asking
    <3>3. pc' \in Walking
      BY <2>3 DEF Walking
    <3> QED BY <1>2, <1>3, <1>4, <2>1, <2>3, <3>1, <3>2, <3>3, WalkGoes
  <2> QED BY <2>1, <2>2, <2>3
<1>7. CASE SkipMs
  <2>1. /\ todo # <<>> /\ Head(todo).ms /\ todo' = Tail(todo) /\ UNCHANGED <<info, pc>>
        /\ pc = "target"
    BY <1>7 DEF SkipMs, Target
  <2>2. Calm' => Counted'
    BY <1>1, <1>2, <1>4, <2>1, Struck
  <2> QED BY <1>3, <1>4, <2>1, <2>2, WalkGoes
<1>8. CASE AskName
  <2> DEFINE t == Head(todo).addr
  <2>1. /\ pc = "name" /\ Asking /\ UNCHANGED info
        /\ \/ /\ pc' = "target" /\ todo' = Tail(todo) /\ ~ByTable /\ t \notin roster
              /\ Calm' => Named = "none"
           \/ /\ pc' = "cal" /\ todo' = todo /\ tool' = tool
              /\ at'.named => Named # "none"
              /\ at'.named \/ ByTable \/ t \in roster
    <3>1. pc = "name" /\ Asking
      BY <1>5, <1>8 DEF AskName
    <3> DEFINE Reply(r) == IF r = "none" /\ ~ByTable /\ t \notin roster
                           THEN Skip /\ UNCHANGED at
                           ELSE /\ pc' = "cal" /\ at' = [named |-> (r # "none")]
                                /\ UNCHANGED <<info, todo>>
    <3>2. tool' = tool /\ (Reply(Named) \/ (Reply("none") /\ trouble' = trouble - 1))
      BY <1>8 DEF AskName, Ask, Target
    <3>3. ASSUME NEW r, Reply(r), r = Named \/ (r = "none" /\ trouble' = trouble - 1)
          PROVE  \/ /\ pc' = "target" /\ todo' = Tail(todo) /\ ~ByTable /\ t \notin roster
                    /\ Calm' => Named = "none"
                 \/ /\ pc' = "cal" /\ todo' = todo /\ tool' = tool
                    /\ at'.named => Named # "none"
                    /\ at'.named \/ ByTable \/ t \in roster
      <4>1. at' = [named |-> (r # "none")] => at'.named = (r # "none")
        OBVIOUS
      <4>2. ByTable \in BOOLEAN /\ (t \notin roster) \in BOOLEAN
        BY DEF ByTable
      <4>3. CASE r = "none" /\ ~ByTable /\ t \notin roster
        BY <1>2, <3>2, <3>3, <4>3 DEF Skip
      <4>4. CASE ~(r = "none" /\ ~ByTable /\ t \notin roster)
        <5>1. pc' = "cal" /\ at' = [named |-> (r # "none")] /\ todo' = todo
          BY <3>3, <4>4
        <5>2. (at'.named => Named # "none") /\ (at'.named \/ ByTable \/ t \in roster)
          BY <3>3, <4>1, <4>4, <5>1
        <5> QED BY <3>2, <5>1, <5>2
      <4> QED BY <4>3, <4>4
    <3>4. info' = info
      BY <3>2 DEF Skip
    <3> QED BY <3>1, <3>2, <3>3, <3>4
  <2>2. Named # "none" => t \in Vehicle.named
    BY DEF Named, Hears, Target
  <2>3. Calm /\ Named = "none" => t \notin Vehicle.named
    BY <1>1, <1>2, <2>1 DEF Named, Hears, Target, Asking
  <2>4. CASE pc' = "target"
    <3>1. ~ByTable /\ (Calm => t \notin Vehicle.functional) /\ todo' = Tail(todo)
      BY <1>5, <2>1, <2>4
    <3>2. Calm' => t \notin Findable
      BY <1>2, <2>1, <2>3, <2>4, <3>1 DEF Findable
    <3>3. Calm' => Counted'
      BY <1>1, <1>2, <1>4, <2>1, <3>1, <3>2, Struck DEF Asking
    <3> QED BY <1>3, <1>4, <2>1, <2>4, <3>1, <3>3, WalkGoes DEF Asking, Walking
  <2>5. CASE pc' = "cal"
    <3>1. todo' = todo /\ tool' = tool /\ (at'.named => t \in Vehicle.named)
      BY <2>1, <2>2, <2>5
    <3>2. ~ByTable => t \in Findable
      BY <1>4, <1>5, <2>1, <2>2, <2>5
    <3>3. Counted' <=> Counted
      BY <1>1, <2>1, <3>1 DEF Counted
    <3>4. Asking'
      BY <1>1, <1>2, <2>1, <2>5, <3>1, <3>2 DEF Asking
    <3> QED BY <1>2, <1>3, <1>4, <2>1, <2>5, <3>1, <3>3, <3>4, WalkGoes DEF Walking
  <2> QED BY <2>1, <2>4, <2>5
<1>9. CASE AskCal \/ Presence
  <2> DEFINE t == Head(todo).addr
  <2>1. /\ pc \in {"cal", "presence"} /\ Asking /\ pc' = "target" /\ todo' = Tail(todo)
    BY <1>5, <1>9 DEF AskCal, Presence, Ask, Skip, Keep
  <2>2. \/ info' = info /\ (Calm' => t \notin Findable)
        \/ info'.ecus = info.ecus \cup {t} /\ t \in Findable
    <3>1. CASE AskCal
      <4>1. \/ /\ info' = info /\ ByTable /\ (Calm' => Named = "none")
            \/ /\ info'.ecus = info.ecus \cup {t}
               /\ ByTable => at.named \/ Named # "none"
        BY <1>2, <1>4, <3>1 DEF AskCal, Ask, Skip, Keep, Target, Fields
      <4>2. Named # "none" => t \in Vehicle.named
        BY DEF Named, Hears, Target
      <4>3. Calm /\ Named = "none" => t \notin Vehicle.named
        BY <1>1, <1>2, <2>1 DEF Named, Hears, Target, Asking
      <4>4. pc = "cal"
        BY <3>1 DEF AskCal
      <4>5. ByTable /\ t \notin Vehicle.named /\ Own => t \notin Findable
        <5>1. SUFFICES ASSUME ByTable, t \notin Vehicle.named, Own PROVE t \notin Fitted
          BY DEF Findable
        <5>2. t \in Block
          BY <2>1, <4>4, <5>1 DEF Asking
        <5>3. t \in Listed(TableOf(trip[leg].vehicle)) /\ trip[leg].vehicle \in DOMAIN Vehicles
          BY <1>1, <1>4, <1>5, <2>1, <5>1, Car, Listing DEF Asking
        <5> QED BY <5>1, <5>2, <5>3 DEF Answering, Listed, TableOf, Fitted, Vehicle
      <4> QED BY <1>2, <1>4, <2>1, <4>1, <4>2, <4>3, <4>4, <4>5 DEF Asking
    <3>2. CASE Presence
      <4> DEFINE there == Vehicle.positive \cup Vehicle.refusing
      <4>1. pc = "presence" /\ tool.header = t /\ ByTable /\ t \notin Block
        BY <2>1, <3>2 DEF Presence, Asking
      <4>2. \/ info' = info /\ (Calm' => t \notin there)
            \/ info'.ecus = info.ecus \cup {t} /\ t \in there
        BY <1>1, <1>2, <1>4, <3>2, <4>1 DEF Presence, Ask, Skip, Keep, Hears,
                                        Target, Fields
      <4>3. t \in there => t \in Findable
        BY <4>1 DEF Findable, Fitted, FittedOf, Vehicle
      <4>4. Own /\ t \in Findable => t \in there
        <5> SUFFICES ASSUME Own, t \in Findable PROVE t \in there
          OBVIOUS
        <5>1. t \in Listed(TableOf(trip[leg].vehicle)) /\ trip[leg].vehicle \in DOMAIN Vehicles
          BY <1>1, <1>4, <1>5, <2>1, <4>1, Car, Listing DEF Asking
        <5> QED BY <4>1, <5>1 DEF Findable, Answering, Listed, TableOf, Fitted, Vehicle
      <4> QED BY <1>2, <4>2, <4>3, <4>4
    <3> QED BY <1>9, <3>1, <3>2
  <2>3. Calm' => Counted'
    BY <1>1, <1>2, <1>4, <2>1, <2>2, Struck DEF Asking
  <2> QED BY <1>3, <1>4, <2>1, <2>2, <2>3, WalkGoes DEF Asking, Walking
<1>10. CASE EndWalk
  <2>1. pc = "target" /\ todo = <<>> /\ pc' = "strategy" /\ UNCHANGED info
    BY <1>10 DEF EndWalk, Ask
  <2>2. Counted => info.ecus = Asked \cap Fitted
    BY <2>1, NothingListed DEF Counted
  <2> QED BY <1>1, <1>2, <1>4, <2>1, <2>2 DEF Walked, Walking, Reading
<1> QED BY <1>6, <1>7, <1>8, <1>9, <1>10 DEF Walks

-----------------------------------------------------------------------------
LEMMA WalkedNext ==
  ASSUME Sound, OneCar, Answering, Shape, Heard, Placed, Walked, Manned, Talks PROVE Walked'
<1>1. CASE pc' \notin {"strategy", "save"} \cup Walking \cup Reading
  BY <1>1 DEF Walked, Walking, Reading
<1>2. CASE Shakes \/ Places \/ Ends
  <2>1. CASE Shakes
    <3>1. pc' \notin {"strategy", "save"} \cup Walking \cup Reading
      BY <2>1 DEF Shakes, InitList, InitHeaders, InitTimeout, VerifyEcho, Purge,
           ProbeBatch, ProbeFormat, Ready, initSame, Ask, Fails, Walking,
           Reading
    <3> QED BY <1>1, <3>1
  <2>2. CASE Places
    <3>1. pc' \notin {"strategy", "save"} \cup Walking \cup Reading
      BY <2>2 DEF Places, Sniff, AskProtocol, GatherVin, Identify, CheckCache,
           identSame, Ask, Fails, Walking, Reading
    <3> QED BY <1>1, <3>1
  <2>3. CASE Ends
    <3>1. pc' \notin {"strategy", "save"} \cup Walking \cup Reading
      BY <2>3 DEF Ends, Save, Persist, ProbeChunk, Established, readSame,
           Ask, Walking, Reading
    <3> QED BY <1>1, <3>1
  <2> QED BY <1>2, <2>1, <2>2, <2>3
<1>3. CASE Surveys
  <2>1. CASE Roster /\ pc' = "target"
    BY <2>1, RosterWalked DEF Walked, Walking, Reading, Row
  <2>2. CASE ~(Roster /\ pc' = "target")
    <3>1. pc' \notin {"strategy", "save"} \cup Walking \cup Reading
      BY <1>3, <2>2 DEF Surveys, EngineType, Support, Roster, identSame, Ask,
           Fails, NextMode, Walking, Reading
    <3> QED BY <1>1, <3>1
  <2> QED BY <2>1, <2>2
<1>4. CASE Walks
  BY <1>4, WalkSteps
<1>5. CASE Reads
  <2>1. /\ pc \in {"backfill", "strategy"} \cup Reading /\ pc' \notin Walking
        /\ info'.ecus = info.ecus /\ info'.vin = info.vin /\ UNCHANGED files
    <3>1. DOMAIN info = Fields
      BY DEF Shape
    <3>2. pc \in {"backfill", "strategy"} \cup Reading /\ pc' \notin Walking
      BY <1>5 DEF Reads, Backfill, NoGate, TargetPcm, ReadGm, OpenFord,
           ReadWindows, CloseFord, Broadcast, readSame, Ask, AfterRead,
           Gate, Walking, Reading
    <3>3. info'.ecus = info.ecus /\ info'.vin = info.vin /\ UNCHANGED files
      BY <1>5, <3>1 DEF Reads, Backfill, NoGate, TargetPcm, ReadGm, OpenFord,
           ReadWindows, CloseFord, Broadcast, readSame, Ask, Learn, Fields
    <3> QED BY <3>2, <3>3
  <2>2. /\ Asked' = Asked /\ Fitted' = Fitted /\ (Calm' => Calm)
        /\ (Cached' <=> Cached)
    <3>1. Cached' = Cached
      BY <2>1 DEF Cached, Unread
    <3> QED BY <1>5, <3>1, SameWalk, Answered DEF Talks
  <2>3. pc' = "save" => ~Cached /\ pc \in {"strategy"} \cup Reading
    BY <1>5 DEF Reads, Backfill, NoGate, TargetPcm, ReadGm, OpenFord,
         ReadWindows, CloseFord, Broadcast, readSame, Ask, AfterRead,
         Gate, Reading
  <2>4. pc = "backfill" => Cached
    <3>1. pc = "backfill" => info = files[info.vin] /\ info.vin # "none"
      BY DEF Placed, Placeable, Identified
    <3> QED BY <3>1 DEF Cached, Unread
  <2>5. pc \in {"strategy"} \cup Reading /\ ~Cached /\ Calm =>
          info.ecus = Asked \cap Fitted
    BY DEF Walked
  <2>6. pc' \in {"strategy"} \cup Reading /\ ~Cached' /\ Calm' =>
          info'.ecus = Asked' \cap Fitted'
    BY <2>1, <2>2, <2>4, <2>5
  <2>7. pc' = "save" => ~Cached' /\ (Calm' => info'.ecus = Asked' \cap Fitted')
    BY <2>1, <2>2, <2>3, <2>5
  <2> QED BY <2>1, <2>6, <2>7 DEF Walked, Walking
<1> QED BY <1>2, <1>3, <1>4, <1>5 DEF Talks

(* A step that leaves the files alone, and finds nobody who is not there.  *)
LEMMA MannedKept ==
  ASSUME Shape, Manned, Surveys \/ Walks \/ Reads \/ Ends, UNCHANGED files,
         Own => info'.ecus \subseteq Fitted,
         info'.whole => info.whole /\ info'.ecus = info.ecus,
         pc' \in {"cache"} \cup Surveying => info'.ecus = {},
         pc' \in {"cache"} \cup Surveying \cup Walking => ~info'.whole
  PROVE  Manned'
<1>1. Placeable /\ Asked' = Asked /\ Fitted' = Fitted /\ Own' = Own
  BY SameWalk, Unmoved
<1>2. Own' => FittedFound'
  BY <1>1 DEF Manned, FittedFound
<1>3. \A v \in DOMAIN Vehicles :
        LET file == files'[Vehicles[v].vin]
        IN file # Unread' => /\ file.ecus \subseteq FittedOf(v)
                             /\ file.whole => file.ecus = AskedOf(v) \cap FittedOf(v)
  BY DEF Manned, Unread
<1> QED BY <1>2, <1>3 DEF Manned

LEMMA MannedNext ==
  ASSUME Sound, OneCar, Answering, Shape, Heard, Placed, Walked, Manned, Talks
  PROVE  Manned'
<1>1. DOMAIN info = Fields /\ DOMAIN files = DOMAIN Datasets
  BY DEF Shape
<1> DEFINE Filing(fs) == \A v \in DOMAIN Vehicles :
             fs[Vehicles[v].vin] # Unread =>
               /\ fs[Vehicles[v].vin].ecus \subseteq FittedOf(v)
               /\ fs[Vehicles[v].vin].whole =>
                    fs[Vehicles[v].vin].ecus = AskedOf(v) \cap FittedOf(v)
<1>2. Filing(files)
  BY DEF Manned
<1>3. CASE UNCHANGED files /\ ~Placeable'
  <2>1. pc' \notin {"cache"} \cup Surveying \cup Walking
    BY <1>3 DEF Placeable, Identified
  <2> QED BY <1>2, <1>3, <2>1 DEF Manned, Unread
<1>4. CASE Shakes \/ Sniff \/ AskProtocol
  <2>1. CASE Shakes
    <3>1. UNCHANGED files
      BY <2>1 DEF Shakes, InitList, InitHeaders, InitTimeout, VerifyEcho, Purge, ProbeBatch,
                  ProbeFormat, Ready, initSame
    <3>2. pc' \in {"closed"} \cup Shaking /\ outcome' # "connected"
      BY <2>1 DEF Shakes, InitList, InitHeaders, InitTimeout, VerifyEcho, Purge,
           ProbeBatch, ProbeFormat, Ready, initSame, Ask, Fails, Shaking,
           Shape
    <3> QED BY <1>3, <3>1, <3>2
            DEF Placeable, Identified, Surveying, Walking, Reading, Shaking
  <2>2. CASE Sniff \/ AskProtocol
    <3>1. UNCHANGED files
      BY <2>2 DEF Sniff, AskProtocol, identSame
    <3>2. pc' \in {"closed", "vin", "atdpn"} /\ outcome' # "connected"
      BY <2>2 DEF Sniff, AskProtocol, Ask, Fails, Shape
    <3> QED BY <1>3, <3>1, <3>2 DEF Placeable, Identified, Surveying, Walking, Reading
  <2> QED BY <1>4, <2>1, <2>2
<1>5. CASE GatherVin
  <2>1. UNCHANGED files /\ info'.ecus = {} /\ ~info'.whole
    BY <1>5 DEF GatherVin, Identify, Ask, identSame, Unread
  <2> QED BY <1>2, <2>1 DEF Manned, FittedFound, Unread
<1>6. CASE CheckCache
  <2>1. Placeable /\ UNCHANGED <<files, session, trip, leg, outcome>> /\ pc = "cache"
    BY <1>6, SameLeg DEF CheckCache, identSame, Talks, Places, Placeable, Identified
  <2>2. Fitted' = Fitted /\ Asked' = Asked /\ Own' = Own
    BY <2>1 DEF Fitted, Asked, Table, ByTable, Dataset, Vehicle, Own
  <2>3. CASE pc' = "engine" /\ UNCHANGED info
    BY <1>2, <2>1, <2>2, <2>3 DEF Manned, FittedFound, Unread
  <2>4. CASE info' = files[info.vin] /\ pc' = "backfill" /\ files[info.vin] # Unread
    <3>1. Own => /\ info'.ecus \subseteq Fitted
                 /\ info'.whole => info'.ecus = Asked \cap Fitted
      BY <1>2, <2>1, <2>4, Car DEF Fitted
    <3> QED BY <1>2, <2>1, <2>2, <2>4, <3>1
            DEF Manned, FittedFound, Surveying, Walking, Unread
  <2> QED BY <1>6, <2>3, <2>4 DEF CheckCache
<1>7. CASE Surveys
  <2>1. UNCHANGED files /\ pc \in Surveying
    BY <1>7 DEF Surveys, EngineType, Support, Roster, identSame, Surveying
  <2>2. info'.ecus = info.ecus /\ info'.whole = info.whole
    BY <1>1, <1>7 DEF Surveys, EngineType, Support, Roster, identSame, Ask,
         Fields
  <2>3. info'.ecus = {} /\ ~info'.whole
    BY <2>1, <2>2 DEF Manned
  <2> QED BY <1>7, <2>1, <2>3, MannedKept
<1>8. CASE Walks
  <2>1. UNCHANGED files /\ pc \in Walking /\ pc' \in {"strategy"} \cup Walking
    BY <1>8 DEF Walks, Target1, SkipMs, AskName, AskCal, Presence,
         EndWalk, walkSame, Ask, Skip, Keep, Walking
  <2>2. info'.whole = info.whole
    BY <1>1, <1>8 DEF Walks, Target1, SkipMs, AskName, AskCal, Presence,
         EndWalk, walkSame, Ask, Skip, Keep, Fields
  <2>3. ~info'.whole
    BY <2>1, <2>2 DEF Manned
  <2>4. pc' \notin {"cache"} \cup Surveying
    BY <2>1 DEF Walking, Surveying
  <2> QED BY <1>8, <2>1, <2>3, <2>4, WalkSteps, MannedKept
<1>9. CASE Reads
  <2>1. UNCHANGED files /\ pc' \notin {"cache"} \cup Surveying \cup Walking
    BY <1>9 DEF Reads, Backfill, NoGate, TargetPcm, ReadGm, OpenFord,
         ReadWindows, CloseFord, Broadcast, readSame, Ask, AfterRead,
         Gate, Walking, Surveying
  <2>2. info'.ecus = info.ecus /\ info'.whole = info.whole
    BY <1>1, <1>9 DEF Reads, Backfill, NoGate, TargetPcm, ReadGm, OpenFord,
         ReadWindows, CloseFord, Broadcast, readSame, Ask, Learn, Fields
  <2>3. Own => info.ecus \subseteq Fitted
    BY <1>9, Unmoved DEF Manned, FittedFound
  <2> QED BY <1>9, <2>1, <2>2, <2>3, MannedKept
<1>10. CASE Ends
  <2>1. /\ Placeable /\ (Own => FittedFound) /\ Asked' = Asked /\ Fitted' = Fitted
        /\ Own' = Own
        /\ pc' \notin {"cache"} \cup Surveying \cup Walking
    <3>1. pc' \notin {"cache"} \cup Surveying \cup Walking
      BY <1>10 DEF Ends, Save, Persist, ProbeChunk, Established, readSame,
           Ask, Walking, Surveying
    <3> QED BY <1>10, <3>1, Unmoved, SameWalk DEF Manned
  <2>2. info'.ecus = info.ecus /\ (Own /\ info'.whole => info.ecus = Asked \cap Fitted)
    <3>1. CASE Save
      <4>1. info'.ecus = info.ecus /\ info'.whole = Calm
        BY <1>1, <3>1 DEF Save, Fields, Calm
      <4>2. Calm => info.ecus = Asked \cap Fitted
        BY <3>1 DEF Save, Walked
      <4> QED BY <2>1, <4>1, <4>2
    <3>2. CASE ~Save
      <4>1. info' = info
        BY <1>10, <3>2 DEF Ends, Save, Persist, ProbeChunk, Established,
             readSame, Ask
      <4> QED BY <2>1, <4>1 DEF FittedFound
    <3> QED BY <3>1, <3>2
  <2>3. files' = files \/ files' = [files EXCEPT ![info.vin] = info']
    BY <1>10 DEF Ends, Save, Persist, ProbeChunk, Established, readSame, Ask
  <2>4. Filing(files')
    <3>1. ASSUME NEW v \in DOMAIN Vehicles, Vehicles[v].vin = info.vin
          PROVE  info'.ecus \subseteq FittedOf(v)
                 /\ (info'.whole => info'.ecus = AskedOf(v) \cap FittedOf(v))
      <4>1. v = trip[leg].vehicle /\ Own
        BY <2>1, <3>1, Itself
      <4>2. info.ecus \subseteq FittedOf(v) /\ AskedOf(v) = Asked
            /\ FittedOf(v) = Fitted
        BY <2>1, <4>1, Car DEF FittedFound, Fitted
      <4> QED BY <2>2, <4>1, <4>2
    <3>2. ASSUME NEW v \in DOMAIN Vehicles
          PROVE  files'[Vehicles[v].vin] =
                   IF files' # files /\ Vehicles[v].vin = info.vin THEN info'
                   ELSE files[Vehicles[v].vin]
      BY <1>1, <2>3, <3>2 DEF Sound
    <3> QED BY <1>2, <3>1, <3>2
  <2> QED BY <2>1, <2>2, <2>4 DEF Manned, FittedFound, Unread
<1> QED BY <1>4, <1>5, <1>6, <1>7, <1>8, <1>9, <1>10 DEF Talks, Places

-----------------------------------------------------------------------------
(* The next connect starts from what the last one left.                    *)
LEMMA ShapeOpen == ASSUME Sound, Shape, Opens PROVE Shape'
<1> DEFINE Leg == [adapter : DOMAIN Adapters, vehicle : DOMAIN Vehicles, pref : BOOLEAN]
<1>1. trip \in Seq(Leg) /\ trip' = trip /\ trip \in Trips
  BY DEF Sound, Shape, Opens
<1>2. leg \in Nat /\ leg < Len(trip) /\ leg' = leg + 1 /\ Len(trip) \in Nat
  BY <1>1 DEF Shape, Opens
<1>3. leg' \in 0 .. Len(trip') /\ leg' # 0
  BY <1>1, <1>2
<1>4. /\ pc' = "init" /\ outcome' = "none" /\ shaken' = FALSE /\ acked' = acked
      /\ trouble' = MaxTrouble /\ session' = session /\ files' = files
      /\ info' = Unread /\ MaxTrouble \in Nat
  BY DEF Opens, Sound
<1>5. /\ DOMAIN tool' = {"echo", "headers", "header", "slots", "batch", "extended"}
      /\ DOMAIN facts' = {"pipes", "cap", "periodic"} /\ DOMAIN plugin' = {"pipe", "chunk", "mode22"}
      /\ DOMAIN info' = Fields
  BY DEF Opens, Shape, Unread, Fields, Reset, Cataloged
<1>6. pc' \in Shaking /\ trouble' \in Nat /\ trouble' <= MaxTrouble
  BY <1>4 DEF Shaking
<1> QED BY <1>1, <1>3, <1>4, <1>5, <1>6 DEF Shape

LEMMA InvOpen == ASSUME Sound, UpInv, Opens PROVE UpInv'
<1>1. /\ pc' = "init" /\ outcome' = "none" /\ ~Placeable' /\ UNCHANGED files
      /\ pc' \notin Walking \cup Reading \cup Surveying
  BY DEF Opens, Placeable, Identified, Surveying, Walking, Reading
<1>2. Shape'
  BY ShapeOpen DEF UpInv
<1>3. Heard' /\ Learned'
  BY <1>1 DEF Heard, Learned, Opens
<1>4. Restored'
  BY <1>1 DEF Restored, Opens, Reset, Broadcasting
<1>5. Placed'
  BY <1>1 DEF Placed, UpInv, Unread
<1>6. Fresh'
  <2>1. Adapter' = Adapters[trip[leg + 1].adapter] /\ facts.cap \in Nat
    BY DEF Opens, Adapter, UpInv, Fresh
  <2>2. Adapter'.cap \in Nat
    <3> DEFINE Leg == [adapter : DOMAIN Adapters, vehicle : DOMAIN Vehicles, pref : BOOLEAN]
    <3>1. trip \in Seq(Leg) /\ leg + 1 \in 1 .. Len(trip)
      <4>1. trip \in Seq(Leg)
        BY DEF UpInv, Shape, Sound
      <4>2. leg \in 0 .. Len(trip) /\ leg < Len(trip)
        BY DEF UpInv, Shape, Opens
      <4> QED BY <4>1, <4>2
    <3>2. trip[leg + 1] \in Leg
      <4> HIDE DEF Leg
      <4> QED BY <3>1
    <3>3. trip[leg + 1].adapter \in DOMAIN Adapters
      BY <3>2
    <3> QED BY <2>1, <3>3 DEF Sound
  <2>3. DOMAIN plugin = {"pipe", "chunk", "mode22"}
    BY DEF UpInv, Shape
  <2>4. facts'.pipes = FALSE /\ plugin'.pipe = FALSE /\ plugin'.chunk = FALSE
    BY <2>3 DEF Opens, Cataloged
  <2>5. /\ facts'.cap = IF Adapter'.cap = 0 THEN facts.cap ELSE Adapter'.cap
        /\ Adapter'.periodic # "unsaid" => facts'.periodic = (Adapter'.periodic = "yes")
    BY <2>1 DEF Opens, Cataloged
  <2> QED BY <1>1, <2>1, <2>2, <2>4, <2>5 DEF Fresh
<1> QED BY <1>2, <1>3, <1>4, <1>5, <1>6 DEF UpInv

LEMMA UpStart ==
  ASSUME Sound, BringupInit PROVE UpMen
<1>1. /\ trip \in Trips /\ leg = 0 /\ pc = "closed" /\ outcome = "none" /\ ~Placeable
      /\ trouble = MaxTrouble /\ MaxTrouble \in Nat
      /\ pc \notin Walking \cup Reading \cup Surveying
  BY DEF BringupInit, Sound, Placeable, Identified, Surveying, Walking, Reading
<1>2. Shape
  <2>1. leg \in 0 .. Len(trip)
    <3>1. Len(trip) \in Nat
      BY <1>1 DEF Sound
    <3> QED BY <1>1, <3>1
  <2>2. /\ DOMAIN tool = {"echo", "headers", "header", "slots", "batch", "extended"}
        /\ DOMAIN facts = {"pipes", "cap", "periodic"} /\ DOMAIN plugin = {"pipe", "chunk", "mode22"}
        /\ DOMAIN session = {"addressing", "primary", "attached", "sniffed", "whole"}
    BY DEF BringupInit, Reset
  <2>3. DOMAIN info = Fields /\ DOMAIN files = DOMAIN Datasets
        /\ \A vin \in DOMAIN Datasets : DOMAIN files[vin] = Fields
    BY DEF BringupInit, Unread, Fields
  <2>4. shaken \in BOOLEAN /\ acked \in BOOLEAN /\ trouble <= MaxTrouble
    <3>1. shaken = FALSE /\ acked = FALSE
      BY DEF BringupInit
    <3>2. trouble <= MaxTrouble
      BY <1>1
    <3> QED BY <3>1, <3>2
  <2> QED BY <1>1, <2>1, <2>2, <2>3, <2>4 DEF Shape
<1>3. Heard /\ Restored /\ Learned /\ Walked
  BY <1>1 DEF Heard, Restored, Broadcasting, Learned, Walked, BringupInit
<1>4. \A vin \in DOMAIN files : files[vin] = Unread
  BY DEF BringupInit
<1>5. Placed
  BY <1>1, <1>4 DEF Placed
<1>6. Fresh
  <2>1. facts.cap = 6 /\ facts.pipes = FALSE
    BY DEF BringupInit
  <2>2. plugin.pipe = FALSE /\ plugin.chunk = FALSE
    BY DEF BringupInit
  <2> QED BY <1>1, <2>1, <2>2 DEF Fresh
<1>7. Manned
  <2>1. \A v \in DOMAIN Vehicles : files[Vehicles[v].vin] = Unread
    BY <1>4 DEF Sound, BringupInit
  <2> QED BY <1>1, <2>1 DEF Manned
<1> QED BY <1>2, <1>3, <1>5, <1>6, <1>7 DEF UpMen, UpInv

LEMMA UpStep == ASSUME BringupNext PROVE Opens \/ Talks \/ UNCHANGED bringupVars
  BY DEF BringupNext, Talks, Shakes, Places, Surveys, Walks, Reads, Ends, Done

LEMMA UpNext == ASSUME Sound, UpInv, [BringupNext]_bringupVars PROVE UpInv'
<1>1. CASE Opens
  BY <1>1, InvOpen
<1>2. CASE Talks
  BY <1>2, ShapeNext, HeardNext, RestoredNext, PlacedNext, FreshNext, LearnedNext DEF UpInv
<1>3. CASE UNCHANGED bringupVars
  <2> USE <1>3 DEF bringupVars, run, walk, state
  <2>1. /\ Vehicle' = Vehicle /\ Adapter' = Adapter /\ Can' = Can
        /\ Givers' = Givers
    BY SameCar
  <2>2. Gate' = Gate
    BY DEF Gate, Dataset
  <2>3. Shape' /\ Heard'
    BY <2>1 DEF Shape, Heard, Misled, Missing, Calm, Placeable, UpInv
  <2>4. Restored' /\ Fresh'
    BY <2>1 DEF Restored, Broadcasting, Fresh, UpInv
  <2>5. Placed'
    BY <2>1 DEF Placed, Placeable, UpInv
  <2>6. Learned'
    BY <2>1, <2>2 DEF Learned, Calm, Wanted, UpInv
  <2> QED BY <2>3, <2>4, <2>5, <2>6 DEF UpInv
<1> QED BY <1>1, <1>2, <1>3, UpStep

LEMMA UpMenNext ==
  ASSUME Sound, OneCar, Answering, UpMen, [BringupNext]_bringupVars PROVE UpMen'
<1>1. UpInv'
  BY UpNext DEF UpMen
<1>2. CASE Opens
  <2>1. /\ pc' = "init" /\ outcome' = "none" /\ ~Placeable' /\ UNCHANGED files
        /\ pc' \notin Walking \cup Reading \cup Surveying
    BY <1>2 DEF Opens, Placeable, Identified, Surveying, Walking, Reading
  <2>2. Walked' /\ Manned'
    BY <2>1 DEF Walked, Manned, UpMen, Unread
  <2> QED BY <1>1, <2>2 DEF UpMen
<1>3. CASE Talks
  BY <1>1, <1>3, WalkedNext, MannedNext DEF UpMen, UpInv
<1>4. CASE UNCHANGED bringupVars
  <2> USE <1>4 DEF bringupVars, run, walk, state
  <2>1. Vehicle' = Vehicle /\ Fitted' = Fitted
    BY SameCar
  <2>2. /\ Table' = Table /\ ByTable' = ByTable /\ Asked' = Asked
        /\ Findable' = Findable
    BY <2>1 DEF Table, ByTable, Dataset, Asked, Findable
  <2>3. Walked'
    BY <2>1, <2>2 DEF Walked, Calm, Counted, Cached, Unread, UpMen
  <2>4. Manned'
    BY <2>1, <2>2 DEF Manned, Placeable, FittedFound, Own, UpMen
  <2> QED BY <1>1, <2>3, <2>4 DEF UpMen
<1> QED BY <1>2, <1>3, <1>4, UpStep

(* Whatever adapters and vehicles the session meets and however much gets    *)
(* lost, detect_addressing (elm.rs) calls a vehicle unsupported only if it is *)
(* no CAN vehicle, if the adapter never took ATH1 - which nothing verifies -  *)
(* or if it missed ATE0 and its repetition and echoes.                       *)
THEOREM UnsupportedTrue == ASSUME Sound PROVE BringupSpec => []NonCanTrue
<1>1. BringupInit => UpInv
  BY UpStart DEF UpMen
<1>2. UpInv /\ [BringupNext]_bringupVars => UpInv'
  BY UpNext
<1>3. UpInv => NonCanTrue
  BY DEF UpInv, Heard, Misled, NonCanTrue, Missing, Lost
<1> QED BY <1>1, <1>2, <1>3, PTL DEF BringupSpec

(* However a connect ended, the adapter broadcasts again and the PCM is out *)
(* of its extended session, unless a command that says so was disturbed.    *)
THEOREM ToolGivenBack == ASSUME Sound PROVE BringupSpec => []ToolRestored
<1>1. BringupInit => UpInv
  BY UpStart DEF UpMen
<1>2. UpInv /\ [BringupNext]_bringupVars => UpInv'
  BY UpNext
<1>3. UpInv => ToolRestored
  <2>1. SUFFICES ASSUME UpInv, outcome # "none", ~shaken
                 PROVE  tool.header = Functional /\ ~tool.extended
    BY DEF ToolRestored
  <2>2. Broadcasting
    BY <2>1 DEF UpInv, Shape, Broadcasting, Walking, Reading
  <2> QED BY <2>1, <2>2 DEF UpInv, Restored
<1> QED BY <1>1, <1>2, <1>3, PTL DEF BringupSpec

(* A calibration that is wanted and given is known after any undisturbed    *)
(* connect, live or from a file that has none yet.                          *)
THEOREM CalibrationRead == ASSUME Sound PROVE BringupSpec => []StrategyKnown
<1>1. BringupInit => UpInv
  BY UpStart DEF UpMen
<1>2. UpInv /\ [BringupNext]_bringupVars => UpInv'
  BY UpNext
<1>3. UpInv => StrategyKnown
  <2>1. SUFFICES ASSUME UpInv, outcome = "connected", Lost = 0, Gate # "none",
                        Vehicle.strategy, PCM \in Vehicle.functional
                 PROVE  info.strategy /\ files[info.vin].strategy
    BY DEF StrategyKnown
  <2>2. Calm
    <3>1. MaxTrouble \in Nat /\ trouble \in Nat
      BY <2>1 DEF Sound, UpInv, Shape
    <3> QED BY <2>1, <3>1 DEF Lost, Calm
  <2> QED BY <2>1, <2>2 DEF UpInv, Learned, Wanted
<1> QED BY <1>1, <1>2, <1>3, PTL DEF BringupSpec

(* What a connected session knows is true of the pair it is connected to,   *)
(* over any sequence of connects with any adapters and vehicles: pipes and   *)
(* chunks, the addressing, the chunk cap and periodic engine as far as the   *)
(* catalog's entry says them, and a primary ECU that was seen to answer; and *)
(* if all lines of 0902 came, in a world where a VIN is one vehicle's and    *)
(* its modules give themselves away, dataset, VIN, and a roster without      *)
(* anyone who is not there or, undisturbed, any gap.                         *)
THEOREM FactsOwned ==
  ASSUME Sound, OneCar, Answering PROVE BringupSpec => []FactsTrue
<1>1. BringupInit => UpMen
  BY UpStart
<1>2. UpMen /\ [BringupNext]_bringupVars => UpMen'
  BY UpMenNext
<1>3. UpMen => FactsTrue
  <2>1. SUFFICES ASSUME UpMen, outcome = "connected"
                 PROVE  /\ OwnFacts
                        /\ session.whole => /\ session.attached = Vehicle.vin
                                            /\ info.vin = Vehicle.vin /\ FittedFound
    BY DEF FactsTrue
  <2>2. /\ Placeable /\ Shape /\ Heard /\ Placed /\ Fresh /\ Manned /\ pc = "closed"
        /\ leg > 0
    BY <2>1 DEF Placeable, UpMen, UpInv, Shape
  <2>3. OwnFacts
    BY <2>2 DEF Placed, Fresh, OwnFacts, Surveying
  <2>4. session.whole => info.vin = Vehicle.vin
    <3>1. /\ trip[leg].vehicle \in DOMAIN Vehicles /\ info.vin \in Range(Vehicle.vins)
          /\ session.whole => info.vin = Vehicle.vins[Min(Givers)]
      BY <2>1, <2>2, Car DEF Placed
    <3>2. Givers # {}
      BY <3>1 DEF Givers, Range
    <3> QED BY <3>1, <3>2 DEF OneCar, Vehicle, Givers
  <2>5. session.attached = info.vin
    BY <2>2 DEF Placed
  <2> QED BY <2>2, <2>3, <2>4, <2>5 DEF Manned, Own
<1> QED BY <1>1, <1>2, <1>3, PTL DEF BringupSpec
=============================================================================
