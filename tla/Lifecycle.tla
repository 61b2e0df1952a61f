----------------------------- MODULE Lifecycle ------------------------------
(***************************************************************************)
(* The life of a session (src/src/session_manager/worker.rs, connect.rs,   *)
(* discovery.rs) over the connectors whose transport the library owns      *)
(* (src/src/external_platform.rs, the Rust route).                         *)
(*                                                                         *)
(* The host's thread connects, selects and disconnects; a discovery thread *)
(* per attempt fills the picker; one worker takes Connect, Disconnect and  *)
(* Drop messages off a mailbox; a thread per open and one per link report  *)
(* to the platform.  They agree through two atomics: the session epoch,    *)
(* whose value names the current attempt (its generation), and the claim   *)
(* of whoever ends it.  The actions cut every handler at each access to    *)
(* what another thread may change.                                         *)
(***************************************************************************)
EXTENDS Naturals, Sequences, FiniteSets

CONSTANTS
  MaxBegins,       \* bound: attempts begun (a connect and a selection are one each)
  MaxDisconnects,  \* bound: user disconnects
  MaxDrops         \* bound: links that break by themselves

ASSUME LifecycleAssumption == {MaxBegins, MaxDisconnects, MaxDrops} \subseteq Nat

VARIABLES
  epoch,       \* session_epoch
  claimed,     \* terminal_claimed
  phase,       \* Phase, with the epoch it carries
  awaiting,    \* awaiting_selection
  mailbox,     \* the lifecycle worker's messages
  host,        \* the host's call in progress: where it is, its generation and claim
  worker,      \* the worker: where it is, the message it handles, its claim
  discovery,   \* [Gen -> where that attempt's discovery thread is]
  fence,       \* connect_epoch
  writer,      \* the generation whose link is the writer, or Host
  status,      \* connection_status
  remembered,  \* the platform handle was remembered by a first CONNECTED
  opener,      \* [Gen -> where that attempt's connect thread is]
  asked,       \* [Gen -> connect_epoch when it was asked to open]
  result,      \* [Gen -> what the connect thread put into the slot]
  link,        \* [Gen -> the link it opened and its drop sink]
  told,        \* [Gen -> the answer the host got for this attempt]
  gaveUp,      \* history: attempts abandoned or torn down by connect_body
  stray,       \* history: a drop sink took away another link's writer
  torn,        \* history: a begin came between the two halves of a claim
  ended,       \* history: the last generation whose DISCONNECTED went out
  begins, disconnects, drops   \* what the bounds count

fenceVars    == <<epoch, claimed>>
platformVars == <<fence, writer, status, remembered, opener, asked, result, link>>
historyVars  == <<told, gaveUp, stray, torn, ended>>
countVars    == <<begins, disconnects, drops>>
vars == <<epoch, claimed, phase, awaiting, mailbox, host, worker, discovery,
          fence, writer, status, remembered, opener, asked, result, link,
          told, gaveUp, stray, torn, ended, begins, disconnects, drops>>

LastEpoch == 2 * MaxBegins + 1    \* a begin bumps once, and its claim once
Gen == 1 .. LastEpoch
Host == 0                     \* Writer::Host: no link of ours

Connect(g)       == [type |-> "Connect", gen |-> g, owner |-> FALSE, own |-> FALSE]
Disconnect(g, o) == [type |-> "Disconnect", gen |-> g, owner |-> o, own |-> FALSE]
\* platform_check is there (owner) once a platform was remembered; own marks
\* the echo of the session's own close.
Drop(check, own) == [type |-> "Drop", gen |-> 0, owner |-> check, own |-> own]

Message == [type : {"Connect", "Disconnect", "Drop"}, gen : 0 .. LastEpoch,
            owner : BOOLEAN, own : BOOLEAN]
NoMessage == Drop(FALSE, FALSE)

HostPc == {"idle", "clear", "bump", "phase", "send", "claimed", "disconnecting",
           "enqueue"}
WorkerPc == {"recv", "dropClaim", "dropBump", "dropEnd", "drain", "drainClose",
             "drainTell", "drainEnd", "open", "wait", "init", "identify", "commit",
             "connected", "abandon", "abandoned", "failClaim", "failBump",
             "failClose", "failTell"}

TypeOK ==
  /\ epoch \in 0 .. LastEpoch /\ claimed \in BOOLEAN /\ awaiting \in BOOLEAN
  /\ phase \in [kind : {"Idle", "Connecting", "Connected", "Disconnecting"},
                epoch : 0 .. epoch]
  /\ mailbox \in Seq(Message) /\ \A i \in 1 .. Len(mailbox) : mailbox[i].gen <= epoch
  /\ host \in [pc : HostPc, call : {"none", "connect", "select"},
               gen : 0 .. epoch, owner : BOOLEAN]
  /\ worker \in [pc : WorkerPc, job : Message, owner : BOOLEAN]
  /\ discovery \in [Gen -> {"none", "round", "found", "over"}]
  /\ fence \in Nat /\ writer \in Gen \cup {Host}
  /\ status \in {"Disconnected", "Connected"} /\ remembered \in BOOLEAN
  /\ opener \in [Gen -> {"none", "opening", "up", "installed", "over"}]
  /\ asked \in [Gen -> 0 .. fence]
  /\ result \in [Gen -> {"none", "Connected", "Failed"}]
  /\ link \in [Gen -> {"none", "up", "closed", "dropping",
                    "dropped", "down"}]
  /\ told \in [Gen -> {"nothing", "connected", "failed"}]
  /\ gaveUp \subseteq Gen /\ stray \in BOOLEAN /\ torn \in BOOLEAN
  /\ ended \in 0 .. epoch /\ drops \in 0 .. MaxDrops
  /\ begins \in 0 .. MaxBegins /\ disconnects \in 0 .. MaxDisconnects

Init ==
  /\ epoch = 0 /\ claimed = FALSE /\ awaiting = FALSE /\ mailbox = <<>>
  /\ phase = [kind |-> "Idle", epoch |-> 0]
  /\ host = [pc |-> "idle", call |-> "none", gen |-> 0, owner |-> FALSE]
  /\ worker = [pc |-> "recv", job |-> NoMessage, owner |-> FALSE]
  /\ discovery = [g \in Gen |-> "none"]
  /\ fence = 0 /\ writer = Host /\ status = "Disconnected" /\ remembered = FALSE
  /\ opener = [g \in Gen |-> "none"] /\ asked = [g \in Gen |-> 0]
  /\ result = [g \in Gen |-> "none"] /\ link = [g \in Gen |-> "none"]
  /\ told = [g \in Gen |-> "nothing"] /\ gaveUp = {} /\ stray = FALSE
  /\ torn = FALSE /\ ended = 0
  /\ begins = 0 /\ disconnects = 0 /\ drops = 0

-----------------------------------------------------------------------------
(* A comparison that only looks for newer attempts the wrong way round.    *)
MutantIsCurrent(g) == epoch >= g

(* is_connect_current.                                                     *)
IsCurrent(g) == epoch = g

SetPhase(kind, e) == phase' = [kind |-> kind, epoch |-> e]
Send(m) == mailbox' = Append(mailbox, m)
HostAt(pc) == host.pc = pc
HostGoes(pc) == host' = [host EXCEPT !.pc = pc]
WorkerAt(pc) == worker.pc = pc
WorkerGoes(pc) == worker' = [worker EXCEPT !.pc = pc]
Job == worker.job

(* The compare-exchange of claim_terminal: owner says who won.             *)
ClaimTerminal == claimed' = TRUE

(* The rest of claim_terminal: only the winner bumps; both get the epoch.  *)
Generation(owner) == IF owner THEN epoch + 1 ELSE epoch

-----------------------------------------------------------------------------
(* History: somebody has won the claim and not yet moved the epoch.        *)
ClaimUnderWay == worker.pc \in {"dropBump", "failBump"} /\ worker.owner

(* begin_connect_attempt, in three steps: the claim resets, the epoch      *)
(* moves, the phase follows.                                               *)
BeginClear(call) ==
  /\ claimed' = FALSE
  /\ host' = [host EXCEPT !.pc = "bump", !.call = call]

(* connect_to_controller: a new attempt, with a discovery of its own.      *)
ConnectToController ==
  /\ HostAt("idle") /\ begins < MaxBegins /\ begins' = begins + 1
  /\ BeginClear("connect")
  /\ torn' = (torn \/ ClaimUnderWay)
  /\ UNCHANGED <<epoch, phase, awaiting, mailbox, worker, discovery,
                 platformVars, told, gaveUp, stray, ended, disconnects, drops>>

(* select_connector: only a selection that finds awaiting_selection is     *)
(* accepted, and takes it along; then it begins an attempt.                *)
SelectConnector ==
  /\ HostAt("idle") /\ begins < MaxBegins /\ begins' = begins + 1
  /\ awaiting /\ awaiting' = FALSE
  /\ HostGoes("clear")
  /\ UNCHANGED <<fenceVars, phase, mailbox, worker, discovery, platformVars,
                 historyVars, disconnects, drops>>

SelectBegin ==
  /\ HostAt("clear") /\ BeginClear("select")
  /\ torn' = (torn \/ ClaimUnderWay)
  /\ UNCHANGED <<epoch, phase, awaiting, mailbox, worker, discovery,
                 platformVars, told, gaveUp, stray, ended, countVars>>

BeginBump ==
  /\ HostAt("bump")
  /\ epoch' = epoch + 1
  /\ host' = [host EXCEPT !.pc = "phase", !.gen = epoch + 1]
  /\ UNCHANGED <<claimed, phase, awaiting, mailbox, worker, discovery,
                 platformVars, historyVars, countVars>>

(* The phase; then spawn_discovery_loop, or the selected connector.        *)
BeginPhase ==
  /\ HostAt("phase")
  /\ SetPhase("Connecting", host.gen)
  /\ IF host.call = "connect"
     THEN HostGoes("idle") /\ discovery' = [discovery EXCEPT ![host.gen] = "round"]
     ELSE HostGoes("send") /\ UNCHANGED discovery
  /\ UNCHANGED <<fenceVars, awaiting, mailbox, worker, platformVars,
                 historyVars, countVars>>

(* initiate_connection.                                                    *)
InitiateConnection ==
  /\ HostAt("send") /\ HostGoes("idle")
  /\ Send(Connect(host.gen))
  /\ UNCHANGED <<fenceVars, phase, awaiting, worker, discovery, platformVars,
                 historyVars, countVars>>

(* disconnect_and_drain: the claim, the picker and the phase at once, the  *)
(* rest on the worker.                                                     *)
DisconnectClaim ==
  /\ HostAt("idle") /\ disconnects < MaxDisconnects
  /\ ClaimTerminal
  /\ host' = [host EXCEPT !.pc = "claimed", !.owner = ~claimed]
  /\ disconnects' = disconnects + 1
  /\ UNCHANGED <<epoch, phase, awaiting, mailbox, worker, discovery,
                 platformVars, historyVars, begins, drops>>

(* The generation is read before the claim's own bump.                     *)
MutantDisconnectBump ==
  /\ HostAt("claimed")
  /\ epoch' = Generation(host.owner)
  /\ host' = [host EXCEPT !.pc = IF host.owner THEN "disconnecting" ELSE "enqueue",
                          !.gen = epoch]
  /\ awaiting' = FALSE
  /\ UNCHANGED <<claimed, phase, mailbox, worker, discovery, platformVars,
                 historyVars, countVars>>

DisconnectBump ==         \* and the picker is gone
  /\ HostAt("claimed")
  /\ epoch' = IF host.owner THEN epoch + 1 ELSE epoch
  /\ host' = [host EXCEPT !.pc = IF host.owner THEN "disconnecting" ELSE "enqueue",
                          !.gen = Generation(host.owner)]
  /\ awaiting' = FALSE
  /\ UNCHANGED <<claimed, phase, mailbox, worker, discovery, platformVars,
                 historyVars, countVars>>

DisconnectPhase ==
  /\ HostAt("disconnecting") /\ HostGoes("enqueue")
  /\ SetPhase("Disconnecting", host.gen)
  /\ UNCHANGED <<fenceVars, awaiting, mailbox, worker, discovery,
                 platformVars, historyVars, countVars>>

DisconnectEnqueue ==
  /\ HostAt("enqueue") /\ HostGoes("idle")
  /\ Send(Disconnect(host.gen, host.owner))
  /\ UNCHANGED <<fenceVars, phase, awaiting, worker, discovery, platformVars,
                 historyVars, countVars>>

-----------------------------------------------------------------------------
(* discovery_loop: a round; then, if the attempt is still current, nothing *)
(* found is a failure and a list opens the picker.  Later rounds only      *)
(* refresh the list.                                                       *)
DiscoveryRound(g) ==
  /\ discovery[g] = "round"
  /\ discovery' = [discovery EXCEPT ![g] = IF IsCurrent(g) THEN "found" ELSE "over"]
  /\ UNCHANGED <<fenceVars, phase, awaiting, mailbox, host, worker,
                 platformVars, historyVars, countVars>>

DiscoveryEmpty(g) ==
  /\ discovery[g] = "found"
  /\ discovery' = [discovery EXCEPT ![g] = "over"]
  /\ told' = [told EXCEPT ![g] = "failed"]
  /\ UNCHANGED <<fenceVars, phase, awaiting, mailbox, host, worker,
                 platformVars, gaveUp, stray, torn, ended, countVars>>

DiscoveryPicker(g) ==
  /\ discovery[g] = "found"
  /\ discovery' = [discovery EXCEPT ![g] = "over"]
  /\ awaiting' = TRUE
  /\ UNCHANGED <<fenceVars, phase, mailbox, host, worker, platformVars,
                 historyVars, countVars>>

-----------------------------------------------------------------------------
(* The connection callback: all it does with a disconnect is enqueue a     *)
(* Drop.                                                                   *)
TellDisconnected(own) ==
  /\ status' = "Disconnected"
  /\ Send(Drop(remembered, own))

Idle == [pc |-> "recv", job |-> NoMessage, owner |-> FALSE]

(* The worker takes the next message; a Connect that was superseded in the *)
(* queue, and a Drop that finds the platform connected again, end here.    *)
Receive ==
  /\ WorkerAt("recv") /\ mailbox # <<>>
  /\ mailbox' = Tail(mailbox)
  /\ LET m     == Head(mailbox)
         stale == \/ m.type = "Connect" /\ ~IsCurrent(m.gen)
                  \/ m.type = "Drop" /\ m.owner /\ status # "Disconnected"
         start == [Connect |-> "open", Disconnect |-> "drain", Drop |-> "dropClaim"]
     IN worker' = IF stale THEN Idle
                  ELSE [pc |-> start[m.type], job |-> m, owner |-> FALSE]
  /\ UNCHANGED <<fenceVars, phase, awaiting, host, discovery, platformVars,
                 historyVars, countVars>>

(* drop_cleanup_body: claim; the winner says DISCONNECTED.                 *)
DropClaim ==
  /\ WorkerAt("dropClaim")
  /\ ClaimTerminal
  /\ worker' = [worker EXCEPT !.pc = "dropBump", !.owner = ~claimed]
  /\ UNCHANGED <<epoch, phase, awaiting, mailbox, host, discovery,
                 platformVars, historyVars, countVars>>

DropBump ==
  /\ WorkerAt("dropBump")
  /\ epoch' = IF worker.owner THEN epoch + 1 ELSE epoch
  /\ worker' = IF worker.owner THEN [worker EXCEPT !.pc = "dropEnd"] ELSE Idle
  /\ ended' = IF worker.owner THEN epoch ELSE ended
  /\ UNCHANGED <<claimed, phase, awaiting, mailbox, host, discovery,
                 platformVars, told, gaveUp, stray, torn, countVars>>

DropEnd ==
  /\ WorkerAt("dropEnd") /\ worker' = Idle
  /\ SetPhase("Idle", 0)
  /\ UNCHANGED <<fenceVars, awaiting, mailbox, host, discovery, platformVars,
                 historyVars, countVars>>

(* disconnect_drain_body: the drain itself is bounded; a newer attempt     *)
(* takes everything over.                                                  *)
Drain ==
  /\ WorkerAt("drain")
  /\ worker' = IF IsCurrent(Job.gen) THEN [worker EXCEPT !.pc = "drainClose"]
               ELSE Idle
  /\ UNCHANGED <<fenceVars, phase, awaiting, mailbox, host, discovery,
                 platformVars, historyVars, countVars>>

(* disconnect_from: fence, take and close the writer; then tell.           *)
TakeWriter ==
  /\ fence' = fence + 1
  /\ writer' = Host
  /\ link' = [g \in Gen |-> IF g = writer /\ link[g] = "up" THEN "closed" ELSE link[g]]

CloseWriter(pc, next) ==
  /\ WorkerAt(pc) /\ WorkerGoes(next)
  /\ TakeWriter
  /\ UNCHANGED <<fenceVars, phase, awaiting, mailbox, host, discovery, status,
                 remembered, opener, asked, result, historyVars, countVars>>

DrainTell ==
  /\ WorkerAt("drainTell")
  /\ TellDisconnected(TRUE)
  /\ worker' = IF Job.owner THEN [worker EXCEPT !.pc = "drainEnd"] ELSE Idle
  /\ ended' = IF Job.owner THEN Job.gen - 1 ELSE ended
  /\ UNCHANGED <<fenceVars, phase, awaiting, host, discovery, fence, writer,
                 remembered, opener, asked, result, link, told, gaveUp, stray, torn,
                 countVars>>

DrainEnd ==
  /\ WorkerAt("drainEnd") /\ worker' = Idle
  /\ SetPhase("Idle", 0)
  /\ UNCHANGED <<fenceVars, awaiting, mailbox, host, discovery, platformVars,
                 historyVars, countVars>>

-----------------------------------------------------------------------------
(* connect_body: ask the platform, and wait for its answer, for the end of *)
(* the attempt, or for the deadline.                                       *)
Open ==
  /\ WorkerAt("open") /\ WorkerGoes("wait")
  /\ opener' = [opener EXCEPT ![Job.gen] = "opening"]
  /\ asked' = [asked EXCEPT ![Job.gen] = fence]
  /\ UNCHANGED <<fenceVars, phase, awaiting, mailbox, host, discovery, fence,
                 writer, status, remembered, result, link, historyVars,
                 countVars>>

Fail == told' = [told EXCEPT ![Job.gen] = "failed"] /\ WorkerGoes("failClaim")

WaitAnswer ==
  /\ WorkerAt("wait") /\ result[Job.gen] # "none"
  /\ IF ~IsCurrent(Job.gen) THEN WorkerGoes("abandon") /\ UNCHANGED told
     ELSE IF result[Job.gen] = "Connected" THEN WorkerGoes("init") /\ UNCHANGED told
     ELSE Fail
  /\ UNCHANGED <<fenceVars, phase, awaiting, mailbox, host, discovery,
                 platformVars, gaveUp, stray, torn, ended, countVars>>

WaitSuperseded ==
  /\ WorkerAt("wait") /\ result[Job.gen] = "none" /\ ~IsCurrent(Job.gen)
  /\ WorkerGoes("abandon")
  /\ UNCHANGED <<fenceVars, phase, awaiting, mailbox, host, discovery,
                 platformVars, historyVars, countVars>>

(* A deadline nobody watches.                                              *)
MutantWaitDeadline ==
  /\ WorkerAt("wait") /\ result[Job.gen] # "none" /\ ~IsCurrent(Job.gen)
  /\ Fail
  /\ UNCHANGED <<fenceVars, phase, awaiting, mailbox, host, discovery,
                 platformVars, gaveUp, stray, torn, ended, countVars>>

WaitDeadline ==
  /\ WorkerAt("wait") /\ result[Job.gen] = "none" /\ IsCurrent(Job.gen)
  /\ Fail
  /\ UNCHANGED <<fenceVars, phase, awaiting, mailbox, host, discovery,
                 platformVars, gaveUp, stray, torn, ended, countVars>>

(* send_init_commands, then gather_vehicle_info with the chunk probe: each *)
(* may fail, and each ends with a look at the epoch.                       *)
Step(pc, next) ==
  /\ WorkerAt(pc)
  /\ worker' = IF IsCurrent(Job.gen) THEN [worker EXCEPT !.pc = next] ELSE Idle
  /\ UNCHANGED <<fenceVars, phase, awaiting, mailbox, host, discovery,
                 platformVars, historyVars, countVars>>

InitFails ==
  /\ WorkerAt("init") /\ Fail
  /\ UNCHANGED <<fenceVars, phase, awaiting, mailbox, host, discovery,
                 platformVars, gaveUp, stray, torn, ended, countVars>>

(* identify says CONNECTION_FAILED itself; then the epoch is looked at.    *)
IdentifyFails ==
  /\ WorkerAt("identify")
  /\ told' = [told EXCEPT ![Job.gen] = "failed"]
  /\ worker' = IF IsCurrent(Job.gen) THEN [worker EXCEPT !.pc = "failClaim"] ELSE Idle
  /\ UNCHANGED <<fenceVars, phase, awaiting, mailbox, host, discovery,
                 platformVars, gaveUp, stray, torn, ended, countVars>>

(* remember_for_reconnect and note_connection_status, CONNECTED, the phase.*)
Commit ==
  /\ WorkerAt("commit") /\ WorkerGoes("connected")
  /\ remembered' = TRUE /\ status' = "Connected"
  /\ told' = [told EXCEPT ![Job.gen] = "connected"]
  /\ UNCHANGED <<fenceVars, phase, awaiting, mailbox, host, discovery, fence,
                 writer, opener, asked, result, link, gaveUp, stray, torn, ended,
                 countVars>>

Connected ==
  /\ WorkerAt("connected") /\ worker' = Idle
  /\ SetPhase("Connected", Job.gen)
  /\ UNCHANGED <<fenceVars, awaiting, mailbox, host, discovery, platformVars,
                 historyVars, countVars>>

(* An abandon that leaves the fence where it is.                           *)
MutantAbandon ==
  /\ WorkerAt("abandon") /\ worker' = Idle
  /\ gaveUp' = gaveUp \cup {Job.gen}
  /\ writer' = Host
  /\ link' = [g \in Gen |-> IF g = writer /\ link[g] = "up" THEN "closed" ELSE link[g]]
  /\ UNCHANGED <<fenceVars, phase, awaiting, mailbox, host, discovery, fence,
                 status, remembered, opener, asked, result, told, stray, torn, ended,
                 countVars>>

(* abandon_pending_connect: as disconnect_from, but it tells no one, and   *)
(* sets the status only if there was a link.                               *)
Abandon ==
  /\ WorkerAt("abandon")
  /\ IF writer = Host THEN worker' = Idle /\ gaveUp' = gaveUp \cup {Job.gen}
     ELSE WorkerGoes("abandoned") /\ UNCHANGED gaveUp
  /\ TakeWriter
  /\ UNCHANGED <<fenceVars, phase, awaiting, mailbox, host, discovery, status,
                 remembered, opener, asked, result, told, stray, torn, ended, countVars>>

Abandoned ==
  /\ WorkerAt("abandoned") /\ worker' = Idle
  /\ gaveUp' = gaveUp \cup {Job.gen}
  /\ status' = "Disconnected"
  /\ UNCHANGED <<fenceVars, phase, awaiting, mailbox, host, discovery, fence,
                 writer, remembered, opener, asked, result, link, told, stray, torn,
                 ended, countVars>>

(* teardown_failed_attempt: claim, then disconnect_from.                   *)
FailClaim ==
  /\ WorkerAt("failClaim")
  /\ ClaimTerminal
  /\ worker' = [worker EXCEPT !.pc = "failBump", !.owner = ~claimed]
  /\ UNCHANGED <<epoch, phase, awaiting, mailbox, host, discovery,
                 platformVars, historyVars, countVars>>

FailBump ==
  /\ WorkerAt("failBump") /\ WorkerGoes("failClose")
  /\ epoch' = IF worker.owner THEN epoch + 1 ELSE epoch
  /\ UNCHANGED <<claimed, phase, awaiting, mailbox, host, discovery,
                 platformVars, historyVars, countVars>>

FailTell ==
  /\ WorkerAt("failTell") /\ worker' = Idle
  /\ TellDisconnected(TRUE)
  /\ gaveUp' = gaveUp \cup {Job.gen}
  /\ UNCHANGED <<fenceVars, phase, awaiting, host, discovery, fence, writer,
                 remembered, opener, asked, result, link, told, stray, torn, ended,
                 countVars>>

-----------------------------------------------------------------------------
(* The connect thread of attempt g (connect_to, connect_rust).             *)
platformOnly == <<fenceVars, phase, awaiting, host, worker, discovery,
                  remembered, told, gaveUp, torn, ended, countVars>>

OpenFails(g) ==
  /\ opener[g] = "opening"
  /\ opener' = [opener EXCEPT ![g] = "over"]
  /\ result' = [result EXCEPT ![g] = "Failed"]
  /\ UNCHANGED <<platformOnly, mailbox, fence, writer, status, asked, link, stray>>

OpenUp(g) ==
  /\ opener[g] = "opening"
  /\ opener' = [opener EXCEPT ![g] = "up"]
  /\ link' = [link EXCEPT ![g] = "up"]
  /\ UNCHANGED <<platformOnly, mailbox, fence, writer, status, asked, result, stray>>

(* The fence is not looked at once the link is open.                       *)
MutantInstall(g) ==
  /\ opener[g] = "up"
  /\ writer' = g /\ opener' = [opener EXCEPT ![g] = "installed"]
  /\ UNCHANGED <<platformOnly, mailbox, fence, status, asked, result, link, stray>>

(* Under the writer's lock: the fence decides who closes the link.         *)
Install(g) ==
  /\ opener[g] = "up"
  /\ IF fence = asked[g]
     THEN /\ writer' = g /\ opener' = [opener EXCEPT ![g] = "installed"]
          /\ UNCHANGED <<link, result>>
     ELSE /\ opener' = [opener EXCEPT ![g] = "over"]
          /\ link' = [link EXCEPT ![g] = IF @ = "up" THEN "closed" ELSE @]
          /\ result' = [result EXCEPT ![g] = "Failed"]
          /\ UNCHANGED writer
  /\ UNCHANGED <<platformOnly, mailbox, fence, status, asked, stray>>

OpenTell(g) ==
  /\ opener[g] = "installed"
  /\ opener' = [opener EXCEPT ![g] = "over"]
  /\ status' = "Connected"
  /\ result' = [result EXCEPT ![g] = "Connected"]
  /\ UNCHANGED <<platformOnly, mailbox, fence, writer, asked, link, stray>>

(* The link of attempt g breaks, and its drop sink runs: it looks at the   *)
(* fence, resets the writer, and tells.                                    *)
LinkDrops(g) ==
  /\ link[g] = "up" /\ drops < MaxDrops /\ drops' = drops + 1
  /\ link' = [link EXCEPT ![g] = IF fence = asked[g] THEN "dropping" ELSE "down"]
  /\ UNCHANGED <<fenceVars, phase, awaiting, host, worker, discovery,
                 remembered, told, gaveUp, torn, ended, begins, disconnects,
                 mailbox, fence, writer, status, opener, asked, result, stray>>

DropWriter(g) ==
  /\ link[g] = "dropping"
  /\ link' = [link EXCEPT ![g] = "dropped"]
  /\ writer' = Host
  /\ stray' = (stray \/ writer \notin {g, Host})
  /\ UNCHANGED <<platformOnly, mailbox, fence, status, opener, asked, result>>

DropTell(g) ==
  /\ link[g] = "dropped"
  /\ link' = [link EXCEPT ![g] = "down"]
  /\ TellDisconnected(FALSE)
  /\ UNCHANGED <<platformOnly, fence, writer, opener, asked, result, stray>>

-----------------------------------------------------------------------------
HostCall == ConnectToController \/ SelectConnector \/ DisconnectClaim

HostStep ==
  \/ SelectBegin \/ BeginBump \/ BeginPhase \/ InitiateConnection
  \/ DisconnectBump \/ DisconnectPhase \/ DisconnectEnqueue

Worker ==
  \/ Receive \/ DropClaim \/ DropBump \/ DropEnd
  \/ Drain \/ CloseWriter("drainClose", "drainTell") \/ DrainTell \/ DrainEnd
  \/ Open \/ WaitAnswer \/ WaitSuperseded \/ WaitDeadline
  \/ Step("init", "identify") \/ InitFails \/ Step("identify", "commit")
  \/ IdentifyFails \/ Commit \/ Connected \/ Abandon \/ Abandoned
  \/ FailClaim \/ FailBump \/ CloseWriter("failClose", "failTell") \/ FailTell

Discovery(g) == DiscoveryRound(g) \/ DiscoveryEmpty(g) \/ DiscoveryPicker(g)

Platform(g) ==
  \/ OpenFails(g) \/ OpenUp(g) \/ Install(g) \/ OpenTell(g)
  \/ LinkDrops(g) \/ DropWriter(g) \/ DropTell(g)

Next == HostCall \/ HostStep \/ Worker \/ \E g \in Gen : Discovery(g) \/ Platform(g)

Spec == Init /\ [][Next]_vars

(* A call of the host returns, and the worker never waits without a bound  *)
(* ("a dropped channel or a shutdown flag can never park this thread       *)
(* forever").  Nothing is assumed of the discovery, of an opening link, of *)
(* a broken one, or of the host's next call.                               *)
FairSpec == Spec /\ WF_vars(HostStep) /\ WF_vars(Worker)

-----------------------------------------------------------------------------
(* "Fence first, so neither a late open nor the closed link's drop echo    *)
(* can reach the attempt that comes next": whatever link is the writer was *)
(* asked for since the last close or abandon.                              *)
FencedWriter == writer # Host => asked[writer] = fence

(* "A failed attempt closes what it opened", an abandoned one too: the     *)
(* link of an attempt connect_body gave up is closed, or its connect       *)
(* thread is about to close it - unless the drop of an older link took the *)
(* writer away.                                                            *)
GivenUpIsClosed ==
  \A g \in gaveUp : link[g] = "up" => opener[g] = "up" \/ stray

(* An attempt whose DISCONNECTED went out is never said to be CONNECTED    *)
(* afterwards, nor is an older one.                                        *)
NoResurrection ==
  [][\A g \in Gen : told[g] # "connected" /\ told'[g] = "connected" => g > ended]_vars

(* The interface does not stay in DISCONNECTING, whatever the worker is    *)
(* doing, the link does and the host asks for meanwhile - unless a new     *)
(* attempt began between the two halves of somebody's claim: its late bump *)
(* makes the next disconnect look superseded.                              *)
DisconnectSettles ==
  phase.kind = "Disconnecting" ~> (phase.kind # "Disconnecting" \/ torn)

Selected(g) ==
  \/ WorkerAt("open") /\ Job.gen = g
  \/ \E i \in 1 .. Len(mailbox) : mailbox[i].type = "Connect" /\ mailbox[i].gen = g

(* A selected attempt gets an answer, CONNECTED or CONNECTION_FAILED,      *)
(* unless somebody ends or supersedes it: "silence left the UI on          *)
(* Connecting forever".  Epochs only grow, and the last one stays: so once *)
(* a selected attempt is the current one, the current one is in the end    *)
(* answered, claimed, no attempt at all, or one without a selection yet.   *)
AttemptAnswered ==
  (\E g \in Gen : Selected(g) /\ IsCurrent(g)) ~>
    (\/ claimed
     \/ \E g \in Gen : /\ IsCurrent(g)
                      /\ (told[g] # "nothing" \/ phase.epoch # g \/ discovery[g] # "none"))

(* "The echo of OUR OWN close during a user disconnect loses the CAS (the  *)
(* disconnect already claimed) and does not re-bump": no Drop that the     *)
(* session's own close enqueued ends the attempt that is current when it   *)
(* is handled.                                                             *)
EchoLosesClaim ==
  [][WorkerAt("dropClaim") /\ Job.own => ~worker'.owner]_vars
=============================================================================
