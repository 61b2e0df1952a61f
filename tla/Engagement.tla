----------------------------- MODULE Engagement -----------------------------
(***************************************************************************)
(* How a session trades polling for a faster acquisition, and gives it     *)
(* back (src/src/session_manager/engage.rs, sp_runtime.rs, uds_stream.rs,  *)
(* sink.rs, api.rs, worker.rs and the silence check of callbacks.rs).      *)
(*                                                                         *)
(* Four threads take part.  The lifecycle worker climbs the engage ladder: *)
(* a UDS stream of the car if it has a profile, the adapter's own periodic *)
(* messages otherwise; it also runs every requested stop.  The watchdog    *)
(* stops adapter-side messages that fell silent.  The host starts, pauses  *)
(* and cancels subscriptions, pins polling and disconnects.  The sniffer   *)
(* (a console, a wizard) takes the wire to listen.  An acquisition pauses  *)
(* the subscriptions it replaces and remembers them in a resume list; on a *)
(* link that runs both at once (DVI) it takes their PIDs from the poller   *)
(* instead.  The actions cut each body where another thread may come in    *)
(* between.                                                                *)
(***************************************************************************)
EXTENDS Naturals, Sequences, FiniteSets

CONSTANTS
  Subs,         \* the continuous subscriptions
  Cars,         \* what the car and the adapter can do: the three flags below
  MaxEvents     \* bound: host calls, listening sessions, silences and broken links

ASSUME EngagementAssumption ==
  /\ \A car \in Cars : DOMAIN car = {"uds", "periodic", "dvi"}
                       /\ {car.uds, car.periodic, car.dvi} \subseteq BOOLEAN
  /\ MaxEvents \in Nat

VARIABLES
  car,          \* TierFacts that do not change: a profile's tag, a capable adapter, DVI
  tagged,       \* stream_tag is set
  sub,          \* [Subs -> the state of the subscription]
  hostPaused,   \* subscriptions the host paused itself
  streamed,     \* streamed_pids: subscriptions whose PIDs the picker skips
  stream,       \* stream_state: live, and the subscriptions it will resume
  periodic,     \* periodic_state: the same, and the subscriptions on slots
  armed,        \* periodic_armed_ms is not zero
  held,         \* periodic_backoff_until_ms lies ahead
  hold,         \* the command processor's hold_dispatch
  tap,          \* who receives the lines of the wire: nobody is the processor
  pending,      \* engage_pending
  cancel,       \* engage_cancel
  pinned,       \* user_pinned_poll
  teardowns,    \* teardowns_in_flight
  sinkPaused,   \* sink_paused_subs
  phase, terminal, connected,   \* Phase, terminal_claimed, connection_status
  mailbox,      \* the lifecycle worker's messages
  pc,           \* [Thread -> where it is]
  mine,         \* [Thread -> the subscriptions it holds in a local list]
  attempt, fallback, reengage,  \* the worker's: attempt, past the loop, the Stop's flag
  stranded,     \* history: subscriptions a set-up lost at its header switch
  window,       \* the tier of the health tracker's open window, or "none"
  overtaken,    \* history: the last report to the tracker came too late to be true
  overlapped,   \* history: a set-up ran into a stop of the watchdog
  events        \* what the bound counts

subVars  == <<sub, hostPaused, streamed>>
acqVars  == <<stream, periodic, armed, held, hold, tap>>
flagVars == <<pending, cancel, pinned, teardowns>>
lifeVars == <<tagged, phase, terminal, connected>>
workVars == <<attempt, fallback, reengage, stranded, overlapped>>
aside == <<car, window, overtaken>>      \* what most steps leave alone
vars == <<aside, subVars, acqVars, flagVars, sinkPaused, lifeVars, mailbox, pc, mine,
          workVars, events>>

Thread == {"worker", "host", "sniffer", "watchdog"}
NoStream == [live |-> FALSE, resume |-> {}]
NoPeriodic == [live |-> FALSE, resume |-> {}, served |-> {}]
Messages == {"Engage", "Stop", "StopReengage", "Drop", "Disconnect"}
UdsAttempts == 2

LadderPc == {"beat", "settle", "gates", "commit", "udsCheck", "udsQuiesce", "udsHeader",
             "udsSetup", "udsMonitor", "udsRecord", "udsHold", "udsArm", "failed",
             "spCheck", "spQuiesce", "spStart", "spRecord", "spClocks", "spHold",
             "spArm", "spLive", "spRetry", "fallback", "reset"}
StopPc   == {"break", "take", "release", "teardown", "restore", "stopped"}
StreamStopPc == {"streamBreak", "streamTake", "streamTeardown", "streamRestore",
                 "streamStopped"}
RequestPc == {"swapped", "uncancelled"}
SniffPc  == {"wait", "pause", "note", "drain", "monitor", "sniffing", "leave", "return"}

Tiers == {"poll", "uds-stream", "periodic"}

TypeOK ==
  /\ car \in Cars /\ {tagged, armed, held, hold} \subseteq BOOLEAN
  /\ sub \in [Subs -> {"active", "paused", "gone"}]
  /\ {hostPaused, streamed, sinkPaused, stranded} \subseteq SUBSET Subs
  /\ stream \in [live : BOOLEAN, resume : SUBSET Subs]
  /\ periodic \in [live : BOOLEAN, resume : SUBSET Subs, served : SUBSET Subs]
  /\ tap \in {"nobody", "stream", "periodic", "sink"}
  /\ {pending, cancel, pinned, terminal, connected, fallback, reengage, overlapped,
      overtaken} \subseteq BOOLEAN
  /\ teardowns \in 0 .. 1 /\ attempt \in 0 .. UdsAttempts + 1
  /\ phase \in {"Connected", "Engaging", "Live", "Stopping", "Disconnecting", "Idle"}
  /\ mailbox \in Seq(Messages)
  /\ pc \in [Thread -> {"idle", "stopRead", "askStop", "pinRead"} \cup LadderPc
                       \cup StopPc \cup StreamStopPc \cup RequestPc \cup SniffPc]
  /\ mine \in [Thread -> SUBSET Subs]
  /\ events \in 0 .. MaxEvents /\ window \in Tiers \cup {"none"}

(* A connected session just after a start_subscription: everything is      *)
(* polled, the VIN has been read, so the tag is known, and the ladder has  *)
(* been asked for.                                                         *)
Init ==
  /\ car \in Cars /\ tagged = car.uds
  /\ sub = [s \in Subs |-> "active"] /\ hostPaused = {} /\ streamed = {}
  /\ stream = NoStream /\ periodic = NoPeriodic
  /\ armed = FALSE /\ held = FALSE /\ hold = FALSE /\ tap = "nobody"
  /\ pending = TRUE /\ cancel = FALSE /\ pinned = FALSE /\ teardowns = 0
  /\ sinkPaused = {} /\ phase = "Connected" /\ terminal = FALSE /\ connected = TRUE
  /\ mailbox = <<"Engage">> /\ pc = [t \in Thread |-> "idle"] /\ mine = [t \in Thread |-> {}]
  /\ attempt = 0 /\ fallback = FALSE /\ reengage = FALSE /\ stranded = {}
  /\ overlapped = FALSE
  /\ events = 0 /\ window = "poll" /\ overtaken = FALSE

Event == events < MaxEvents /\ events' = events + 1
At(t, label) == pc[t] = label
Goes(t, label) == pc' = [pc EXCEPT ![t] = label]
Moves(t, from, to) == At(t, from) /\ Goes(t, to)
Keeps(t, S) == mine' = [mine EXCEPT ![t] = S]
Send(m) == mailbox' = Append(mailbox, m)

-----------------------------------------------------------------------------
(* Subscriptions.                                                          *)

Active == {s \in Subs : sub[s] = "active"}

(* pause_all_active: every active subscription, for the caller to resume.  *)
PauseAll(t) ==
  /\ sub' = [s \in Subs |-> IF s \in Active THEN "paused" ELSE sub[s]]
  /\ Keeps(t, Active)

(* resume_many: the host's own pauses stay.                                *)
ResumeMany(S) ==
  sub' = [s \in Subs |-> IF s \in S \ hostPaused /\ sub[s] = "paused"
                         THEN "active" ELSE sub[s]]

-----------------------------------------------------------------------------
(* The health tracker: each switch closes the window of the old tier and   *)
(* opens one for the new, a call after the summary begins a new session.   *)

LogSwitch(tier, untrue) == window' = tier /\ overtaken' = untrue /\ UNCHANGED car
Finish == LogSwitch("none", FALSE)

-----------------------------------------------------------------------------
(* Asking for the ladder.                                                  *)

(* maybe_engage_stream: refused once the session's end is claimed or while *)
(* a request is under way.                                                 *)
AskEngage(t) ==
  IF terminal \/ pending THEN Goes(t, "idle") /\ UNCHANGED pending
  ELSE Goes(t, "swapped") /\ pending' = TRUE

AskUncancels(t) ==
  /\ Moves(t, "swapped", "uncancelled") /\ cancel' = FALSE
  /\ UNCHANGED <<aside, subVars, acqVars, pending, pinned, teardowns, sinkPaused, lifeVars,
                 mailbox, mine, workVars, events>>

(* A request that is dropped for the pin and not taken back.               *)
MutantAskSends(t) ==
  /\ Moves(t, "uncancelled", "idle") /\ UNCHANGED pending
  /\ IF pinned THEN UNCHANGED mailbox ELSE Send("Engage")
  /\ UNCHANGED <<aside, subVars, acqVars, cancel, pinned, teardowns, sinkPaused, lifeVars,
                 mine, workVars, events>>

AskSends(t) ==
  /\ Moves(t, "uncancelled", "idle")
  /\ IF pinned THEN pending' = FALSE /\ UNCHANGED mailbox
     ELSE Send("Engage") /\ UNCHANGED pending
  /\ UNCHANGED <<aside, subVars, acqVars, cancel, pinned, teardowns, sinkPaused, lifeVars,
                 mine, workVars, events>>

-----------------------------------------------------------------------------
(* The engage ladder.                                                      *)

UdsEligible == ~pinned /\ ~car.dvi /\ tagged
PeriodicEligible == ~pinned /\ car.periodic

(* done(): every exit of the ladder clears the request.                    *)
Done == Goes("worker", "idle") /\ pending' = FALSE

NextBeat == IF attempt < UdsAttempts THEN "beat" ELSE "fallback"

TakeEngage ==
  /\ At("worker", "idle") /\ mailbox # <<>> /\ Head(mailbox) = "Engage"
  /\ mailbox' = Tail(mailbox) /\ Goes("worker", "beat") /\ attempt' = 0 /\ fallback' = FALSE
  /\ UNCHANGED <<aside, subVars, acqVars, flagVars, sinkPaused, lifeVars, mine, reengage,
                 stranded, overlapped, events>>

(* A ladder that does not count its attempts.                              *)
MutantBeatBegins ==
  /\ At("worker", "beat") /\ attempt' = 1
  /\ IF pinned \/ (held /\ ~UdsEligible) THEN Done
     ELSE Goes("worker", "settle") /\ UNCHANGED pending
  /\ UNCHANGED <<aside, subVars, acqVars, cancel, pinned, teardowns, sinkPaused, lifeVars,
                 mailbox, mine, fallback, reengage, stranded, overlapped,
                 events>>

(* The top of an attempt: the pin, and the early bail while only the held  *)
(* periodic path could come out of it.                                     *)
BeatBegins ==
  /\ At("worker", "beat") /\ attempt' = attempt + 1
  /\ IF pinned \/ (held /\ ~UdsEligible) THEN Done
     ELSE Goes("worker", "settle") /\ UNCHANGED pending
  /\ UNCHANGED <<aside, subVars, acqVars, cancel, pinned, teardowns, sinkPaused, lifeVars,
                 mailbox, mine, fallback, reengage, stranded, overlapped,
                 events>>

(* The sliced sleep: cancelled or outlived in any slice.                   *)
Settles ==
  /\ At("worker", "settle")
  /\ IF cancel \/ terminal THEN Done ELSE Goes("worker", "gates") /\ UNCHANGED pending
  /\ UNCHANGED <<aside, subVars, acqVars, cancel, pinned, teardowns, sinkPaused, lifeVars,
                 mailbox, mine, workVars, events>>

(* After the sleep: a teardown under way defers a beat, a live stream or a *)
(* lost link ends the ladder, an empty dashboard defers.                   *)
Gates ==
  /\ At("worker", "gates")
  /\ IF teardowns > 0 THEN Goes("worker", NextBeat) /\ UNCHANGED pending
     ELSE IF stream.live \/ ~connected THEN Done
     ELSE /\ Goes("worker", IF Active = {} THEN NextBeat ELSE "commit")
          /\ UNCHANGED pending
  /\ UNCHANGED <<aside, subVars, acqVars, cancel, pinned, teardowns, sinkPaused, lifeVars,
                 mailbox, mine, workVars, events>>

(* engage_commit_blocked.                                                  *)
CommitBlocked == terminal \/ cancel \/ pinned \/ Active = {}

PeriodicReady == PeriodicEligible /\ ~periodic.live /\ ~held

(* History: a set-up begins while the watchdog is still stopping.          *)
Overlaps == overlapped' = (overlapped \/ (pc["watchdog"] # "idle"
                                         /\ pc'["worker"] \in {"udsCheck", "spCheck"}))

(* The gate before the wire, and which path is taken.                      *)
Commit ==
  /\ At("worker", "commit")
  /\ IF CommitBlocked \/ (~UdsEligible /\ ~PeriodicReady)
     THEN Done /\ UNCHANGED phase
     ELSE /\ Goes("worker", IF UdsEligible THEN "udsCheck" ELSE "spCheck")
          /\ phase' = IF UdsEligible THEN "Engaging" ELSE phase
          /\ UNCHANGED pending
  /\ Overlaps
  /\ UNCHANGED <<aside, subVars, acqVars, cancel, pinned, teardowns, sinkPaused, tagged,
                 terminal, connected, mailbox, mine, attempt, fallback, reengage, stranded,
                 events>>

(* After the attempts: the adapter-side tier once, its result ignored.     *)
Fallback ==
  /\ At("worker", "fallback") /\ fallback' = TRUE
  /\ Goes("worker", IF PeriodicReady /\ ~stream.live /\ connected /\ ~CommitBlocked
                    THEN "spCheck" ELSE "reset")
  /\ Overlaps
  /\ UNCHANGED <<aside, subVars, acqVars, flagVars, sinkPaused, lifeVars, mailbox, mine,
                 attempt, reengage, stranded, events>>

ResetPhase ==
  /\ At("worker", "reset") /\ Done
  /\ phase' = IF phase = "Engaging" THEN "Connected" ELSE phase
  /\ UNCHANGED <<aside, subVars, acqVars, cancel, pinned, teardowns, sinkPaused, tagged,
                 terminal, connected, mailbox, mine, workVars, events>>

-----------------------------------------------------------------------------
(* start_stream and arm_stream_transport.                                  *)

UdsCheck ==
  /\ At("worker", "udsCheck")
  /\ Goes("worker", IF stream.live \/ Active = {} THEN "failed" ELSE "udsQuiesce")
  /\ UNCHANGED <<aside, subVars, acqVars, flagVars, sinkPaused, lifeVars, mailbox, mine,
                 workVars, events>>

UdsQuiesce ==
  /\ Moves("worker", "udsQuiesce", "udsHeader") /\ PauseAll("worker")
  /\ UNCHANGED <<aside, hostPaused, streamed, acqVars, flagVars, sinkPaused, lifeVars,
                 mailbox, workVars, events>>

(* The header switch: a full queue leaves without resuming what was paused.*)
UdsHeader ==
  \E queued \in BOOLEAN :
    /\ Moves("worker", "udsHeader", IF queued THEN "udsSetup" ELSE "failed")
    /\ Keeps("worker", IF queued THEN mine["worker"] ELSE {})
    /\ stranded' = IF queued THEN stranded ELSE stranded \cup mine["worker"]
    /\ UNCHANGED <<aside, subVars, acqVars, flagVars, sinkPaused, lifeVars, mailbox,
                   attempt, fallback, reengage, overlapped, events>>

(* A set-up that gives up without resuming what it paused.                 *)
MutantUdsSetup ==
  \E accepted \in BOOLEAN :
    /\ accepted => ~hold
    /\ Moves("worker", "udsSetup", IF accepted THEN "udsMonitor" ELSE "failed")
    /\ Keeps("worker", IF accepted THEN mine["worker"] ELSE {}) /\ UNCHANGED sub
    /\ UNCHANGED <<aside, hostPaused, streamed, acqVars, flagVars, sinkPaused, lifeVars,
                   mailbox, workVars, events>>

(* Probes, defines and the start command go through the processor, so they *)
(* only succeed while it dispatches; bail resumes.                         *)
UdsSetup ==
  \E accepted \in BOOLEAN :
    /\ accepted => ~hold
    /\ Moves("worker", "udsSetup", IF accepted THEN "udsMonitor" ELSE "failed")
    /\ IF accepted THEN UNCHANGED <<sub, mine>>
       ELSE ResumeMany(mine["worker"]) /\ Keeps("worker", {})
    /\ UNCHANGED <<aside, hostPaused, streamed, acqVars, flagVars, sinkPaused, lifeVars,
                   mailbox, workVars, events>>

(* link.monitor: the stream's consumer replaces whatever was installed.    *)
UdsMonitor ==
  /\ Moves("worker", "udsMonitor", "udsRecord") /\ tap' = "stream"
  /\ UNCHANGED <<aside, subVars, stream, periodic, armed, held, hold, flagVars, sinkPaused,
                 lifeVars, mailbox, mine, workVars, events>>

UdsRecord ==
  /\ Moves("worker", "udsRecord", "udsHold")
  /\ stream' = [live |-> TRUE, resume |-> mine["worker"]] /\ Keeps("worker", {})
  /\ UNCHANGED <<aside, subVars, periodic, armed, held, hold, tap, flagVars, sinkPaused,
                 lifeVars, mailbox, workVars, events>>

UdsHold ==
  /\ Moves("worker", "udsHold", "udsArm") /\ hold' = TRUE
  /\ UNCHANGED <<aside, subVars, stream, periodic, armed, held, tap, flagVars, sinkPaused,
                 lifeVars, mailbox, mine, workVars, events>>

(* A stream that does not tell the tracker.                                *)
MutantUdsArm ==
  /\ At("worker", "udsArm") /\ Done /\ phase' = "Live"
  /\ UNCHANGED <<aside, subVars, acqVars, cancel, pinned, teardowns, sinkPaused, tagged,
                 terminal, connected, mailbox, mine, workVars, events>>

(* The beat thread starts; nothing here can refuse any more.               *)
UdsArm ==
  /\ At("worker", "udsArm") /\ Done /\ phase' = "Live"
  /\ LogSwitch("uds-stream", FALSE)
  /\ UNCHANGED <<subVars, acqVars, cancel, pinned, teardowns, sinkPaused, tagged,
                 terminal, connected, mailbox, mine, workVars, events>>

UdsFailed ==
  /\ Moves("worker", "failed", NextBeat)
  /\ UNCHANGED <<aside, subVars, acqVars, flagVars, sinkPaused, lifeVars, mailbox, mine,
                 workVars, events>>

-----------------------------------------------------------------------------
(* engage_stn_periodic: start_stn_periodic and arm_periodic_transport.     *)

SpRetry == IF fallback THEN "reset" ELSE NextBeat

(* The plan: the subscriptions of the moment, if every length is known and *)
(* every reply fits a frame; a misfit ends the ladder.                     *)
SpCheck ==
  \E verdict \in {"fits", "unknown", "misfit"} :
    /\ At("worker", "spCheck")
    /\ LET refused == Active = {} \/ stream.live \/ periodic.live
       IN IF ~refused /\ verdict = "fits"
          THEN Goes("worker", "spQuiesce") /\ Keeps("worker", Active) /\ UNCHANGED pending
          ELSE /\ UNCHANGED mine
               /\ IF ~refused /\ verdict = "misfit" /\ ~fallback THEN Done
                  ELSE Goes("worker", SpRetry) /\ UNCHANGED pending
    /\ UNCHANGED <<aside, subVars, acqVars, cancel, pinned, teardowns, sinkPaused, lifeVars,
                   mailbox, workVars, events>>

(* DVI holds the processor during the installation, the others pause.      *)
SpQuiesce ==
  /\ Moves("worker", "spQuiesce", "spStart")
  /\ IF car.dvi THEN hold' = TRUE /\ UNCHANGED <<sub, mine>>
     ELSE PauseAll("worker") /\ UNCHANGED hold
  /\ UNCHANGED <<aside, hostPaused, streamed, stream, periodic, armed, held, tap, flagVars,
                 sinkPaused, lifeVars, mailbox, workVars, events>>

(* A refused installation that keeps the processor on hold.                *)
MutantSpRefused ==
  /\ Goes("worker", SpRetry) /\ ResumeMany(mine["worker"]) /\ Keeps("worker", {})
  /\ UNCHANGED <<streamed, hold>>

(* engine.start refused: the hold is released or the paused resume.        *)
SpRefused ==
  /\ Goes("worker", SpRetry) /\ Keeps("worker", {})
  /\ IF car.dvi THEN hold' = FALSE /\ UNCHANGED sub
     ELSE ResumeMany(mine["worker"]) /\ UNCHANGED hold
  /\ UNCHANGED streamed

(* On a DVI link the PIDs that got a slot leave the poller; those beyond   *)
(* the slots stay with it.                                                 *)
SpAccepted ==
  \E served \in SUBSET mine["worker"] :
    /\ Goes("worker", "spRecord") /\ UNCHANGED <<sub, hold>>
    /\ IF car.dvi THEN streamed' = served /\ Keeps("worker", served)
       ELSE served = {} /\ UNCHANGED <<streamed, mine>>

(* engine.start: on an STN its commands go through the processor.          *)
SpStart ==
  /\ At("worker", "spStart")
  /\ \/ (car.dvi \/ ~hold) /\ SpAccepted
     \/ SpRefused
  /\ UNCHANGED <<aside, hostPaused, stream, periodic, armed, held, tap, flagVars, sinkPaused,
                 lifeVars, mailbox, workVars, events>>

SpRecord ==
  /\ Moves("worker", "spRecord", "spClocks") /\ Keeps("worker", {})
  /\ periodic' = IF car.dvi THEN [live |-> TRUE, resume |-> {}, served |-> mine["worker"]]
                 ELSE [live |-> TRUE, resume |-> mine["worker"], served |-> {}]
  /\ UNCHANGED <<aside, subVars, stream, armed, held, hold, tap, flagVars, sinkPaused,
                 lifeVars, mailbox, workVars, events>>

SpClocks ==
  /\ Moves("worker", "spClocks", "spHold") /\ armed' = FALSE
  /\ UNCHANGED <<aside, subVars, stream, periodic, held, hold, tap, flagVars, sinkPaused,
                 lifeVars, mailbox, mine, workVars, events>>

(* A monitor that does not hold the processor.                             *)
MutantSpHold ==
  /\ Moves("worker", "spHold", "spArm") /\ hold' = FALSE /\ phase' = "Engaging"
  /\ UNCHANGED <<aside, subVars, stream, periodic, armed, held, tap, flagVars, sinkPaused,
                 tagged, terminal, connected, mailbox, mine, workVars, events>>

(* The monitor owns the wire from here; slots share it.                    *)
SpHold ==
  /\ Moves("worker", "spHold", "spArm") /\ hold' = ~car.dvi /\ phase' = "Engaging"
  /\ UNCHANGED <<aside, subVars, stream, periodic, armed, held, tap, flagVars, sinkPaused,
                 tagged, terminal, connected, mailbox, mine, workVars, events>>

(* engine.arm; a failure stops what was installed.                         *)
SpArm ==
  \E ok \in BOOLEAN :
    /\ ok => periodic.live
    /\ Moves("worker", "spArm", IF ok THEN "spLive" ELSE "break")
    /\ tap' = IF ok /\ ~car.dvi THEN "periodic" ELSE tap
    /\ UNCHANGED <<aside, subVars, stream, periodic, armed, held, hold, flagVars, sinkPaused,
                   lifeVars, mailbox, mine, workVars, events>>

(* The silence clock starts, the phase follows, and the tracker is told,   *)
(* whether or not the watchdog took the record in between.                 *)
SpLive ==
  /\ At("worker", "spLive") /\ armed' = TRUE /\ phase' = "Live"
  /\ IF fallback THEN Goes("worker", "reset") /\ UNCHANGED pending ELSE Done
  /\ LogSwitch("periodic", ~periodic.live)
  /\ UNCHANGED <<subVars, stream, periodic, held, hold, tap, cancel, pinned, teardowns,
                 sinkPaused, tagged, terminal, connected, mailbox, mine, workVars, events>>

-----------------------------------------------------------------------------
(* Stops.                                                                  *)

(* stop_live_acquisition: whichever is live, the stream first.             *)
TakeStop ==
  /\ At("worker", "idle") /\ mailbox # <<>> /\ Head(mailbox) \in {"Stop", "StopReengage"}
  /\ mailbox' = Tail(mailbox) /\ reengage' = (Head(mailbox) = "StopReengage")
  /\ IF stream.live \/ periodic.live
     THEN /\ teardowns' = teardowns + 1 /\ phase' = "Stopping"
          /\ Goes("worker", IF stream.live THEN "streamBreak" ELSE "break")
          /\ UNCHANGED pending
     ELSE /\ UNCHANGED <<teardowns, phase>>
          /\ IF reengage' THEN AskEngage("worker") ELSE Goes("worker", "idle") /\ UNCHANGED pending
  /\ UNCHANGED <<aside, subVars, acqVars, cancel, pinned, sinkPaused, tagged, terminal,
                 connected, mine, attempt, fallback, stranded, overlapped,
                 events>>

(* break_stream_transport: the beats end, the monitor is left, the hold    *)
(* released.                                                               *)
StreamBreak ==
  /\ Moves("worker", "streamBreak", "streamTake") /\ tap' = "nobody" /\ hold' = FALSE
  /\ UNCHANGED <<aside, subVars, stream, periodic, armed, held, flagVars, sinkPaused,
                 lifeVars, mailbox, mine, workVars, events>>

(* stop_stream takes the record; the car's teardown follows.               *)
StreamTake ==
  /\ Moves("worker", "streamTake", "streamRestore")
  /\ Keeps("worker", stream.resume) /\ stream' = NoStream
  /\ UNCHANGED <<aside, subVars, periodic, armed, held, hold, tap, flagVars, sinkPaused,
                 lifeVars, mailbox, workVars, events>>

(* A stop that drops its resume list.                                      *)
MutantStreamRestore ==
  /\ Moves("worker", "streamRestore", "stopped")
  /\ UNCHANGED sub /\ Keeps("worker", {})
  /\ LogSwitch("poll", terminal)
  /\ UNCHANGED <<hostPaused, streamed, acqVars, flagVars, sinkPaused, lifeVars,
                 mailbox, workVars, events>>

StreamRestore ==
  /\ Moves("worker", "streamRestore", "stopped")
  /\ ResumeMany(mine["worker"]) /\ Keeps("worker", {})
  /\ LogSwitch("poll", terminal)
  /\ UNCHANGED <<hostPaused, streamed, acqVars, flagVars, sinkPaused, lifeVars,
                 mailbox, workVars, events>>

(* stop_stn_periodic, run by the worker and by the watchdog.               *)
Break(t) ==
  /\ At(t, "break") /\ Goes(t, IF periodic.live THEN "take" ELSE "stopped")
  /\ tap' = IF periodic.live /\ ~car.dvi THEN "nobody" ELSE tap
  /\ UNCHANGED <<aside, subVars, stream, periodic, armed, held, hold, flagVars, sinkPaused,
                 lifeVars, mailbox, mine, workVars, events>>

(* Only one of two stops gets the record.                                  *)
Take(t) ==
  /\ At(t, "take") /\ periodic' = NoPeriodic
  /\ IF periodic.live THEN Goes(t, "release") /\ Keeps(t, periodic.resume)
     ELSE Goes(t, "stopped") /\ UNCHANGED mine
  /\ UNCHANGED <<aside, subVars, stream, armed, held, hold, tap, flagVars, sinkPaused,
                 lifeVars, mailbox, workVars, events>>

Release(t) ==
  /\ Moves(t, "release", "teardown") /\ hold' = FALSE
  /\ UNCHANGED <<aside, subVars, stream, periodic, armed, held, tap, flagVars, sinkPaused,
                 lifeVars, mailbox, mine, workVars, events>>

(* engine.teardown has run; the paused resume and every PID is polled. The *)
(* watchdog may say so when the worker has set up something else.          *)
Restore(t) ==
  /\ Moves(t, "teardown", "stopped") /\ ResumeMany(mine[t]) /\ Keeps(t, {})
  /\ streamed' = {}
  /\ LogSwitch("poll", terminal \/ (t = "watchdog" /\ (stream.live \/ periodic.live)))
  /\ UNCHANGED <<hostPaused, acqVars, flagVars, sinkPaused, lifeVars, mailbox,
                 workVars, events>>

(* The end of a requested stop (the guard drops), or of a failed arm.      *)
WorkerStopped ==
  /\ At("worker", "stopped") /\ teardowns' = 0
  /\ phase' = IF terminal /\ teardowns = 1 THEN phase ELSE "Connected"
  /\ IF teardowns = 0 THEN Goes("worker", SpRetry) /\ UNCHANGED pending
     ELSE IF reengage THEN AskEngage("worker")
     ELSE Goes("worker", "idle") /\ UNCHANGED pending
  /\ UNCHANGED <<aside, subVars, acqVars, cancel, pinned, sinkPaused, tagged, terminal,
                 connected, mailbox, mine, workVars, events>>

(* periodic_silence_check: three seconds without a frame since the arm.    *)
Silent ==
  /\ At("watchdog", "idle") /\ periodic.live /\ armed
  /\ Event
  /\ held' = TRUE /\ armed' = FALSE /\ Goes("watchdog", "break")
  /\ overlapped' = (overlapped \/ At("worker", "spClocks"))
  /\ UNCHANGED <<aside, subVars, stream, periodic, hold, tap, flagVars, sinkPaused, lifeVars,
                 mailbox, mine, attempt, fallback, reengage, stranded>>

WatchdogStopped ==
  /\ Moves("watchdog", "stopped", "idle")
  /\ phase' = IF terminal THEN phase ELSE "Connected"
  /\ UNCHANGED <<aside, subVars, acqVars, flagVars, sinkPaused, tagged, terminal, connected,
                 mailbox, mine, workVars, events>>

BackoffEnds ==
  /\ held /\ held' = FALSE
  /\ UNCHANGED <<aside, subVars, stream, periodic, armed, hold, tap, flagVars, sinkPaused,
                 lifeVars, mailbox, pc, mine, workVars, events>>

-----------------------------------------------------------------------------
(* The end of the session.                                                 *)

(* The link breaks: the host's report posts a Drop.                        *)
LinkBreaks ==
  /\ connected /\ Event
  /\ connected' = FALSE /\ Send("Drop")
  /\ UNCHANGED <<aside, subVars, acqVars, flagVars, sinkPaused, tagged, phase, terminal, pc,
                 mine, workVars>>

(* drop_cleanup_body: everything an acquisition left is cleared here, with *)
(* no wire to do it over; the paused subscriptions stay paused.            *)
TakeDrop ==
  /\ At("worker", "idle") /\ mailbox # <<>> /\ Head(mailbox) = "Drop"
  /\ mailbox' = Tail(mailbox) /\ terminal' = TRUE
  /\ phase' = IF terminal THEN phase ELSE "Idle"
  /\ stream' = NoStream /\ periodic' = NoPeriodic /\ tagged' = FALSE /\ pinned' = FALSE
  /\ teardowns' = 0
  /\ hold' = IF stream.live \/ periodic.live THEN FALSE ELSE hold
  /\ IF terminal THEN UNCHANGED aside ELSE Finish
  /\ UNCHANGED <<subVars, armed, held, tap, pending, cancel, sinkPaused, connected, pc,
                 mine, workVars, events>>

(* disconnect_and_drain, on the host's thread.                             *)
HostDisconnects ==
  /\ At("host", "idle") /\ Event
  /\ ~terminal /\ terminal' = TRUE /\ phase' = "Disconnecting" /\ Send("Disconnect")
  /\ sub' = [s \in Subs |-> IF s \in Active THEN "paused" ELSE sub[s]]
  /\ UNCHANGED <<aside, hostPaused, streamed, acqVars, flagVars, sinkPaused, tagged,
                 connected, pc, mine, workVars>>

(* disconnect_drain_body: the close's own report posts the Drop.           *)
TakeDisconnect ==
  /\ At("worker", "idle") /\ mailbox # <<>> /\ Head(mailbox) = "Disconnect"
  /\ connected' = FALSE /\ phase' = "Idle"
  /\ mailbox' = IF connected THEN Append(Tail(mailbox), "Drop") ELSE Tail(mailbox)
  /\ Finish
  /\ UNCHANGED <<subVars, acqVars, flagVars, sinkPaused, tagged, terminal, pc, mine,
                 workVars, events>>

-----------------------------------------------------------------------------
(* The host's calls.                                                       *)

HostCalls == At("host", "idle") /\ Event

(* start_subscription: also the user's second try, so the back-off ends.   *)
HostStarts(s) ==
  /\ HostCalls /\ sub[s] # "gone" /\ sub' = [sub EXCEPT ![s] = "active"]
  /\ hostPaused' = hostPaused \ {s} /\ held' = FALSE /\ AskEngage("host")
  /\ UNCHANGED <<aside, streamed, stream, periodic, armed, hold, tap, cancel, pinned,
                 teardowns, sinkPaused, lifeVars, mailbox, mine, workVars>>

(* detach_from_acquisition: s leaves the resume lists.                     *)
Involved(s) == (stream.live /\ s \in stream.resume)
               \/ (periodic.live /\ s \in periodic.resume \cup periodic.served)

Detach(s) == /\ stream' = [stream EXCEPT !.resume = @ \ {s}]
             /\ periodic' = [periodic EXCEPT !.resume = @ \ {s}]

(* pause_subscription, under the session's lock; the stop is asked for     *)
(* afterwards.                                                             *)
HostPauses(s) ==
  /\ HostCalls /\ sub[s] # "gone" /\ sub' = [sub EXCEPT ![s] = "paused"]
  /\ hostPaused' = hostPaused \cup {s} /\ Detach(s)
  /\ Goes("host", IF Involved(s) THEN "askStop" ELSE "idle")
  /\ UNCHANGED <<aside, streamed, armed, held, hold, tap, flagVars, sinkPaused, lifeVars,
                 mailbox, mine, workVars>>

(* cancel_subscription.                                                    *)
HostCancels(s) ==
  /\ HostCalls /\ sub[s] # "gone" /\ sub' = [sub EXCEPT ![s] = "gone"] /\ Detach(s)
  /\ Goes("host", IF Involved(s) THEN "askStop" ELSE "idle")
  /\ UNCHANGED <<aside, hostPaused, streamed, armed, held, hold, tap, flagVars, sinkPaused,
                 lifeVars, mailbox, mine, workVars>>

(* request_stop_stream after a pause, a cancel or a pin.                   *)
HostAsksStop ==
  /\ Moves("host", "askStop", "idle") /\ Send("Stop")
  /\ UNCHANGED <<aside, subVars, acqVars, flagVars, sinkPaused, lifeVars, mine, workVars,
                 events>>

(* request_stop_stn_periodic, by itself or around an edit (reengage).      *)
HostRequestsStop ==
  \E m \in {"Stop", "StopReengage"} :
    /\ HostCalls /\ Send(m)
    /\ UNCHANGED <<aside, subVars, acqVars, flagVars, sinkPaused, lifeVars, pc, mine, workVars>>

(* set_user_pinned_poll: pins, then looks for something to stop.           *)
HostPins ==
  /\ HostCalls /\ pinned' = TRUE /\ Goes("host", "pinRead")
  /\ UNCHANGED <<aside, subVars, acqVars, pending, cancel, teardowns, sinkPaused, lifeVars,
                 mailbox, mine, workVars>>

PinReads ==
  /\ Moves("host", "pinRead", IF stream.live \/ periodic.live THEN "askStop" ELSE "idle")
  /\ UNCHANGED <<aside, subVars, acqVars, flagVars, sinkPaused, lifeVars, mailbox, mine,
                 workVars, events>>

HostUnpins ==
  /\ HostCalls /\ pinned /\ pinned' = FALSE /\ AskEngage("host")
  /\ UNCHANGED <<aside, subVars, acqVars, cancel, teardowns, sinkPaused, lifeVars, mailbox,
                 mine, workVars>>

-----------------------------------------------------------------------------
(* Listening.                                                              *)

(* sink_start: calls the ladder off, refuses while something is live.      *)
SniffStarts ==
  /\ At("sniffer", "idle") /\ Event
  /\ cancel' = TRUE /\ Goes("sniffer", IF stream.live \/ periodic.live THEN "idle" ELSE "wait")
  /\ UNCHANGED <<aside, subVars, acqVars, pending, pinned, teardowns, sinkPaused, lifeVars,
                 mailbox, mine, workVars>>

(* Two seconds for a request under way to end, or refused.                 *)
SniffWaits ==
  /\ Moves("sniffer", "wait", IF pending THEN "idle" ELSE "pause")
  /\ UNCHANGED <<aside, subVars, acqVars, flagVars, sinkPaused, lifeVars, mailbox, mine,
                 workVars, events>>

SniffPauses ==
  /\ Moves("sniffer", "pause", "note") /\ PauseAll("sniffer")
  /\ UNCHANGED <<aside, hostPaused, streamed, acqVars, flagVars, sinkPaused, lifeVars,
                 mailbox, workVars, events>>

SniffNotes ==
  /\ Moves("sniffer", "note", "monitor") /\ sinkPaused' = mine["sniffer"]
  /\ Keeps("sniffer", {})
  /\ UNCHANGED <<aside, subVars, acqVars, flagVars, lifeVars, mailbox, workVars, events>>

(* Once the wire is drained: monitor_over or capture, or all is undone.    *)
SniffMonitors ==
  \E ok \in BOOLEAN :
    /\ Moves("sniffer", "monitor", IF ok THEN "sniffing" ELSE "idle")
    /\ IF ok THEN tap' = "sink" /\ UNCHANGED <<sub, sinkPaused>>
       ELSE ResumeMany(sinkPaused) /\ sinkPaused' = {} /\ UNCHANGED tap
    /\ UNCHANGED <<aside, hostPaused, streamed, stream, periodic, armed, held, hold, flagVars,
                   lifeVars, mailbox, mine, workVars, events>>

(* sink_stop: the monitor is left, whoever's it has become.                *)
SniffLeaves ==
  /\ Moves("sniffer", "sniffing", "return")
  /\ tap' = IF car.dvi /\ tap # "sink" THEN tap ELSE "nobody"
  /\ UNCHANGED <<aside, subVars, stream, periodic, armed, held, hold, flagVars, sinkPaused,
                 lifeVars, mailbox, mine, workVars, events>>

SniffReturns ==
  /\ At("sniffer", "return") /\ AskEngage("sniffer")
  /\ ResumeMany(sinkPaused) /\ sinkPaused' = {}
  /\ UNCHANGED <<aside, hostPaused, streamed, acqVars, cancel, pinned, teardowns, lifeVars,
                 mailbox, mine, workVars, events>>

-----------------------------------------------------------------------------
WorkerStep ==
  \/ TakeEngage \/ BeatBegins \/ Settles \/ Gates \/ Commit \/ Fallback \/ ResetPhase
  \/ UdsCheck \/ UdsQuiesce \/ UdsHeader \/ UdsSetup \/ UdsMonitor \/ UdsRecord \/ UdsHold
  \/ UdsArm \/ UdsFailed
  \/ SpCheck \/ SpQuiesce \/ SpStart \/ SpRecord \/ SpClocks \/ SpHold \/ SpArm \/ SpLive
  \/ TakeStop \/ StreamBreak \/ StreamTake \/ StreamRestore
  \/ Break("worker") \/ Take("worker") \/ Release("worker") \/ Restore("worker")
  \/ WorkerStopped \/ TakeDrop \/ TakeDisconnect
  \/ AskUncancels("worker") \/ AskSends("worker")

WatchdogStep ==
  Break("watchdog") \/ Take("watchdog") \/ Release("watchdog") \/ Restore("watchdog")
  \/ WatchdogStopped

HostStep == HostAsksStop \/ PinReads \/ AskUncancels("host") \/ AskSends("host")

SniffStep == SniffWaits \/ SniffPauses \/ SniffNotes \/ SniffMonitors \/ SniffReturns
             \/ AskUncancels("sniffer") \/ AskSends("sniffer")

Next ==
  \/ WorkerStep \/ WatchdogStep \/ HostStep \/ SniffStep
  \/ Silent \/ BackoffEnds \/ LinkBreaks \/ HostDisconnects
  \/ \E s \in Subs : HostStarts(s) \/ HostPauses(s) \/ HostCancels(s)
  \/ HostRequestsStop \/ HostPins \/ HostUnpins \/ SniffStarts \/ SniffLeaves

Spec == Init /\ [][Next]_vars

(* A thread inside one of the bodies goes on.                              *)
FairSpec == Spec /\ WF_vars(WorkerStep) /\ WF_vars(WatchdogStep) /\ WF_vars(HostStep)
                 /\ WF_vars(SniffStep)

-----------------------------------------------------------------------------
(* Properties.                                                             *)

InLadder == pc["worker"] \in LadderPc \/ (teardowns = 0 /\ pc["worker"] \in StopPc)
Queued(m) == Cardinality({i \in 1 .. Len(mailbox) : mailbox[i] = m})
Asking == {t \in Thread : pc[t] \in RequestPc}
Live == stream.live \/ periodic.live

(* Every thread is through with its call and the worker's mailbox empty.   *)
Quiet == mailbox = <<>> /\ \A t \in Thread : pc[t] = "idle"

(* engage_pending is exactly one request for the ladder, wherever it is:   *)
(* with a caller on its way to the mailbox, in the mailbox, or climbing.   *)
(* So no exit of the ladder leaves the flag behind, which would refuse     *)
(* every later request, and no two climbs are queued.                      *)
OneRequest ==
  Cardinality(Asking) + Queued("Engage") + (IF InLadder THEN 1 ELSE 0)
    = (IF pending THEN 1 ELSE 0)

(* A subscription that is paused and was not paused by the host is in the  *)
(* list of somebody who will resume it: an acquisition's, the sink's, or a *)
(* thread's own.  Only the failed header switch of start_stream loses some.*)
Remembered == stream.resume \cup periodic.resume \cup sinkPaused \cup hostPaused
              \cup stranded \cup UNION {mine[t] : t \in Thread}
NobodyForgotten ==
  ~terminal => \A s \in Subs : sub[s] = "paused" => s \in Remembered

(* A stream and adapter-side messages are never live together, although    *)
(* the ladder looks for a live stream only: what keeps it from starting a  *)
(* stream over a monitor is that the processor is on hold.                 *)
Exclusive == ~(stream.live /\ periodic.live)

(* Once every thread is through, what the session shows is what is there:  *)
(* - with nothing live polling is as it was: commands are dispatched, the  *)
(*   processor gets the lines, no PID is skipped, and whatever the host    *)
(*   did not pause is active;                                              *)
(* - a lost link leaves no acquisition and no hold for the next connection;*)
(* - no acquisition that is gone is shown as live or as stopping.          *)
Restored ==
  /\ ~hold /\ streamed = {} /\ tap = "nobody"
  /\ \A s \in Subs : sub[s] = "paused" => s \in hostPaused \cup stranded

Settled ==
  ~overlapped /\ Quiet =>
    /\ ~connected => ~Live /\ ~hold
    /\ ~terminal => /\ ~Live => Restored
                    /\ phase = "Live" => Live
                    /\ phase # "Stopping"

(* The health tracker counts in the window of what runs: the stream's, the *)
(* adapter's messages', polling's, and in none after the session's end.    *)
(* Except for three late reports, each until the next one: a stop that     *)
(* says "poll" after the end; the watchdog's, over what the worker set up  *)
(* while it tore down; and messages reported live that the watchdog took   *)
(* between their arming and the report.  The worker's own stops are never  *)
(* overtaken by a set-up.                                                  *)
Running == IF terminal THEN "none" ELSE IF stream.live THEN "uds-stream"
           ELSE IF periodic.live THEN "periodic" ELSE "poll"
WindowTrue == Quiet /\ ~overtaken => window = Running

(* A request for the ladder comes to an end.                               *)
RequestsEnd == pending ~> ~pending

(* Once a stop is asked for, the subscriptions an acquisition paused are   *)
(* polled again, unless the host paused them meanwhile or the session ends.*)
StopsRestore ==
  \A s \in Subs :
    (s \in stream.resume \cup periodic.resume /\ Queued("Stop") > 0)
      ~> (sub[s] # "paused" \/ s \in hostPaused \/ terminal)

(* sink.rs:36-37: one transport owner at a time, a live stream refuses the *)
(* sink outright.  sink_start looks for a live acquisition, then waits for *)
(* the ladder, and does not look again.                                    *)
OneOwner == ~(At("sniffer", "sniffing") /\ Live)
=============================================================================
