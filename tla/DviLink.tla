------------------------------ MODULE DviLink -------------------------------
(***************************************************************************)
(* The binary dialect of the link (src/src/link/dvi/handler.rs): requests  *)
(* and their collectors, the routing of what the adapter sends, the setup  *)
(* exchanges that share one reply slot, the adapter's periodic slots and   *)
(* the capture of bus frames.                                              *)
(*                                                                         *)
(* Threads: the command processor's worker inside encode; the delivery     *)
(* thread inside on_frame; one collector per request; the lifecycle worker *)
(* that drives the periodic slots ("engine"); and a host thread that       *)
(* captures ("host").  A poll is the sequence of pids it asks for; a frame *)
(* carries the pids it answers.  Time is not modelled: a window may elapse *)
(* before or after whatever the adapter does.                              *)
(***************************************************************************)
EXTENDS Integers, Sequences, FiniteSets

CONSTANTS
  Polls,        \* the polls: non-empty sequences of pids
  Ecus,         \* the modules a physical request can address
  Covered,      \* those with a FLOW filter since the connect
  Headers,      \* targets ATSH may name
  SlotPlan,     \* the periodic messages: sequence of polls, all on SlotEcu
  SlotEcu,      \* the module the slots ask
  Scenarios,    \* bound: the threads at work, their polls, and how much of it
  StrayLimit,   \* stray errors that start a resync (3 in the code)
  MaxSends,     \* bound: commands dispatched
  MaxFilters,   \* bound: pass filters of a capture
  MaxAir        \* bound: requests, and frames, under way

Functional == "functional"              \* no target: every module answers
None == "none"
Targets == Ecus \cup {Functional}

ASSUME LinkAssumption ==
  /\ Covered \subseteq Ecus /\ SlotEcu \in Ecus /\ Headers \subseteq Targets
  /\ Functional \notin Ecus /\ None \notin Ecus /\ Len(SlotPlan) \in Nat
  /\ MaxSends \in Nat /\ MaxAir \in Nat /\ MaxFilters \in Nat
  /\ Scenarios \subseteq [ops : SUBSET {"poll", "slots", "capture"},
                          polls : SUBSET Polls, sends : 0 .. MaxSends,
                          trouble : Nat]

Set(s) == {s[i] : i \in DOMAIN s}
Gens == 1 .. MaxSends
OnFrameThread == 0
Runners == {OnFrameThread} \cup Gens    \* threads that complete commands
Callers == {"worker", "collector", "engine", "host"}
Slots == 1 .. Len(SlotPlan)

VARIABLES
  busy,        \* the processor's outstanding command, or NoWire
  armed,       \* the platform's fallback timer runs
  sends,       \* commands dispatched
  writing,     \* where encode is, with its wire and target
  target,      \* State.target
  outstanding, \* State.outstanding
  generation,  \* State.generation
  collector,   \* per request: its collector's state
  job,         \* per runner: the completion it has still to deliver
  setupSlot,   \* setup_slot
  exchange,    \* per caller: the setup exchange it waits for
  periodic,    \* State.periodic: installed slots and whether a sink is open
  engine,      \* where periodic_start / periodic_teardown is
  dynFlow,     \* State.dyn_flow
  capture,     \* State.capture_slots, listen_only, pass_all_disabled, tap
  host,        \* where capture / stop_monitor is
  tool,        \* the adapter: slots, filters and mode
  inbox, air,  \* what it has to do, and the frames it sent
  budget,      \* the scenario, with the disturbances it has left
  untold       \* history: the handler lost track of the adapter's state

requestVars == <<busy, armed, sends, writing, target, outstanding, generation,
                 collector, job>>
setupVars == <<setupSlot, exchange, untold>>
slotVars == <<periodic, engine>>
captureVars == <<capture, host>>
toolVars == <<tool, inbox, air>>
linkVars == <<requestVars, setupVars, slotVars, dynFlow, captureVars,
              toolVars, budget>>

-----------------------------------------------------------------------------
(* The wires of the processor: a poll or a header.                         *)
Poll(pids) == [kind |-> "poll", pids |-> pids, ecu |-> None]
Header(e) == [kind |-> "header", pids |-> <<>>, ecu |-> e]
NoWire == [kind |-> "none", pids |-> <<>>, ecu |-> None]
Wires == {Poll(p) : p \in Polls} \cup {Header(e) : e \in Headers}

Rx(e, part, pids) == [kind |-> "rx", ecu |-> e, part |-> part, pids |-> pids,
                      class |-> None]
Note(kind, class) == [kind |-> kind, ecu |-> None, part |-> None,
                      pids |-> <<>>, class |-> class]
Frames == {Rx(e, part, p) : e \in Ecus,
             part \in {"whole", "first", "rest", "pending", "refused"},
             p \in Polls \cup Set(SlotPlan)}
Notes == {Note(k, c) : k \in {"reply", "error"},
            c \in {"can", "protocol", "settings", "tx", "stray"}}

NoRequest == [wire |-> NoWire, expected |-> None, frames |-> <<>>,
              pending |-> FALSE, strays |-> 0, gen |-> 0]
NoJob == [wire |-> NoWire, how |-> None, pids |-> {}, gen |-> 0]
NotWriting == [pc |-> "idle", wire |-> NoWire, ecu |-> None]
NoNote == Note(None, None)

(* A setup request: what it asks, of which slot or filter.                 *)
Ask(op, n, msg, e) == [op |-> op, n |-> n, msg |-> msg, ecu |-> e]
NoAsk == Ask(None, 0, 0, None)
Class(ask) == IF ask.op \in {"listen", "normal", "api"} THEN "protocol"
              ELSE IF ask.op \in {"stamps", "unstamps"} THEN "settings"
              ELSE "can"

LinkTypeOK ==
  /\ busy \in Wires \cup {NoWire} /\ armed \in BOOLEAN
  /\ sends \in 0 .. MaxSends /\ writing.pc \in {"idle", "flow", "write"}
  /\ target \in Targets
  /\ outstanding.wire \in {Poll(p) : p \in Polls} \cup {NoWire}
  /\ Set(outstanding.frames) \subseteq Frames
  /\ outstanding.gen \in 0 .. generation /\ generation \in 0 .. MaxSends
  /\ collector \in [Gens -> {"off", "watching", "resync", "resyncing", "finish"}]
  /\ \A r \in Runners :
       job[r].how \in {None, "take", "fail", "data", "noData", "error"}
  /\ setupSlot \in Notes \cup {NoNote}
  /\ DOMAIN exchange = Callers
  /\ periodic.live \in BOOLEAN /\ periodic.open \in BOOLEAN
  /\ Set(inbox) \subseteq [by : Callers, ask : [op : STRING, n : Nat,
                             msg : 0 .. Len(SlotPlan), ecu : Targets \cup {None}],
                           pids : Polls \cup {<<>>}]
  /\ Set(air) \subseteq Frames \cup Notes /\ Len(air) <= MaxAir
  /\ budget.trouble \in Nat /\ untold \in BOOLEAN

LinkInit ==
  /\ busy = NoWire /\ armed = FALSE /\ sends = 0 /\ writing = NotWriting
  /\ target = Functional /\ outstanding = NoRequest /\ generation = 0
  /\ collector = [g \in Gens |-> "off"] /\ job = [r \in Runners |-> NoJob]
  /\ setupSlot = NoNote /\ untold = FALSE
  /\ exchange = [t \in Callers |-> [ask |-> NoAsk, fate |-> None, end |-> None]]
  /\ periodic = [live |-> FALSE, open |-> FALSE, decoders |-> <<>>]
  /\ engine = [pc |-> "idle", todo |-> <<>>, loaded |-> <<>>]
  /\ dynFlow = None
  /\ capture = [filters |-> {}, listen |-> FALSE, parked |-> FALSE,
                tap |-> FALSE]
  /\ host = [pc |-> "idle", todo |-> <<>>, filters |-> {}, listen |-> FALSE]
  /\ tool = [msg |-> [s \in Slots |-> 0], on |-> {}, flow |-> None,
             filters |-> {}, parked |-> FALSE, listen |-> FALSE]
  /\ inbox = <<>> /\ air = <<>> /\ budget \in Scenarios

Trouble == budget.trouble > 0 /\ budget' = [budget EXCEPT !.trouble = @ - 1]

-----------------------------------------------------------------------------
(* The setup exchange: clear the slot, write, wait for this class's reply. *)
Waiting(t) == exchange[t].ask # NoAsk /\ exchange[t].end = None
Free(t) == exchange[t].ask = NoAsk
NoExchange == [ask |-> NoAsk, fate |-> None, end |-> None]

Begin(t, ask) ==
  /\ Free(t) /\ Len(inbox) < MaxAir
  /\ setupSlot' = NoNote
  /\ inbox' = Append(inbox, [by |-> t, ask |-> ask, pids |-> <<>>])
  /\ exchange' = [exchange EXCEPT ![t] = [ask |-> ask, fate |-> "open",
                                          end |-> None]]
  /\ UNCHANGED untold

(* The caller goes on with the result of its exchange, and may start the   *)
(* next one.                                                               *)
Finish(t) == exchange' = [exchange EXCEPT ![t] = NoExchange]

Undo == {"disable", "unpass", "unpark", "normal"}

Ends(t, end) ==
  /\ exchange' = [exchange EXCEPT ![t].end = end]
  /\ untold' = (untold \/ ((end = "ok") # (exchange[t].fate = "done"))
                       \/ (end # "ok" /\ exchange[t].fate = "open")
                       \/ (end # "ok" /\ exchange[t].ask.op \in Undo))

(* A waiter takes whatever the slot holds; what is not for it is dropped.  *)
Take(t) ==
  /\ Waiting(t) /\ setupSlot # NoNote
  /\ setupSlot' = NoNote
  /\ IF setupSlot.class = Class(exchange[t].ask)
       THEN Ends(t, IF setupSlot.kind = "reply" THEN "ok" ELSE "error")
       ELSE UNCHANGED <<exchange, untold>>
  /\ UNCHANGED <<requestVars, slotVars, dynFlow, captureVars, toolVars, budget>>

(* No reply in the window: it is lost, or (a disturbance) late.            *)
OnItsWay(t) ==
  \/ \E i \in DOMAIN inbox : inbox[i].by = t /\ inbox[i].ask = exchange[t].ask
  \/ \E i \in DOMAIN air : air[i].class = Class(exchange[t].ask)
  \/ setupSlot.class = Class(exchange[t].ask)

TimesOut(t) ==
  /\ Waiting(t)
  /\ Ends(t, "timeout")
  /\ IF OnItsWay(t) THEN Trouble ELSE UNCHANGED budget
  /\ UNCHANGED <<setupSlot, requestVars, slotVars, dynFlow, captureVars,
                 toolVars>>

-----------------------------------------------------------------------------
(* encode, on the processor's worker.                                      *)
(* complete_command: disarm, and tell the processor, which goes on if the  *)
(* wire is the one it waits for.                                           *)
Complete(wire) ==
  /\ busy' = IF busy = wire THEN NoWire ELSE busy
  /\ armed' = FALSE

(* The session holds dispatch while the slots are installed.               *)
Held == engine.pc \in {"load", "enable"}
Dispatches ==
  /\ "poll" \in budget.ops /\ ~Held
  /\ busy = NoWire /\ writing.pc = "idle" /\ sends < budget.sends
  /\ sends' = sends + 1

(* A target that needs no FLOW filter of its own is answered at once.      *)
SendHeader(e) ==
  /\ Dispatches
  /\ e \in Covered \cup {Functional, dynFlow}
  /\ target' = e
  /\ armed' = FALSE
  /\ UNCHANGED <<busy, writing, outstanding, generation, collector, job,
                 setupVars, slotVars, dynFlow, captureVars, toolVars, budget>>

SendHeaderWithFlow(e) ==
  /\ Dispatches
  /\ e \notin Covered \cup {Functional, dynFlow}
  /\ target' = e /\ busy' = Header(e) /\ armed' = TRUE
  /\ writing' = [pc |-> "flow", wire |-> Header(e), ecu |-> e]
  /\ Begin("worker", Ask("flow", 0, 0, e))
  /\ UNCHANGED <<outstanding, generation, collector, job, slotVars, dynFlow,
                 captureVars, tool, air, budget>>

FlowEnds ==
  /\ writing.pc = "flow" /\ exchange["worker"].end # None
  /\ dynFlow' = IF exchange["worker"].end = "ok" THEN writing.ecu ELSE dynFlow
  /\ Complete(writing.wire) /\ writing' = NotWriting
  /\ Finish("worker")
  /\ UNCHANGED <<sends, target, outstanding, generation, collector, job,
                 setupSlot, untold, slotVars, captureVars, toolVars, budget>>

Request(pids) ==
  [wire |-> Poll(pids), expected |-> IF target = Functional THEN None ELSE target,
   frames |-> <<>>, pending |-> FALSE, strays |-> 0, gen |-> generation + 1]

SendPoll(pids) ==
  /\ Dispatches
  /\ busy' = Poll(pids) /\ armed' = TRUE
  /\ generation' = generation + 1 /\ outstanding' = Request(pids)
  /\ collector' = [collector EXCEPT ![generation + 1] = "watching"]
  /\ writing' = [pc |-> "write", wire |-> Poll(pids), ecu |-> target]
  /\ UNCHANGED <<target, job, setupVars, slotVars, dynFlow, captureVars,
                 toolVars, budget>>

SendWrites ==
  /\ writing.pc = "write"
  /\ writing' = NotWriting
  /\ \/ /\ inbox' = Append(inbox, [by |-> "worker", pids |-> writing.wire.pids,
                                   ask |-> Ask("poll", 0, 0, writing.ecu)])
        /\ UNCHANGED <<busy, armed, budget>>
     \/ /\ Trouble /\ Complete(writing.wire)      \* the write is refused
        /\ UNCHANGED inbox
  /\ UNCHANGED <<sends, target, outstanding, generation, collector, job,
                 setupVars, slotVars, dynFlow, captureVars, tool, air>>

(* The platform's fallback timer, or an abort of the command processor.    *)
GivesUp ==
  /\ Trouble /\ busy # NoWire
  /\ busy' = NoWire /\ armed' = FALSE
  /\ UNCHANGED <<sends, writing, target, outstanding, generation, collector,
                 job, setupVars, slotVars, dynFlow, captureVars, toolVars>>

-----------------------------------------------------------------------------
(* The collector of request g, and finish.                                 *)
CollectorLeaves(g) ==
  /\ collector[g] = "watching" /\ outstanding.gen # g
  /\ collector' = [collector EXCEPT ![g] = "off"]
  /\ UNCHANGED <<busy, armed, sends, writing, target, outstanding, generation,
                 job, setupVars, slotVars, dynFlow, captureVars, toolVars, budget>>

(* A collector waits for the pending reply it was promised, for ever.      *)
MutantWindowElapses(g) ==
  /\ collector[g] = "watching" /\ outstanding.gen = g /\ ~outstanding.pending
  /\ collector' = [collector EXCEPT ![g] =
                     IF outstanding.strays >= StrayLimit THEN "resync" ELSE "finish"]
  /\ UNCHANGED <<busy, armed, sends, writing, target, outstanding, generation,
                 job, setupVars, slotVars, dynFlow, captureVars, toolVars, budget>>

WindowElapses(g) ==
  /\ collector[g] = "watching" /\ outstanding.gen = g
  /\ collector' = [collector EXCEPT ![g] =
                     IF outstanding.strays >= StrayLimit THEN "resync" ELSE "finish"]
  /\ UNCHANGED <<busy, armed, sends, writing, target, outstanding, generation,
                 job, setupVars, slotVars, dynFlow, captureVars, toolVars, budget>>

(* Filler bytes, then an exchange that confirms the adapter's mode; not    *)
(* again within two seconds.                                               *)
Resync(g) ==
  /\ collector[g] = "resync"
  /\ \/ /\ Begin("collector", Ask("api", 0, 0, None))
        /\ collector' = [collector EXCEPT ![g] = "resyncing"]
     \/ /\ collector' = [collector EXCEPT ![g] = "finish"]
        /\ UNCHANGED <<setupVars, inbox>>
  /\ UNCHANGED <<busy, armed, sends, writing, target, outstanding, generation,
                 job, slotVars, dynFlow, captureVars, tool, air, budget>>

ResyncEnds(g) ==
  /\ collector[g] = "resyncing" /\ exchange["collector"].end # None
  /\ Finish("collector")
  /\ collector' = [collector EXCEPT ![g] = "finish"]
  /\ UNCHANGED <<busy, armed, sends, writing, target, outstanding, generation,
                 job, setupSlot, untold, slotVars, dynFlow, captureVars, toolVars,
                 budget>>

(* What the frames assemble to: whole frames, and first frames that were   *)
(* continued by the same module.                                           *)
Continued(frames, i) ==
  \E j \in DOMAIN frames : j > i /\ frames[j].part = "rest"
                           /\ frames[j].ecu = frames[i].ecu
Payloads(frames) ==
  {frames[i].pids : i \in {j \in DOMAIN frames :
     frames[j].part = "whole" \/ (frames[j].part = "first" /\ Continued(frames, j))}}

(* The latest reply of module e is whole.                                  *)
ReplyComplete(frames, e) ==
  LET opens == {i \in DOMAIN frames : frames[i].ecu = e /\ frames[i].part # "rest"}
  IN opens # {} /\ LET i == CHOOSE j \in opens : \A k \in opens : k <= j
                   IN frames[i].part # "first" \/ Continued(frames, i)

(* finish: whoever takes the request under the lock answers it.            *)
Answer(how) ==
  [wire |-> outstanding.wire, gen |-> 0,
   how |-> CASE how = "fail" -> "error"
             [] outstanding.frames = <<>> -> "noData"
             [] OTHER -> "data",
   pids |-> IF how = "fail" THEN {} ELSE Payloads(outstanding.frames)]

FinishTakes(r, g, how) ==
  IF outstanding.gen = g /\ g # 0
    THEN job' = [job EXCEPT ![r] = Answer(how)] /\ outstanding' = NoRequest
    ELSE job' = [job EXCEPT ![r] = NoJob] /\ UNCHANGED outstanding

CollectorFinishes(g) ==
  /\ collector[g] = "finish"
  /\ collector' = [collector EXCEPT ![g] = "off"]
  /\ FinishTakes(g, g, "take")
  /\ UNCHANGED <<busy, armed, sends, writing, target, generation, setupVars,
                 slotVars, dynFlow, captureVars, toolVars, budget>>

OnFrameFinishes ==
  /\ job[OnFrameThread].how \in {"take", "fail"}
  /\ FinishTakes(OnFrameThread, job[OnFrameThread].gen, job[OnFrameThread].how)
  /\ UNCHANGED <<busy, armed, sends, writing, target, generation, collector,
                 setupVars, slotVars, dynFlow, captureVars, toolVars, budget>>

(* Outside the lock: complete_command.                                     *)
Delivers(r) ==
  /\ job[r].how \in {"data", "noData", "error"}
  /\ Complete(job[r].wire)
  /\ job' = [job EXCEPT ![r] = NoJob]
  /\ UNCHANGED <<sends, writing, target, outstanding, generation, collector,
                 setupVars, slotVars, dynFlow, captureVars, toolVars, budget>>

-----------------------------------------------------------------------------
(* on_frame and on_rx, on the delivery thread.                             *)
Arrives(f) ==
  /\ job[OnFrameThread] = NoJob /\ air # <<>> /\ f = Head(air)
  /\ air' = Tail(air)

(* A frame of a module that can answer the outstanding request.            *)
Counts(f) ==
  outstanding.gen # 0 /\ outstanding.expected \in {None, f.ecu}

Slicing(f) ==
  {i \in DOMAIN periodic.decoders :
     Set(f.pids) \subseteq Set(SlotPlan[periodic.decoders[i].msg])}

(* A slot's message: some slot's members slice it, unless a request for    *)
(* exactly the first such slot's pids is out.                              *)
SlotReply(f) ==
  /\ periodic.live /\ f.ecu = SlotEcu /\ f.part = "whole" /\ Slicing(f) # {}
  /\ LET i == CHOOSE j \in Slicing(f) : \A k \in Slicing(f) : j <= k
     IN ~(/\ Counts(f)
          /\ Set(outstanding.wire.pids) = Set(SlotPlan[periodic.decoders[i].msg]))

(* Nothing checks that a positive reply opens with the pid asked for.      *)
MutantLagged(f) == FALSE

(* A positive reply that opens with another pid than the plain poll's.     *)
Lagged(f) ==
  /\ Counts(f) /\ Len(outstanding.wire.pids) = 1
  /\ f.part \in {"whole", "first"}
  /\ Head(f.pids) # Head(outstanding.wire.pids)

OnSlotReply(f) ==
  /\ Arrives(f) /\ f.kind = "rx" /\ SlotReply(f)
  /\ UNCHANGED <<requestVars, setupVars, slotVars, dynFlow, captureVars, tool,
                 inbox, budget>>

(* A lagged reply answers the poll its pid names; half of one is dropped.  *)
OnLagged(f) ==
  /\ Arrives(f) /\ f.kind = "rx" /\ ~SlotReply(f) /\ Lagged(f)
  /\ job' = IF f.part = "whole"
              THEN [job EXCEPT ![OnFrameThread] =
                     [wire |-> Poll(<<Head(f.pids)>>), how |-> "data",
                      pids |-> {f.pids}, gen |-> 0]]
              ELSE job
  /\ UNCHANGED <<busy, armed, sends, writing, target, outstanding, generation,
                 collector, setupVars, slotVars, dynFlow, captureVars, tool,
                 inbox, budget>>

(* A counted frame; a physical request ends with its whole reply.          *)
OnReply(f) ==
  /\ Arrives(f) /\ f.kind = "rx" /\ ~SlotReply(f) /\ ~Lagged(f)
  /\ IF ~Counts(f) THEN UNCHANGED <<outstanding, job>>
     ELSE LET frames == Append(outstanding.frames, f)
              mine == outstanding.expected = f.ecu
          IN /\ outstanding' = [outstanding EXCEPT !.frames = frames,
                                 !.pending = @ \/ (mine /\ f.part = "pending")]
             /\ job' = IF mine /\ f.part # "pending" /\ ReplyComplete(frames, f.ecu)
                         THEN [job EXCEPT ![OnFrameThread] =
                                [NoJob EXCEPT !.how = "take", !.gen = outstanding.gen]]
                         ELSE job
  /\ UNCHANGED <<busy, armed, sends, writing, target, generation, collector,
                 setupVars, slotVars, dynFlow, captureVars, tool, inbox, budget>>

(* The adapter refuses a transmission: whatever is outstanding fails.      *)
OnTxError(f) ==
  /\ Arrives(f) /\ f.kind = "error" /\ f.class = "tx"
  /\ job' = IF outstanding.gen = 0 THEN job
            ELSE [job EXCEPT ![OnFrameThread] =
                   [NoJob EXCEPT !.how = "fail", !.gen = outstanding.gen]]
  /\ UNCHANGED <<busy, armed, sends, writing, target, outstanding, generation,
                 collector, setupVars, slotVars, dynFlow, captureVars, tool,
                 inbox, budget>>

(* Any other error: counted on the request that is out, else a setup note. *)
OnError(f) ==
  /\ Arrives(f) /\ f.kind = "error" /\ f.class # "tx"
  /\ IF outstanding.gen # 0
       THEN /\ outstanding' = [outstanding EXCEPT !.strays = @ + 1]
            /\ UNCHANGED setupSlot
       ELSE setupSlot' = f /\ UNCHANGED outstanding
  /\ UNCHANGED <<busy, armed, sends, writing, target, generation, collector,
                 job, exchange, untold, slotVars, dynFlow, captureVars, tool,
                 inbox, budget>>

OnNote(f) ==
  /\ Arrives(f) /\ f.kind = "reply"
  /\ setupSlot' = f
  /\ UNCHANGED <<requestVars, exchange, untold, slotVars, dynFlow, captureVars,
                 tool, inbox, budget>>

-----------------------------------------------------------------------------
(* periodic_start, periodic_arm, periodic_break, periodic_teardown,        *)
(* periodic_abandon, on the lifecycle worker.                              *)
Decoder(slot, msg) == [slot |-> slot, msg |-> msg]
NoPeriodic == [live |-> FALSE, open |-> FALSE, decoders |-> <<>>]
EngineIdle == [pc |-> "idle", todo |-> <<>>, loaded |-> <<>>]
EngineUnchanged == UNCHANGED <<requestVars, dynFlow, captureVars, tool, air, budget>>

StartBegins ==
  /\ "slots" \in budget.ops /\ engine.pc = "idle" /\ ~periodic.live
  /\ engine' = [pc |-> "load", todo |-> [m \in Slots |-> Decoder(m, m)],
                loaded |-> <<>>]
  /\ UNCHANGED <<setupVars, periodic, inbox>> /\ EngineUnchanged

(* A refused message leaves its slot to the next one.                      *)
EngineAsks ==
  /\ engine.todo # <<>>
  /\ LET d == Head(engine.todo)
     IN Begin("engine", CASE engine.pc = "load" ->
                               Ask("load", Len(engine.loaded) + 1, d.msg, None)
                          [] engine.pc = "enable" -> Ask("enable", d.slot, 0, None)
                          [] OTHER -> Ask("disable", d.slot, 0, None))
  /\ UNCHANGED slotVars /\ EngineUnchanged

EngineHears ==
  /\ ~Free("engine") /\ exchange["engine"].end # None
  /\ Finish("engine")
  /\ LET ask == exchange["engine"].ask
         d == Head(engine.todo)
     IN engine' = [engine EXCEPT !.todo = Tail(@),
          !.loaded = IF exchange["engine"].end # "ok" THEN @
                     ELSE Append(@, Decoder(ask.n, d.msg))]
  /\ UNCHANGED <<setupSlot, untold, periodic, inbox>> /\ EngineUnchanged

(* The decoders are registered once every slot is enabled.                 *)
MutantStartRegisters ==
  /\ engine.pc = "load" /\ engine.todo = <<>> /\ Free("engine")
  /\ UNCHANGED periodic
  /\ engine' = IF engine.loaded = <<>> THEN EngineIdle
               ELSE [pc |-> "enable", todo |-> engine.loaded, loaded |-> <<>>]
  /\ UNCHANGED <<setupVars, inbox>> /\ EngineUnchanged

StartRegisters ==
  /\ engine.pc = "load" /\ engine.todo = <<>> /\ Free("engine")
  /\ IF engine.loaded = <<>>
       THEN engine' = EngineIdle /\ UNCHANGED periodic
       ELSE /\ engine' = [pc |-> "enable", todo |-> engine.loaded, loaded |-> <<>>]
            /\ periodic' = [live |-> TRUE, open |-> FALSE, decoders |-> engine.loaded]
  /\ UNCHANGED <<setupVars, inbox>> /\ EngineUnchanged

StartEnds ==
  /\ engine.pc = "enable" /\ engine.todo = <<>> /\ Free("engine")
  /\ engine' = EngineIdle
  /\ periodic' = IF engine.loaded = <<>> THEN NoPeriodic
                 ELSE [live |-> TRUE, open |-> FALSE, decoders |-> engine.loaded]
  /\ UNCHANGED <<setupVars, inbox>> /\ EngineUnchanged

Arm ==
  /\ engine.pc = "idle" /\ periodic.live
  /\ periodic' = [periodic EXCEPT !.open = TRUE]
  /\ UNCHANGED <<setupVars, engine, inbox>> /\ EngineUnchanged

Break ==
  /\ engine.pc = "idle" /\ periodic.open
  /\ periodic' = [periodic EXCEPT !.open = FALSE]
  /\ UNCHANGED <<setupVars, engine, inbox>> /\ EngineUnchanged

TeardownBegins ==
  /\ engine.pc = "idle" /\ periodic.live
  /\ periodic' = NoPeriodic
  /\ engine' = [pc |-> "disable", todo |-> periodic.decoders, loaded |-> <<>>]
  /\ UNCHANGED <<setupVars, inbox>> /\ EngineUnchanged

TeardownEnds ==
  /\ engine.pc = "disable" /\ engine.todo = <<>> /\ Free("engine")
  /\ engine' = EngineIdle
  /\ UNCHANGED <<setupVars, periodic, inbox>> /\ EngineUnchanged

(* The session gave the slots up without a word to the adapter.            *)
AbandonSlots ==
  /\ engine.pc = "idle" /\ periodic.live /\ Trouble
  /\ periodic' = NoPeriodic /\ untold' = TRUE
  /\ UNCHANGED <<setupSlot, exchange, engine, requestVars, dynFlow, captureVars,
                 toolVars>>

-----------------------------------------------------------------------------
(* capture and stop_monitor, on a host thread.                             *)
HostUnchanged == UNCHANGED <<requestVars, slotVars, dynFlow, tool, air, budget>>
NoCapture == [filters |-> {}, listen |-> FALSE, parked |-> FALSE, tap |-> FALSE]
HostIdle == [pc |-> "idle", todo |-> <<>>, filters |-> {}, listen |-> FALSE]
Plainly(op) == Ask(op, 0, 0, None)

(* sink_start captures only while nothing adapter-periodic is live.        *)
CaptureBegins(k) ==
  /\ "capture" \in budget.ops /\ host.pc = "idle" /\ ~capture.tap
  /\ ~periodic.live /\ engine.pc = "idle"
  /\ host' = [HostIdle EXCEPT !.pc = "pass",
                !.todo = [n \in 1 .. k |-> Ask("pass", n, 0, None)]]
  /\ UNCHANGED <<setupVars, capture, inbox>> /\ HostUnchanged

HostAsks ==
  /\ host.todo # <<>>
  /\ Begin("host", Head(host.todo))
  /\ UNCHANGED captureVars /\ HostUnchanged

HostHears ==
  /\ ~Free("host") /\ exchange["host"].end # None
  /\ Finish("host")
  /\ LET ask == exchange["host"].ask
         ok == exchange["host"].end = "ok"
     IN host' = [host EXCEPT !.todo = Tail(@),
                  !.filters = IF ask.op = "pass" /\ ok THEN @ \cup {ask.n} ELSE @,
                  !.listen = IF ask.op = "listen" THEN ok ELSE @]
  /\ UNCHANGED <<setupSlot, untold, capture, inbox>> /\ HostUnchanged

CaptureFilters ==
  /\ host.pc = "pass" /\ host.todo = <<>> /\ Free("host")
  /\ host' = [host EXCEPT !.pc = "listen",
       !.todo = (IF host.filters = {} THEN <<>> ELSE <<Plainly("park")>>)
                  \o <<Plainly("listen")>>]
  /\ UNCHANGED <<setupVars, capture, inbox>> /\ HostUnchanged

CaptureRecords ==
  /\ host.pc = "listen" /\ host.todo = <<>> /\ Free("host")
  /\ capture' = [filters |-> host.filters, listen |-> host.listen,
                 parked |-> host.filters # {}, tap |-> TRUE]
  /\ host' = [HostIdle EXCEPT !.pc = "stamps", !.todo = <<Plainly("stamps")>>]
  /\ UNCHANGED <<setupVars, inbox>> /\ HostUnchanged

Unfilter(filters) ==
  [n \in 1 .. Cardinality(filters) |->
     Ask("unpass", CHOOSE f \in filters :
            Cardinality({g \in filters : g < f}) = n - 1, 0, None)]

StopBegins ==
  /\ host.pc = "idle" /\ capture.tap
  /\ capture' = NoCapture
  /\ host' = [HostIdle EXCEPT !.pc = "stop",
       !.todo = <<Plainly("unstamps")>>
                  \o (IF capture.listen THEN <<Plainly("normal")>> ELSE <<>>)
                  \o Unfilter(capture.filters)
                  \o (IF capture.parked THEN <<Plainly("unpark")>> ELSE <<>>)]
  /\ UNCHANGED <<setupVars, inbox>> /\ HostUnchanged

HostEnds ==
  /\ host.pc \in {"stamps", "stop"} /\ host.todo = <<>> /\ Free("host")
  /\ host' = HostIdle
  /\ UNCHANGED <<setupVars, capture, inbox>> /\ HostUnchanged

-----------------------------------------------------------------------------
(* The adapter (external).                                                 *)
ToolUnchanged == UNCHANGED <<requestVars, setupSlot, slotVars, dynFlow, captureVars>>
AirRoom(n) == Len(air) + n <= MaxAir
Says(frames) == AirRoom(Len(frames)) /\ air' = air \o frames

Answering(e) ==
  /\ inbox # <<>> /\ Head(inbox).ask.op = "poll"
  /\ Head(inbox).ask.ecu \in {e, Functional}

(* A long reply needs a FLOW filter to go on after its first frame.        *)
ToolReplies(e) ==
  /\ Answering(e)
  /\ LET p == Head(inbox).pids
     IN Says(IF Len(p) = 1 THEN <<Rx(e, "whole", p)>>
             ELSE <<Rx(e, "first", p)>> \o
                  (IF e \in Covered \cup {tool.flow} THEN <<Rx(e, "rest", p)>>
                   ELSE <<>>))
  /\ inbox' = Tail(inbox)
  /\ UNCHANGED <<tool, exchange, untold, budget>> /\ ToolUnchanged

ToolFails(e) ==
  /\ Answering(e) /\ Trouble
  /\ LET p == Head(inbox).pids
     IN \/ inbox' = Tail(inbox) /\ UNCHANGED air            \* nobody answers
        \/ inbox' = Tail(inbox) /\ Says(<<Rx(e, "refused", p)>>)
        \/ inbox' = Tail(inbox) /\ Says(<<Note("error", "tx")>>)
        \/ UNCHANGED inbox /\ Says(<<Rx(e, "pending", p)>>)
  /\ UNCHANGED <<tool, exchange, untold>> /\ ToolUnchanged

Effect(ask) ==
  CASE ask.op = "load" -> [tool EXCEPT !.msg[ask.n] = ask.msg]
    [] ask.op = "enable" -> [tool EXCEPT !.on = @ \cup {ask.n}]
    [] ask.op = "disable" -> [tool EXCEPT !.on = @ \ {ask.n}]
    [] ask.op = "flow" -> [tool EXCEPT !.flow = ask.ecu]
    [] ask.op = "pass" -> [tool EXCEPT !.filters = @ \cup {ask.n}]
    [] ask.op = "unpass" -> [tool EXCEPT !.filters = @ \ {ask.n}]
    [] ask.op = "park" -> [tool EXCEPT !.parked = TRUE]
    [] ask.op = "unpark" -> [tool EXCEPT !.parked = FALSE]
    [] ask.op = "listen" -> [tool EXCEPT !.listen = TRUE]
    [] ask.op = "normal" -> [tool EXCEPT !.listen = FALSE]
    [] OTHER -> tool

Asked == inbox # <<>> /\ Head(inbox).ask.op # "poll"

Fated(fate) ==
  LET r == Head(inbox)
  IN exchange' = IF exchange[r.by].ask = r.ask /\ exchange[r.by].end = None
                   THEN [exchange EXCEPT ![r.by].fate = fate] ELSE exchange

ToolObeys ==
  /\ Asked /\ inbox' = Tail(inbox)
  /\ tool' = Effect(Head(inbox).ask) /\ Fated("done")
  /\ Says(<<Note("reply", Class(Head(inbox).ask))>>)
  /\ UNCHANGED <<untold, budget>> /\ ToolUnchanged

ToolRefuses ==
  /\ Asked /\ inbox' = Tail(inbox) /\ Trouble
  /\ UNCHANGED tool /\ Fated("refused")
  /\ Says(<<Note("error", Class(Head(inbox).ask))>>)
  /\ UNCHANGED untold /\ ToolUnchanged

ReplyLost ==
  /\ Asked /\ inbox' = Tail(inbox) /\ Trouble
  /\ tool' = Effect(Head(inbox).ask) /\ Fated("done")
  /\ UNCHANGED <<air, untold>> /\ ToolUnchanged

(* An error for bytes the adapter misread, or a slot's message.            *)
ToolStrays ==
  /\ Trouble /\ Says(<<Note("error", "stray")>>)
  /\ UNCHANGED <<tool, inbox, exchange, untold>> /\ ToolUnchanged

SlotFires(s) ==
  /\ Trouble /\ s \in tool.on /\ tool.msg[s] # 0     \* an empty slot is silent
  /\ Says(<<Rx(SlotEcu, "whole", SlotPlan[tool.msg[s]])>>)
  /\ UNCHANGED <<tool, inbox, exchange, untold>> /\ ToolUnchanged

-----------------------------------------------------------------------------
Encoding ==
  \/ \E e \in Headers : SendHeader(e) \/ SendHeaderWithFlow(e)
  \/ \E p \in budget.polls : SendPoll(p)
  \/ FlowEnds \/ SendWrites \/ GivesUp

Collecting ==
  \E g \in Gens : \/ CollectorLeaves(g) \/ WindowElapses(g) \/ Resync(g)
                  \/ ResyncEnds(g) \/ CollectorFinishes(g)

Framing ==
  \/ \E f \in Set(air) : \/ OnSlotReply(f) \/ OnLagged(f) \/ OnReply(f)
                            \/ OnTxError(f) \/ OnError(f) \/ OnNote(f)
  \/ OnFrameFinishes

Exchanging == \E t \in Callers : Take(t) \/ TimesOut(t)

Streaming ==
  \/ StartBegins \/ EngineAsks \/ EngineHears \/ StartRegisters \/ StartEnds
  \/ Arm \/ Break \/ TeardownBegins \/ TeardownEnds \/ AbandonSlots

Capturing ==
  \/ \E k \in 0 .. MaxFilters : CaptureBegins(k)
  \/ HostAsks \/ HostHears \/ CaptureFilters \/ CaptureRecords
  \/ StopBegins \/ HostEnds

Tooling ==
  \/ \E e \in Ecus : ToolReplies(e) \/ ToolFails(e)
  \/ ToolObeys \/ ToolRefuses \/ ReplyLost \/ ToolStrays
  \/ \E s \in Slots : SlotFires(s)

LinkNext ==
  \/ Encoding \/ Collecting \/ Framing \/ Exchanging
  \/ \E r \in Runners : Delivers(r)
  \/ Streaming \/ Capturing \/ Tooling

LinkSpec == LinkInit /\ [][LinkNext]_linkVars

(* Every thread goes on with what it began, the collectors' and exchanges' *)
(* windows elapse, and the adapter works through its input (a request it   *)
(* never answers is a disturbance).                                        *)
FairLink ==
  /\ LinkSpec
  /\ WF_linkVars(FlowEnds) /\ WF_linkVars(SendWrites) /\ WF_linkVars(Framing)
  /\ \A g \in Gens : /\ WF_linkVars(WindowElapses(g)) /\ WF_linkVars(CollectorFinishes(g))
                     /\ WF_linkVars(Resync(g)) /\ WF_linkVars(ResyncEnds(g))
  /\ \A r \in Runners : WF_linkVars(Delivers(r))
  /\ \A t \in Callers : WF_linkVars(Take(t) \/ TimesOut(t))
  /\ WF_linkVars(ToolObeys \/ \E e \in Ecus : ToolReplies(e))

-----------------------------------------------------------------------------
(* A poll of one pid is only ever answered with payloads that open with    *)
(* that pid, also when the module answers later than the polls follow      *)
(* (the echo guard of on_rx and the side delivery of lagged replies).      *)
EchoAnswers ==
  \A r \in Runners : Len(job[r].wire.pids) = 1 =>
    \A p \in job[r].pids : Head(p) = Head(job[r].wire.pids)

(* The dynamic FLOW filter the handler believes installed is the adapter's, *)
(* whenever a poll may go out (ensure_flow_filter before the ack of ATSH). *)
FlowTracked == writing.pc # "flow" => dynFlow = tool.flow

(* A slot the adapter fires has its decoder, from the first frame on,      *)
(* until it is being disabled: nothing of it is left behind by a teardown. *)
SlotsAccounted ==
  tool.on \subseteq
    {periodic.decoders[i].slot : i \in DOMAIN periodic.decoders}
      \cup (IF engine.pc = "disable"
              THEN {engine.todo[i].slot : i \in DOMAIN engine.todo} ELSE {})

(* After a capture the adapter's bus is as it was: transmitting, without   *)
(* the capture's filters, with the receive filter back.                    *)
CaptureUnwinds ==
  host.pc = "idle" /\ ~capture.tap =>
    ~tool.listen /\ ~tool.parked /\ tool.filters = {}

(* As long as the handler has heard every exchange rightly, what it makes  *)
(* of the adapter is so, through header switches, slots, captures and      *)
(* their teardowns in any order.                                           *)
AdapterKnown == ~untold => FlowTracked /\ SlotsAccounted /\ CaptureUnwinds

(* Every command the processor dispatches ends, whatever the adapter does: *)
(* by its reply, by an error, or by its collector. Stated of the polls     *)
(* alone: slots or captures started over and over keep a reply for the     *)
(* shared setup_slot on its way, which the model's TimesOut waits for.     *)
CommandsEnd ==
  (busy # NoWire /\ budget.ops = {"poll"}) ~> (busy = NoWire)
==============================================================================
