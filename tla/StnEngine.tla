----------------------------- MODULE StnEngine -----------------------------
(***************************************************************************)
(* Adapter-periodic acquisition on an OBDLink STN chip: the plan that turns *)
(* the active pids into periodic messages (stn_periodic.rs), and the engine *)
(* that installs them, monitors the answers and takes everything back      *)
(* (link/stn_periodic_engine.rs).  Engagement says when; this module is    *)
(* the conversation with the chip, with commands and answers that get lost *)
(* and the chip's own refusals.                                            *)
(*                                                                         *)
(* The chip is external; what it does is what the engine's comments record *)
(* of it: a byte while it monitors stops the monitor and closes the        *)
(* protocol, after which requests stay unanswered until the protocol is    *)
(* closed and opened again.                                                *)
(***************************************************************************)
EXTENDS Integers, Sequences, FiniteSets, SequencesExt

CONSTANTS
  Pids,         \* [pid |-> [mode, header, tier, len]]
  Signals,      \* the sets of active pids a plan may be made of
  ChunkLimit,   \* [mode -> Nat]: members of a message under the admission
  Memory,       \* messages the chip can hold
  Attempts,     \* of STM, 5 in the code
  MaxTrouble,   \* bound: lost bytes, commands and answers, aborted monitors
  MaxFires      \* bound: frames

ASSUME StnAssumption ==
  /\ \A p \in DOMAIN Pids : Pids[p].len \in Nat \ {0}
                            /\ Pids[p].mode \in {"01", "22"}
                            /\ Pids[p].tier \in {"Fast", "Medium", "Slow"}
  /\ Signals \subseteq SUBSET DOMAIN Pids /\ \A s \in Signals : IsFiniteSet(s)
  /\ ChunkLimit \in [{"01", "22"} -> Nat \ {0}]
  /\ Memory \in Nat /\ Attempts \in Nat \ {0} /\ MaxTrouble \in Nat /\ MaxFires \in Nat

-----------------------------------------------------------------------------
(* The plan.  Nobody sends flow control for a periodic answer, so the      *)
(* answer to a message has to fit one frame of seven bytes: the reply byte, *)
(* and per member its echo and its data.                                   *)
Cost(p) == (IF Pids[p].mode = "22" THEN 2 ELSE 1) + Pids[p].len
CostOf(ps) == FoldLeft(LAMBDA sum, p : sum + Cost(p), 0, ps)

(* The session's gate: a pid that fits no frame keeps everything polling.  *)
Engages(sig) == sig # {} /\ \A p \in sig : 1 + Cost(p) <= 7

Room(message, p) == CostOf(message) + Cost(p) <= 7 - 1

Packed(members) ==
  FoldLeft(LAMBDA acc, p :
             IF /\ acc # <<>> /\ Len(Last(acc)) < ChunkLimit[Pids[p].mode]
                /\ Room(Last(acc), p)
             THEN Front(acc) \o <<Append(Last(acc), p)>>
             ELSE Append(acc, <<p>>),
           <<>>, members)

(* build_periodic_set: per tier, then per mode and header.                 *)
Plan(sig) ==
  LET tiers == <<"Fast", "Medium", "Slow">>
      buckets(t) == SetToSeq({<<Pids[p].mode, Pids[p].header>> :
                                p \in {q \in sig : Pids[q].tier = t}})
      members(t, b) == SetToSeq({p \in sig : /\ Pids[p].tier = t
                                             /\ <<Pids[p].mode, Pids[p].header>> = b})
  IN FlattenSeq([i \in 1 .. 3 |->
       FlattenSeq([j \in DOMAIN buckets(tiers[i]) |->
                     Packed(members(tiers[i], buckets(tiers[i])[j]))])])

IdOf(message) == Pids[message[1]].header
IdsOf(messages) == {IdOf(m) : m \in messages}

(* Every answer fits the one frame nobody has to ask for, a message has one *)
(* mode, header and tier and no more members than the admission allows, and *)
(* the plan asks for every active pid exactly once, and for no other.       *)
PlanFits(sig) ==
  /\ Plan(sig) \in Seq(Seq(sig) \ {<<>>})
  /\ \A m \in Range(Plan(sig)) :
       /\ 1 + CostOf(m) <= 7 /\ Len(m) <= ChunkLimit[Pids[m[1]].mode]
       /\ \A p \in Range(m) : /\ Pids[p].mode = Pids[m[1]].mode
                              /\ Pids[p].header = Pids[m[1]].header
                              /\ Pids[p].tier = Pids[m[1]].tier
  /\ LET asked == FlattenSeq(Plan(sig)) IN Range(asked) = sig /\ Len(asked) = Cardinality(sig)

-----------------------------------------------------------------------------
VARIABLES
  sig,       \* the active pids the plan was built from
  pc,        \* where the lifecycle worker is in the engine
  script,    \* messages still to install
  chip,      \* [monitors, normal, messages, filters, path, number]: external
  live,      \* Live: [decoders, ids], or NoEngine
  stopped, active,   \* MonitorHandshake: stopped_signal, monitor_active
  tap,       \* the platform is in monitor mode: lines go to the tap
  tries,     \* STM written so often
  clears,    \* STPPMC sent so often
  queue,     \* frames between the tap and the decode thread
  sent, shown,  \* per response id, per pid: number of the newest frame
  fires,     \* frames seen on the bus
  lost,      \* history: the last STM never reached the chip
  trouble, entry   \* of MaxTrouble, what is left, and was before the break

decode == <<queue, sent, shown, fires>>
vars == <<sig, pc, script, chip, live, stopped, active, tap, tries, clears,
          decode, lost, trouble, entry>>

Messages == Range(Plan(sig))
TypeOK ==
  /\ sig \in Signals /\ script \in Seq(Messages) /\ chip.messages \subseteq Messages
  /\ pc \in {"off", "install", "refused", "installed", "unarmed", "setup", "try",
             "watch", "armed", "broken", "detach", "abandoned", "flush", "clear", "ask", "pin",
             "probe", "search", "reprobe", "done"}
  /\ {chip.monitors, chip.normal, chip.number, stopped, active, tap, lost} \subseteq BOOLEAN
  /\ chip.filters \subseteq IdsOf(Messages) /\ chip.path \in {"open", "closed", "dead"}
  /\ live.decoders \subseteq Messages /\ live.ids = IdsOf(live.decoders)
  /\ tries \in 0 .. Attempts /\ clears \in 0 .. 2 /\ fires \in 0 .. MaxFires
  /\ trouble \in 0 .. entry /\ entry \in 0 .. MaxTrouble

NoEngine == [decoders |-> {}, ids |-> {}]
Goes(from, to) == pc = from /\ pc' = to

Init ==
  /\ sig \in {s \in Signals : Engages(s)}
  /\ pc = "off" /\ script = Plan(sig)
  /\ \E number \in BOOLEAN :
       chip = [monitors |-> FALSE, normal |-> FALSE, messages |-> {}, filters |-> {},
               path |-> "open", number |-> number]
  /\ live = NoEngine /\ stopped = FALSE /\ active = FALSE /\ tap = FALSE
  /\ lost = FALSE
  /\ tries = 0 /\ clears = 0 /\ trouble = MaxTrouble /\ entry = MaxTrouble
  /\ queue = <<>> /\ fires = 0
  /\ sent = [id \in IdsOf({<<p>> : p \in sig}) |-> 0] /\ shown = [p \in sig |-> 0]

-----------------------------------------------------------------------------
(* The chip.  A byte stops a monitor, and the path stays dead until the    *)
(* protocol is closed and a request opens it again.  A command into a       *)
(* monitor is such a byte and nothing else.                                *)
ByteTo(c) == IF c.monitors THEN [c EXCEPT !.monitors = FALSE, !.path = "dead"] ELSE c
Heard(effect) == IF chip.monitors THEN ByteTo(chip) ELSE effect

Stored(m) == [chip EXCEPT !.messages = @ \cup {m}]
Wiped == [chip EXCEPT !.messages = {}]
Closed == [chip EXCEPT !.path = "closed"]
Probed == [chip EXCEPT !.path = IF @ = "closed" THEN "open" ELSE @]

Loses == trouble > 0 /\ trouble' = trouble - 1

(* exchange: the answer to this very command, or nothing.  Trouble loses *)
(* the command or its answer; what a stopped monitor says answers nothing, *)
(* or anything.                                                            *)
Exchange(effect, answered, silent) ==
  \/ /\ chip' = Heard(effect) /\ UNCHANGED trouble
     /\ pc' \in IF chip.monitors THEN {answered, silent} ELSE {answered}
  \/ /\ Loses /\ chip' \in {chip, Heard(effect)} /\ pc' = silent

-----------------------------------------------------------------------------
(* start: STCMM 1, whose answer nobody looks at, then message by message.  *)
StartMode ==
  /\ pc = "off" /\ Exchange([chip EXCEPT !.normal = TRUE], "install", "install")
  /\ UNCHANGED <<sig, script, live, stopped, active, tap, tries, clears, decode, lost, entry>>

Install ==
  /\ pc = "install" /\ script # <<>> /\ Cardinality(chip.messages) < Memory
  /\ \/ /\ chip' = Stored(Head(script)) /\ UNCHANGED trouble
        /\ live' = [decoders |-> live.decoders \cup {Head(script)},
                    ids |-> live.ids \cup {IdOf(Head(script))}]
     \/ /\ Loses
        /\ chip' \in {chip, Stored(Head(script))} /\ UNCHANGED live
  /\ script' = Tail(script)
  /\ UNCHANGED <<sig, pc, stopped, active, tap, tries, clears, decode, lost, entry>>

OutOfMemory ==
  /\ pc = "install" /\ script # <<>> /\ Cardinality(chip.messages) >= Memory
  /\ script' = <<>>
  /\ UNCHANGED <<sig, pc, chip, live, stopped, active, tap, tries, clears, decode,
                 lost, trouble, entry>>

Installed ==
  /\ pc = "install" /\ script = <<>>
  /\ pc' = IF live.decoders = {} THEN "refused" ELSE "installed"
  /\ UNCHANGED <<sig, script, chip, live, stopped, active, tap, tries, clears, decode,
                 lost, trouble, entry>>

-----------------------------------------------------------------------------
(* arm: the tap, then each command alone.  raw_ack takes any line, or a    *)
(* second of silence, for an answer: what the chip ignored stays unnoticed. *)
EnterMonitor ==
  /\ pc = "installed" /\ pc' \in {"setup", "unarmed"} /\ tap' = (pc' = "setup")
  /\ UNCHANGED <<sig, script, chip, live, stopped, active, tries, clears, decode,
                 lost, trouble, entry>>

SetFilters ==
  /\ Goes("setup", "try")
  /\ \/ chip' = [chip EXCEPT !.filters = live.ids] /\ UNCHANGED trouble
     \/ \E id \in live.ids : /\ Loses
                             /\ chip' = [chip EXCEPT !.filters = live.ids \ {id}]
  /\ UNCHANGED <<sig, script, live, stopped, active, tap, tries, clears, decode, lost, entry>>

(* STM is written raw: to a chip that still monitors it is a byte like any *)
(* other, and one that gets lost looks like one that holds.                *)
StmLost == Loses /\ lost' = TRUE /\ UNCHANGED chip

MutantMonitor ==
  /\ Goes("try", "watch") /\ tries' = tries + 1
  /\ \/ StmLost /\ UNCHANGED stopped
     \/ /\ lost' = FALSE /\ stopped' = (chip.monitors \/ stopped) /\ UNCHANGED trouble
        /\ chip' = Heard([chip EXCEPT !.monitors = TRUE])
  /\ UNCHANGED <<sig, script, live, active, tap, clears, decode, entry>>
Monitor ==
  /\ Goes("try", "watch") /\ tries' = tries + 1
  /\ \/ StmLost /\ stopped' = FALSE
     \/ /\ lost' = FALSE /\ stopped' = chip.monitors /\ UNCHANGED trouble
        /\ chip' = Heard([chip EXCEPT !.monitors = TRUE])
  /\ UNCHANGED <<sig, script, live, active, tap, clears, decode, entry>>

(* The chip aborts its monitor, within the 400 ms the engine looks or any  *)
(* time after; the tap notes it.                                           *)
Aborts ==
  /\ chip.monitors /\ Loses
  /\ chip' = ByteTo(chip) /\ stopped' = (stopped \/ tap)
  /\ UNCHANGED <<sig, pc, script, live, active, tap, tries, clears, decode, lost, entry>>

Holds ==
  /\ Goes("watch", "armed") /\ ~stopped /\ active' = TRUE
  /\ UNCHANGED <<sig, script, chip, live, stopped, tap, tries, clears, decode, lost, trouble, entry>>

Retries ==
  /\ pc = "watch" /\ stopped
  /\ pc' = IF tries < Attempts THEN "try" ELSE "unarmed"
  /\ UNCHANGED <<sig, script, chip, live, stopped, active, tap, tries, clears, decode,
                 lost, trouble, entry>>

-----------------------------------------------------------------------------
(* While it monitors, the chip passes on the answers its filters let       *)
(* through.  The tap queues those of our ids, and the decode thread takes   *)
(* the whole queue and keeps the newest frame of each id.                  *)
Fires(m) ==
  /\ chip.monitors /\ chip.normal /\ fires < MaxFires /\ IdOf(m) \in chip.filters
  /\ fires' = fires + 1
  /\ IF tap /\ IdOf(m) \in live.ids
     THEN /\ queue' = Append(queue, [message |-> m, n |-> fires + 1])
          /\ sent' = [sent EXCEPT ![IdOf(m)] = fires + 1]
     ELSE UNCHANGED <<queue, sent>>
  /\ UNCHANGED <<sig, pc, script, chip, live, stopped, active, tap, tries, clears, shown,
                 lost, trouble, entry>>

MutantFreshest == {f \in Range(queue) :
                \A g \in Range(queue) : IdOf(g.message) = IdOf(f.message) => g.n >= f.n}
Freshest == {f \in Range(queue) :
                \A g \in Range(queue) : IdOf(g.message) = IdOf(f.message) => g.n <= f.n}

Decode ==
  /\ queue # <<>> /\ queue' = <<>>
  /\ shown' = [p \in DOMAIN shown |->
       LET f == {g \in Freshest : g.message \in live.decoders /\ p \in Range(g.message)}
       IN IF f = {} THEN shown[p] ELSE (CHOOSE g \in f : TRUE).n]
  /\ UNCHANGED <<sig, pc, script, chip, live, stopped, active, tap, tries, clears, sent,
                 fires, lost, trouble, entry>>

-----------------------------------------------------------------------------
(* break_monitor: if the monitor was verified, a byte and STFAC, both raw  *)
(* and each as good to stop it.                                            *)
BreakByte ==
  /\ pc \in {"installed", "unarmed", "armed"} /\ pc' = "broken" /\ entry' = trouble
  /\ \/ /\ chip' = (IF active THEN ByteTo(chip) ELSE chip) /\ UNCHANGED trouble
        /\ stopped' = IF active THEN chip.monitors ELSE stopped
     \/ active /\ Loses /\ UNCHANGED chip /\ stopped' = FALSE
  /\ UNCHANGED <<sig, script, live, active, tap, tries, clears, decode, lost>>

BreakEnds ==
  /\ Goes("broken", "detach") /\ tap' = FALSE /\ active' = FALSE
  /\ \/ /\ chip' = (IF active THEN Heard([chip EXCEPT !.filters = {}]) ELSE chip)
        /\ UNCHANGED trouble
     \/ active /\ Loses /\ UNCHANGED chip
  /\ UNCHANGED <<sig, script, live, stopped, tries, clears, decode, lost, entry>>

(* The session asks the host to unwire its tap; without an answer the      *)
(* engine forgets and writes nothing.                                      *)
Abandon ==
  /\ Goes("detach", "abandoned") /\ live' = NoEngine /\ active' = FALSE
  /\ UNCHANGED <<sig, script, chip, stopped, tap, tries, clears, decode, lost, trouble, entry>>

-----------------------------------------------------------------------------
(* teardown.                                                               *)
Flush ==
  /\ pc = "detach" /\ live' = NoEngine /\ Exchange(chip, "clear", "clear")
  /\ UNCHANGED <<sig, script, stopped, active, tap, tries, clears, decode, lost, entry>>

MutantClear ==
  /\ pc = "clear" /\ clears' = clears + 1
  /\ Exchange(Wiped, "ask", "ask")
  /\ UNCHANGED <<sig, script, live, stopped, active, tap, tries, decode, lost, entry>>
Clear ==
  /\ pc = "clear" /\ clears' = clears + 1
  /\ Exchange(Wiped, "ask", IF clears = 0 THEN "clear" ELSE "ask")
  /\ UNCHANGED <<sig, script, live, stopped, active, tap, tries, decode, lost, entry>>

teardownSame == <<sig, script, live, stopped, active, tap, tries, clears, decode,
                  lost, entry>>

(* STPR names the protocol, which has an STN number if it is a CAN one.    *)
AskProtocol ==
  /\ pc = "ask"
  /\ Exchange(chip, IF chip.number THEN "pin" ELSE "search", "search")
  /\ UNCHANGED teardownSame

Pin ==
  /\ pc = "pin" /\ Exchange(Closed, "probe", "probe")
  /\ UNCHANGED teardownSame

(* Reopened only if the probe's answer is one of the vehicle.              *)
Probe ==
  /\ pc = "probe"
  /\ Exchange(Probed, IF Probed.path = "open" THEN "done" ELSE "search", "search")
  /\ UNCHANGED teardownSame

Search ==
  /\ pc = "search" /\ Exchange(Closed, "reprobe", "reprobe")
  /\ UNCHANGED teardownSame

Reprobe ==
  /\ pc = "reprobe" /\ Exchange(Probed, "done", "done")
  /\ UNCHANGED teardownSame

Ended ==
  /\ pc \in {"refused", "abandoned", "done"} /\ queue = <<>>
  /\ UNCHANGED vars

Next ==
  \/ StartMode \/ Install \/ OutOfMemory \/ Installed
  \/ EnterMonitor \/ SetFilters \/ Monitor \/ Aborts \/ Holds \/ Retries
  \/ (\E m \in chip.messages : Fires(m)) \/ Decode
  \/ BreakByte \/ BreakEnds \/ Abandon
  \/ Flush \/ Clear \/ AskProtocol \/ Pin \/ Probe \/ Search \/ Reprobe
  \/ Ended

Spec == Init /\ [][Next]_vars

-----------------------------------------------------------------------------
(* "Armed must mean actually monitoring."  From its verdict on STM to the   *)
(* break, the engine knows of every monitor the chip runs, so nobody sends  *)
(* a command into one, and after the break none is left unless the byte and *)
(* STFAC both got lost.  The other way round, it takes a prompt for a       *)
(* monitor only after an STM that never arrived, or an abort after its look *)
(* - and of that one its own tap has noted the STOPPED nobody reads.        *)
Leaving == {"broken", "detach", "abandoned", "clear", "ask", "pin", "probe", "search",
            "reprobe", "done"}
Missed == IF pc \in Leaving THEN entry - trouble ELSE 0
MonitorKnown ==
  /\ chip.monitors => active \/ pc = "watch" \/ Missed >= 2
  /\ active /\ pc # "broken" => chip.monitors \/ stopped \/ lost

(* Once the tap's queue is empty, every decoded message of an id that fired *)
(* last shows that very frame: coalescing drops old frames, never the new.  *)
NewestShown ==
  queue = <<>> /\ live # NoEngine =>
    \A id \in DOMAIN sent : sent[id] > 0 =>
      \/ \E p \in sig : Pids[p].header = id /\ shown[p] = sent[id]
      \/ \E m \in chip.messages \ live.decoders : IdOf(m) = id

(* A way out that loses one byte, command or answer, whichever from the     *)
(* break on, still leaves a chip that transmits nothing and whose next      *)
(* request opens the path - if the protocol has a number: without one STPC  *)
(* is the only way out, and it is sent once.                                *)
LeavesClean ==
  pc = "done" /\ Missed <= 1 =>
    /\ chip.messages = {} /\ ~chip.monitors
    /\ chip.number => chip.path # "dead"
============================================================================
