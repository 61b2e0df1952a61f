----------------------------- MODULE StreamBeat -----------------------------
(***************************************************************************)
(* A live UDS stream: the records the vehicle sends periodically, the      *)
(* decode map the session keeps of them, and the beat thread that breaks   *)
(* the monitor to keep the diagnostic session alive and to define the      *)
(* signals the host adds meanwhile (uds_stream.rs, periodic_stream.rs).    *)
(* Engagement says when a stream starts and stops; here is what happens    *)
(* inside one.                                                             *)
(*                                                                         *)
(* A pid's data is the sequence of its own bytes, so a slice taken at the  *)
(* wrong place is told from the right one.                                 *)
(***************************************************************************)
EXTENDS Integers, Sequences, FiniteSets, SequencesExt

CONSTANTS
  Pids,         \* what the host subscribes to
  Width,        \* bytes of a pid's data
  Known,        \* the pids whose length is in the cache when the stream starts
  SlotCount,    \* periodic slots of the profile
  SlotBytes,    \* data bytes of a slot (SLOT_DATA_BYTES, 7 in the code)
  Subscribed,   \* the subscribed pids a stream may start with: sorted, and a pid
                \* as often as there are subscriptions that hold it
  MaxChanges,   \* bound: calls of stream_change_signal
  MaxTrouble    \* bound: refusals, lost and late answers

(* Sorted: what is equal stands together.                                  *)
Grouped(signals) ==
  \A i, k \in DOMAIN signals :
    signals[i] = signals[k] => \A j \in i .. k : signals[j] = signals[i]

ASSUME ConstantsAssumption ==
  /\ Width \in [Pids -> Nat \ {0}] /\ Known \subseteq Pids
  /\ SlotCount \in Nat \ {0} /\ SlotBytes \in Nat \ {0}
  /\ Subscribed \subseteq Seq(Pids) /\ \A signals \in Subscribed : Grouped(signals)
  /\ MaxChanges \in Nat /\ MaxTrouble \in Nat

Slot == 1 .. SlotCount
NoPid == "none"

VARIABLES
  ecu,       \* the vehicle: the records of each slot, and the slots it sends
  adapter,   \* "prompt" or "monitor"
  unpack,    \* the shared decode map: per slot its packed signals
  fill,      \* slot_fill: bytes defined per slot
  lengths,   \* length_cache: the pids with a length
  pending,   \* StreamPending
  setup,     \* start_stream: the defines still to send, and the refused ones
  beat,      \* the beat thread: where it is, and the adds it works on
  stop,      \* the worker in break_stream_transport and stop_stream
  op,        \* transport_op: who holds it
  loopStop, monitorActive,
  frames,    \* per slot, the records of the newest frame not decoded yet
  late,      \* acks of defines that are still to come
  budget,    \* of MaxChanges and MaxTrouble, what is left
  misled, lateArm    \* history: the session was told wrongly; see StopOwns

wireVars == <<ecu, adapter, late, frames>>
mapVars == <<unpack, fill, lengths>>
flagVars == <<op, loopStop, monitorActive>>
historyVars == <<misled, lateArm>>
streamVars == <<wireVars, mapVars, pending, setup, beat, stop, flagVars, budget, historyVars>>

-----------------------------------------------------------------------------
(* What the vehicle sends, and what the session cuts out of it.            *)
Bytes(p) == [k \in 1 .. Width[p] |-> <<p, k>>]

(* A frame: the records of a slot one after the other, filled up with what *)
(* belongs to no pid (the rolling counters seen on the wire).              *)
Frame(records) ==
  LET data == FlattenSeq([i \in DOMAIN records |-> Bytes(records[i])])
  IN [k \in 1 .. SlotBytes |-> IF k <= Len(data) THEN data[k] ELSE <<NoPid, k>>]

Packed(p, offset) == [pid |-> p, offset |-> offset, len |-> Width[p]]

(* decode_periodic_frame: the slices that lie inside the frame.            *)
Decode(signals, data) ==
  {<<signals[i].pid, SubSeq(data, signals[i].offset + 1,
                            signals[i].offset + signals[i].len)>> :
     i \in {j \in DOMAIN signals :
              signals[j].offset + signals[j].len <= Len(data)}}

(* First fit: the lowest slot with room.                                   *)
Fitting(filled, n) == {s \in Slot : filled[s] + n <= SlotBytes}
FirstFit(filled, n) == CHOOSE s \in Fitting(filled, n) :
                         \A t \in Fitting(filled, n) : s <= t

Empty == [s \in Slot |-> <<>>]
Nothing == [fill |-> [s \in Slot |-> 0], unpack |-> Empty, records |-> <<>>]

(* build_defines: the pids of known length that fit, in order.             *)
BuildDefines(signals, known) ==
  FoldLeft(LAMBDA set, p :
             IF p \notin known \/ Fitting(set.fill, Width[p]) = {} THEN set
             ELSE LET s == FirstFit(set.fill, Width[p])
                  IN [fill |-> [set.fill EXCEPT ![s] = @ + Width[p]],
                      unpack |-> [set.unpack EXCEPT
                                    ![s] = Append(@, Packed(p, set.fill[s]))],
                      records |-> Append(set.records,
                                         [slot |-> s, pid |-> p])],
           Nothing, signals)

Position(signals, pid) == SelectInSeq(signals, LAMBDA g : g.pid = pid)

(* A refused record leaves a gap behind.                                   *)
MutantDropRefused(map, r) ==
  LET i == Position(map[r.slot], r.pid)
  IN IF i = 0 THEN map ELSE [map EXCEPT ![r.slot] = RemoveAt(@, i)]

(* drop_refused: the record never joined, those after it move up.          *)
Without(signals, i) ==
  LET kept == RemoveAt(signals, i)
  IN [k \in DOMAIN kept |->
        IF kept[k].offset > signals[i].offset
          THEN [kept[k] EXCEPT !.offset = @ - signals[i].len] ELSE kept[k]]

DropRefused(map, r) ==
  LET i == Position(map[r.slot], r.pid)
  IN IF i = 0 THEN map ELSE [map EXCEPT ![r.slot] = Without(@, i)]

(* The signals of a slot that stay when some pids are removed.             *)
Retain(signals, removes) ==
  FoldLeft(LAMBDA kept, g : IF g.pid \in removes THEN kept ELSE Append(kept, g),
           <<>>, signals)

FillOf(map) ==
  [s \in Slot |-> FoldLeft(LAMBDA n, g : n + g.len, 0, map[s])]

StreamTypeOK ==
  /\ ecu.records \in [Slot -> Seq(Pids)] /\ ecu.sends \subseteq Slot
  /\ adapter \in {"prompt", "monitor"}
  /\ DOMAIN unpack = Slot /\ fill \in [Slot -> 0 .. SlotBytes]
  /\ lengths \subseteq Pids
  /\ pending.adds \cup pending.removes \subseteq Pids
  /\ op \in {"free", "beat", "stop"}
  /\ loopStop \in BOOLEAN /\ monitorActive \in BOOLEAN
  /\ late \in Nat /\ misled \in BOOLEAN /\ lateArm \in BOOLEAN

-----------------------------------------------------------------------------
(* start_stream: one define per record, each answered before the next.     *)
Trouble == budget.trouble > 0 /\ budget' = [budget EXCEPT !.trouble = @ - 1]

StreamInit ==
  /\ ecu = [records |-> Empty, sends |-> {}] /\ adapter = "prompt"
  /\ \E signals \in Subscribed :
       LET set == BuildDefines(signals, Known)
       IN /\ set.records # <<>>
          /\ unpack = set.unpack
          /\ setup = [pc |-> "define", todo |-> set.records, refused |-> <<>>]
  /\ fill = [s \in Slot |-> 0] /\ lengths = Known
  /\ pending = [adds |-> {}, removes |-> {}]
  /\ beat = [pc |-> "none", adds |-> {}] /\ stop = "idle"
  /\ op = "free" /\ loopStop = FALSE /\ monitorActive = FALSE
  /\ frames = [s \in Slot |-> <<>>] /\ late = 0
  /\ budget = [changes |-> MaxChanges, trouble |-> MaxTrouble]
  /\ misled = FALSE /\ lateArm = FALSE

Joins(r) == ecu' = [ecu EXCEPT !.records[r.slot] = Append(@, r.pid)]

SetupAcked ==
  /\ setup.pc = "define" /\ setup.todo # <<>>
  /\ Joins(Head(setup.todo))
  /\ setup' = [setup EXCEPT !.todo = Tail(@)]
  /\ UNCHANGED <<adapter, late, frames, mapVars, pending, beat, stop, flagVars,
                 budget, historyVars>>

(* No positive ack: refused, or done by a vehicle whose ack was lost.      *)
SetupRefused ==
  /\ setup.pc = "define" /\ setup.todo # <<>> /\ Trouble
  /\ setup' = [setup EXCEPT !.todo = Tail(@),
                            !.refused = Append(@, Head(setup.todo))]
  /\ \/ UNCHANGED <<ecu, misled>>
     \/ Joins(Head(setup.todo)) /\ misled' = TRUE
  /\ UNCHANGED <<adapter, late, frames, mapVars, pending, beat, stop, flagVars,
                 lateArm>>

(* What was refused leaves the map; the slots that are left are started,   *)
(* and the stream is live, its beat thread spawned.                        *)
SetupStarts ==
  /\ setup.pc = "define" /\ setup.todo = <<>>
  /\ LET map == FoldLeft(DropRefused, unpack, setup.refused)
         used == {s \in Slot : map[s] # <<>>}
     IN \/ /\ used # {}
           /\ unpack' = map /\ fill' = FillOf(map)
           /\ ecu' = [ecu EXCEPT !.sends = used]
           /\ setup' = [setup EXCEPT !.pc = "live", !.refused = <<>>]
           /\ beat' = [beat EXCEPT !.pc = "arm"]
           /\ UNCHANGED budget
        \/ /\ IF used = {} THEN UNCHANGED budget ELSE Trouble
           /\ setup' = [setup EXCEPT !.pc = "bailed", !.refused = <<>>]
           /\ UNCHANGED <<unpack, fill, ecu, beat>>
  /\ UNCHANGED <<adapter, late, frames, lengths, pending, stop, flagVars,
                 historyVars>>

-----------------------------------------------------------------------------
(* The host, while the stream is live.                                     *)
Live == setup.pc = "live" /\ stop \in {"idle", "break", "tear"}
Changes == budget.changes > 0 /\ budget' = [budget EXCEPT !.changes = @ - 1]

StreamAdds(p) ==
  /\ Live /\ Changes
  /\ pending' = [adds |-> pending.adds \cup {p},
                 removes |-> pending.removes \ {p}]
  /\ UNCHANGED <<wireVars, mapVars, setup, beat, stop, flagVars, historyVars>>

StreamRemoves(p) ==
  /\ Live /\ Changes
  /\ pending' = [adds |-> pending.adds \ {p},
                 removes |-> pending.removes \cup {p}]
  /\ UNCHANGED <<wireVars, mapVars, setup, beat, stop, flagVars, historyVars>>

-----------------------------------------------------------------------------
(* The beat thread.  Every step but BeatArms' wait for it, and BeatWaits,  *)
(* is under transport_op.                                                  *)
BeatAt(l) == beat.pc = l
Goes(l) == beat' = [beat EXCEPT !.pc = l]

(* The filters, then STM.                                                  *)
BeatArms ==
  /\ BeatAt("arm") /\ op = "free" /\ Goes("wait")
  /\ adapter' = "monitor" /\ monitorActive' = TRUE
  /\ lateArm' = (stop # "idle" /\ stop # "break")
  /\ UNCHANGED <<ecu, late, frames, mapVars, pending, setup, stop, op, loopStop,
                 budget, misled>>

BeatWaits ==
  /\ BeatAt("wait") /\ op = "free"
  /\ IF loopStop THEN Goes("done") /\ UNCHANGED op
                 ELSE Goes("break") /\ op' = "beat"
  /\ UNCHANGED <<wireVars, mapVars, pending, setup, stop, loopStop,
                 monitorActive, budget, historyVars>>

(* Break, STOPPED or its timeout, keepalive.                               *)
BeatBreaks ==
  /\ BeatAt("break") /\ Goes("signals")
  /\ monitorActive' = FALSE /\ adapter' = "prompt"
  /\ UNCHANGED <<ecu, late, frames, mapVars, pending, setup, stop, op, loopStop,
                 budget, historyVars>>

(* process_pending_signals: take what is pending; removed pids leave the   *)
(* map, while their bytes stay in the vehicle's slots.                     *)
BeatTakesSignals ==
  /\ BeatAt("signals")
  /\ beat' = [pc |-> IF pending.adds = {} THEN "rearm" ELSE "quiet",
              adds |-> pending.adds]
  /\ unpack' = [s \in Slot |-> Retain(unpack[s], pending.removes)]
  /\ pending' = [adds |-> {}, removes |-> {}]
  /\ UNCHANGED <<wireVars, fill, lengths, setup, stop, flagVars, budget, historyVars>>

(* 2A04 stops the scheduler, or is not heard of: tolerated.                *)
BeatQuiets ==
  /\ BeatAt("quiet") /\ Goes("add")
  /\ \/ ecu' = [ecu EXCEPT !.sends = {}] /\ UNCHANGED budget
     \/ Trouble /\ UNCHANGED ecu
  /\ UNCHANGED <<adapter, late, frames, mapVars, pending, setup, stop, flagVars,
                 historyVars>>

(* The pid is done with; the host is told.                                 *)
Drops(p) ==
  /\ beat' = [beat EXCEPT !.adds = @ \ {p}]

(* A pid of unknown length is asked for once.                              *)
BeatProbes(p) ==
  /\ BeatAt("add") /\ p \in beat.adds \ lengths
  /\ \/ lengths' = lengths \cup {p} /\ UNCHANGED <<beat, budget>>
     \/ Trouble /\ Drops(p) /\ UNCHANGED lengths
  /\ UNCHANGED <<wireVars, unpack, fill, pending, setup, stop, flagVars,
                 historyVars>>

(* No slot has room: refused without a define.                             *)
BeatRefuses(p) ==
  /\ BeatAt("add") /\ p \in beat.adds \cap lengths
  /\ Fitting(fill, Width[p]) = {}
  /\ Drops(p)
  /\ UNCHANGED <<wireVars, mapVars, pending, setup, stop, flagVars, budget,
                 historyVars>>

(* What the session makes of a define, whose ack may be that of an earlier *)
(* one: all acks read alike.                                               *)
Accepted(p, s) ==
  /\ unpack' = [unpack EXCEPT ![s] = Append(@, Packed(p, fill[s]))]
  /\ fill' = [fill EXCEPT ![s] = @ + Width[p]]

(* A define sent while the scheduler runs is not taken and ends the        *)
(* broadcast.  Else the vehicle takes it or refuses it, and its ack comes  *)
(* in time or not.                                                         *)
BeatDefines(p) ==
  /\ BeatAt("add") /\ p \in beat.adds \cap lengths
  /\ Fitting(fill, Width[p]) # {}
  /\ LET s == FirstFit(fill, Width[p])
         Taken == ecu' = [ecu EXCEPT !.records[s] = Append(@, p)]
         quiet == ecu.sends = {}
     IN \/ /\ quiet /\ Taken /\ Accepted(p, s)               \* acked
           /\ UNCHANGED <<late, misled, budget>>
        \/ /\ quiet /\ Trouble                               \* refused
           /\ UNCHANGED <<ecu, late, misled, unpack, fill>>
        \/ /\ quiet /\ Trouble /\ Taken                      \* acked too late
           /\ late' = late + 1 /\ misled' = TRUE
           /\ UNCHANGED <<unpack, fill>>
        \/ /\ quiet /\ late > 0 /\ late' = late - 1          \* an older ack
           /\ Accepted(p, s) /\ UNCHANGED <<ecu, misled, budget>>
        \/ /\ ~quiet /\ ecu' = [ecu EXCEPT !.sends = {}]
           /\ UNCHANGED <<late, misled, unpack, fill, budget>>
  /\ Drops(p)
  /\ UNCHANGED <<adapter, frames, lengths, pending, setup, stop, flagVars,
                 lateArm>>

(* The slots stay quiet when no signal was added.                          *)
MutantBeatRestarts ==
  /\ BeatAt("add") /\ beat.adds = {} /\ Goes("rearm")
  /\ UNCHANGED <<wireVars, mapVars, pending, setup, stop, flagVars, budget, historyVars>>

(* Whatever came of the defines, the scheduler is started again.           *)
BeatRestarts ==
  /\ BeatAt("add") /\ beat.adds = {} /\ Goes("rearm")
  /\ ecu' = [ecu EXCEPT !.sends = {s \in Slot : fill[s] > 0}]
  /\ UNCHANGED <<adapter, late, frames, mapVars, pending, setup, stop, flagVars,
                 budget, historyVars>>

(* A stop meanwhile owns the adapter: it is left at the prompt.            *)
BeatRearms ==
  /\ BeatAt("rearm") /\ op' = "free"
  /\ IF loopStop THEN Goes("done") /\ UNCHANGED <<adapter, monitorActive>>
                 ELSE /\ Goes("wait")
                      /\ adapter' = "monitor" /\ monitorActive' = TRUE
  /\ UNCHANGED <<ecu, late, frames, mapVars, pending, setup, stop, loopStop,
                 budget, historyVars>>

-----------------------------------------------------------------------------
(* The periodic frames, kept per slot by the coalescing decode thread.     *)
EcuSends(s) ==
  /\ adapter = "monitor" /\ s \in ecu.sends
  /\ frames' = [frames EXCEPT ![s] = ecu.records[s]]
  /\ UNCHANGED <<ecu, adapter, late, mapVars, pending, setup, beat, stop,
                 flagVars, budget, historyVars>>

Decodes(s) ==
  /\ frames[s] # <<>> /\ frames' = [frames EXCEPT ![s] = <<>>]
  /\ UNCHANGED <<ecu, adapter, late, mapVars, pending, setup, beat, stop,
                 flagVars, budget, historyVars>>

-----------------------------------------------------------------------------
(* The worker: break_stream_transport, then stop_stream.                   *)

(* The beat thread is not told.                                            *)
MutantStopBegins ==
  /\ setup.pc = "live" /\ stop = "idle" /\ stop' = "break"
  /\ UNCHANGED <<wireVars, mapVars, pending, setup, beat, flagVars, budget, historyVars>>

StopBegins ==
  /\ setup.pc = "live" /\ stop = "idle"
  /\ stop' = "break" /\ loopStop' = TRUE
  /\ UNCHANGED <<wireVars, mapVars, pending, setup, beat, op, monitorActive,
                 budget, historyVars>>

(* Under transport_op: out of the monitor, if it is on.                    *)
StopBreaks ==
  /\ stop = "break" /\ op = "free" /\ stop' = "tear"
  /\ IF monitorActive THEN adapter' = "prompt" /\ monitorActive' = FALSE
                      ELSE UNCHANGED <<adapter, monitorActive>>
  /\ UNCHANGED <<ecu, late, frames, mapVars, pending, setup, beat, op, loopStop,
                 budget, historyVars>>

(* 2A04, 2C03, 1001; unheard, the session lapses in the vehicle by itself. *)
StopTears ==
  /\ stop = "tear" /\ stop' = "done"
  /\ ecu' = [records |-> Empty, sends |-> {}]
  /\ UNCHANGED <<adapter, late, frames, mapVars, pending, setup, beat, flagVars,
                 budget, historyVars>>

BeatStep ==
  \/ BeatArms \/ BeatWaits \/ BeatBreaks \/ BeatTakesSignals \/ BeatQuiets
  \/ \E p \in Pids : BeatProbes(p) \/ BeatRefuses(p) \/ BeatDefines(p)
  \/ BeatRestarts \/ BeatRearms

StreamNext ==
  \/ SetupAcked \/ SetupRefused \/ SetupStarts
  \/ \E p \in Pids : StreamAdds(p) \/ StreamRemoves(p)
  \/ BeatStep
  \/ \E s \in Slot : EcuSends(s) \/ Decodes(s)
  \/ StopBegins \/ StopBreaks \/ StopTears

StreamSpec == StreamInit /\ [][StreamNext]_streamVars

(* The beat thread goes on, and gets transport_op when it is free: the     *)
(* only other user takes it once.                                          *)
FairStream == StreamSpec /\ WF_streamVars(BeatStep)

-----------------------------------------------------------------------------
(* A value delivered for a pid is that pid's data, or what an older frame  *)
(* carries behind its last record: the decode map follows the vehicle's    *)
(* records through refused defines, removals and adds, also for the frames *)
(* still waiting when it changes.  One thing breaks it: a define the       *)
(* vehicle took and whose ack came too late.                               *)
DecodesTrue ==
  ~misled => \A s \in Slot : \A d \in Decode(unpack[s], Frame(frames[s])) :
               (\E k \in DOMAIN d[2] : d[2][k][1] # NoPid) => d[2] = Bytes(d[1])

(* Whenever the session listens, the vehicle sends every slot that carries *)
(* a signal of the map: no pass of the beat leaves the schedule dead       *)
(* ("the re-arm is UNCONDITIONAL").                                        *)
BroadcastBack ==
  adapter = "monitor" /\ stop = "idle" =>
    \A s \in Slot : unpack[s] # <<>> => s \in ecu.sends

(* Once the stop has broken the monitor the adapter stays at the prompt    *)
(* for the teardown's commands ("stop owns the adapter now"), unless the   *)
(* beat thread was spawned and had not armed yet: then it arms after all.  *)
StopOwns == stop \in {"tear", "done"} /\ ~lateArm => adapter = "prompt"

=============================================================================
