------------------------------ MODULE Batches ------------------------------
(***************************************************************************)
(* Batching: which due PIDs share a wire, what a vehicle answers to it, and *)
(* what the session makes of the answer.  A closed loop: the plugin        *)
(* (acquisition.rs) groups picks into chunks and pipe segments by what it  *)
(* learned; the reply is framed and cut up by the learned lengths          *)
(* (response_parser.rs); the data callback (callbacks.rs) demotes, excludes *)
(* and clamps by the outcome, which changes the next wire.                 *)
(*                                                                         *)
(* A byte is what it can be taken for, "as", and whose it is, "of": the    *)
(* code sees only the first, the properties compare the second.  A pid     *)
(* stands for its own echo byte.  Transport errors of a wire without a     *)
(* chunk stop the polling: they are in PollChain.                          *)
(***************************************************************************)
EXTENDS Integers, Sequences, FiniteSets, SequencesExt, FiniteSetsExt

CONSTANTS
  Mode01, Mode22,   \* the plain data pids of each mode
  Ecus,
  Holds,            \* [Ecus -> SUBSET pids]: what each answers
  Target,           \* [pids -> Ecus \cup {NoEcu}]
  Width,            \* [pids -> Nat]: data bytes
  NoEcu,
  ChunkMax,         \* CHUNK_MAX_PIDS, under the adapter's maxChunk
  PairMax,          \* MODE22_CHUNK_MAX_DIDS
  PipeMax,          \* PIPE_MAX_SEGMENTS
  Cars,             \* vehicles: [omits, pair, pads, data], and the lengths
                    \*   stored for their VIN
  MaxTrouble        \* bound: losses, one-shots, seeds and reconnects

Pids == Mode01 \cup Mode22

ASSUME BatchAssumption ==
  /\ Holds \in [Ecus -> SUBSET Pids] /\ Target \in [Pids -> Ecus \cup {NoEcu}]
  /\ IsFiniteSet(Pids) /\ Width \in [Pids -> Nat \ {0}] /\ Mode01 \cap Mode22 = {}
  /\ ChunkMax \in Nat \ {0} /\ PairMax \in Nat \ {0} /\ PipeMax \in Nat \ {0}
  /\ \A c \in Cars : c.omits \subseteq Pids /\ c.pair \in {"ok", "refused", "silent"}
  /\ \A c \in Cars : c.stored \in [Pids -> Nat]

VARIABLES
  lengths,   \* length_cache: 0 for a pid without an entry
  plugin,    \* PollPlugin: [pipes, chunk, excluded, mode22, cap22]
  phase,     \* the connection: "init", "identify", "probe" or "live"
  due,       \* pids not in flight, the most overdue first
  callback,  \* the data callback: [pc, picks]
  wires,     \* wires in flight, each a sequence of segments of pids
  car,
  shown,     \* what the last exchange delivered to the host
  seen,      \* pids whose length was observed on this connection
  budget     \* of MaxTrouble, what is left

batchVars == <<lengths, plugin, phase, due, callback, wires, car, shown, seen, budget>>

Reset == [pipes |-> 1, chunk |-> 1, excluded |-> {}, mode22 |-> "Disabled",
          cap22 |-> PairMax]
NoPicks == [pc |-> "idle", picks |-> <<>>]

-----------------------------------------------------------------------------
(* What a wire may carry: admission and grouping.                          *)
Limit22(pl) == IF pl.mode22 \in {"Disabled", "Refused"} THEN 1
               ELSE Min({PairMax, Max({pl.cap22, 1})})

(* admission: a snapshot of the plugin; the lengths are read as they are.  *)
Policy == [segments |-> plugin.pipes, chunk |-> plugin.chunk,
           chunk22 |-> Limit22(plugin), excluded |-> plugin.excluded]

MaxPicks(pol) == pol.segments * Max({pol.chunk, pol.chunk22})

ChunkLimit(pol, p) == IF p \in Mode01 THEN pol.chunk ELSE pol.chunk22
Chunkable(pol, p) == /\ ChunkLimit(pol, p) > 1
                     /\ p \notin pol.excluded /\ lengths[p] > 0

(* The elements of a sequence that are in S, in order.                     *)
Only(s, S) == FoldLeft(LAMBDA kept, x : IF x \in S THEN Append(kept, x) ELSE kept, <<>>, s)

Pieces(s, n) == [i \in 1 .. (Len(s) + n - 1) \div n |->
                   SubSeq(s, (i - 1) * n + 1, Min({i * n, Len(s)}))]

(* Greedy: mode-01 chunks, mode-22 chunks per ECU, then everything else on *)
(* its own.                                                                *)
Group(pol, picks) ==
  LET fit == {p \in Pids : Chunkable(pol, p)}
      of(S) == Only(picks, fit \cap S)
      solos == Only(picks, Pids \ fit)
      ecus  == SetToSeq({Target[p] : p \in Mode22})
  IN Pieces(of(Mode01), pol.chunk)
     \o FlattenSeq([i \in DOMAIN ecus |->
          Pieces(of({p \in Mode22 : Target[p] = ecus[i]}), pol.chunk22)])
     \o [i \in DOMAIN solos |-> <<solos[i]>>]

Admit(pol, picks) == Len(Group(pol, picks)) <= pol.segments

(* get_next_commands: most overdue first, up to the first that has another *)
(* target or is not admitted; what is not due in this sweep (module        *)
(* Subscriptions) stops it anywhere.                                       *)
Sweeps(pol) ==
  {SubSeq(due, 1, n) : n \in
    {k \in 1 .. Min({Len(due), Max({MaxPicks(pol), 1})}) :
       \A j \in 2 .. k : /\ Target[due[j]] = Target[due[1]]
                         /\ Admit(pol, SubSeq(due, 1, j))}}

-----------------------------------------------------------------------------
(* The vehicle's reply to one segment.                                     *)
Byte(as, of) == [as |-> as, of |-> of]
ReplyByte(p) == Byte(IF p \in Mode01 THEN "41" ELSE "62", <<>>)
Echo(p) == IF p \in Mode01 THEN <<Byte(p, <<>>)>> ELSE <<Byte("F4", <<>>), Byte(p, <<>>)>>
DataOf(e, p) == [k \in 1 .. Width[p] |-> Byte(car.data, <<e, p, k>>)]
PadTo(n, bytes) == [k \in 1 .. n |-> IF k <= Len(bytes) THEN bytes[k]
                                     ELSE Byte(car.pads, <<>>)]

Answer(e, seg) ==
  LET meant == Target[seg[1]] \in {e, NoEcu}
      chunk == Len(seg) > 1
      held == Only(seg, IF chunk THEN Holds[e] \ car.omits ELSE Holds[e])
      refused == chunk /\ seg[1] \in Mode22 /\ car.pair # "ok"
  IN CASE ~meant \/ held = <<>> \/ (refused /\ car.pair = "silent") -> <<>>
       [] refused -> <<Byte("7F", <<>>)>>
       [] OTHER -> <<ReplyByte(seg[1])>>
                   \o FlattenSeq([i \in DOMAIN held |-> Echo(held[i]) \o DataOf(e, held[i])])

(* ISO-TP: one frame up to seven bytes, else a first frame of six bytes    *)
(* and consecutive frames of seven, the last one padded.                   *)
Frames(payload) ==
  IF payload = <<>> THEN <<>>
  ELSE IF Len(payload) <= 7
  THEN <<[pci |-> "single", total |-> Len(payload), bytes |-> PadTo(7, payload)]>>
  ELSE <<[pci |-> "first", total |-> Len(payload), bytes |-> SubSeq(payload, 1, 6)]>>
       \o LET rest == Pieces(SubSeq(payload, 7, Len(payload)), 7)
          IN [i \in DOMAIN rest |->
                [pci |-> "next", total |-> 0, bytes |-> PadTo(7, rest[i])]]

(* The lines of a segment's reply, per ECU, with those in gone missing.    *)
Lines(seg, gone) ==
  [e \in Ecus |->
     LET all == Frames(Answer(e, seg))
         kept == Only([i \in DOMAIN all |-> i], {i \in DOMAIN all : <<e, i>> \notin gone})
     IN [i \in DOMAIN kept |-> all[kept[i]]]]

-----------------------------------------------------------------------------
(* Framing and cutting up a reply.                                         *)
UpTo(n, bytes) == SubSeq(bytes, 1, Min({n, Len(bytes)}))

(* strip_pci_byte: a single frame is cut to its declared length; a lone    *)
(* first or consecutive frame keeps its PCI byte as if it were data.       *)
StripPci(line) == IF line.pci = "single" THEN UpTo(line.total, line.bytes)
                  ELSE <<Byte("pci", <<>>)>> \o line.bytes

MutantAssembled(lines) ==
  IF Len(lines) > 1 /\ lines[1].pci = "first"
  THEN UpTo(lines[1].total, FlattenSeq([i \in DOMAIN lines |-> lines[i].bytes]))
  ELSE StripPci(lines[1])

(* assemble_iso_tp: what an assembly lacks makes it no payload at all.     *)
Assembled(lines) ==
  IF Len(lines) > 1 /\ lines[1].pci = "first"
  THEN LET joined == FlattenSeq([i \in DOMAIN lines |-> lines[i].bytes])
       IN IF Len(joined) < lines[1].total THEN <<>> ELSE UpTo(lines[1].total, joined)
  ELSE StripPci(lines[1])

(* text_payloads: the payload of each ECU that has one.                    *)
Payloads(lines) ==
  LET all == [e \in Ecus |-> IF lines[e] = <<>> THEN <<>> ELSE Assembled(lines[e])]
  IN [e \in {x \in Ecus : all[x] # <<>>} |-> all[e]]

As(bytes) == [k \in DOMAIN bytes |-> bytes[k].as]
EchoAt(bytes, i, p) ==
  /\ i + Len(Echo(p)) - 1 <= Len(bytes)
  /\ As(SubSeq(bytes, i, i + Len(Echo(p)) - 1)) = As(Echo(p))

(* split_multi_pid on one payload: echo, learned length, slice, repeat; a  *)
(* zero byte is padding.  A doubled, unknown or truncated echo spoils it.  *)
Slices(bytes, asked) ==
  LET bad == [ok |-> FALSE, got |-> {}]
      from[i \in 2 .. Len(bytes) + 1] ==
        IF i > Len(bytes) THEN [ok |-> TRUE, got |-> {}]
        ELSE IF bytes[i].as = "00" THEN [ok |-> TRUE, got |-> {}]
        ELSE LET here == {p \in asked : EchoAt(bytes, i, p)} IN
          IF here = {} THEN bad
          ELSE LET p == CHOOSE q \in here : TRUE
                   start == i + Len(Echo(p))
                   end == start + lengths[p]
               IN IF end > Len(bytes) + 1 THEN bad
                  ELSE LET rest == from[end] IN
                    IF \E g \in rest.got : g.pid = p THEN bad
                    ELSE [rest EXCEPT !.got =
                            @ \cup {[pid |-> p, data |-> SubSeq(bytes, start, end - 1)]}]
  IN IF bytes[1].as # ReplyByte(CHOOSE p \in asked : TRUE).as THEN bad ELSE from[2]

(* observed_len, from the first ECU that echoes the pid.                   *)
Observed(p, payloads) ==
  LET head == <<ReplyByte(p)>> \o Echo(p)
      echoing == {e \in DOMAIN payloads :
                    /\ Len(payloads[e]) > Len(head)
                    /\ As(UpTo(Len(head), payloads[e])) = As(head)}
  IN IF echoing = {} THEN 0
     ELSE Len(payloads[CHOOSE e \in echoing : TRUE]) - Len(head)

(* What one segment's reply comes to: values for the host, lengths learned *)
(* and to forget, members left out, and the verdict on a mode-22 pair.     *)
Nothing == [shown |-> {}, learned |-> <<>>, invalid |-> {}, omitted |-> {}, pair |-> ""]

Shown(p, e, data, chunk, sound) ==
  [pid |-> p, ecu |-> e, data |-> data, chunk |-> chunk, sound |-> sound]

DemuxSolo(p, payloads) ==
  LET skip == 1 + Len(Echo(p)) IN
  [Nothing EXCEPT
     !.shown = {Shown(p, e, SubSeq(payloads[e], skip + 1, Len(payloads[e])), FALSE, TRUE) :
                  e \in DOMAIN payloads},
     !.learned = IF Observed(p, payloads) = 0 THEN <<>> ELSE <<p, Observed(p, payloads)>>]

DemuxChunk(seg, payloads) ==
  LET asked == ToSet(seg)
      known == \A p \in asked : lengths[p] > 0
      sound == \A p \in asked : lengths[p] = Width[p]
      cut == [e \in DOMAIN payloads |-> Slices(payloads[e], asked)]
      fine == known /\ \A e \in DOMAIN cut : cut[e].ok
      got == UNION {{Shown(g.pid, e, g.data, TRUE, sound) : g \in cut[e].got} : e \in DOMAIN cut}
      pairs == seg[1] \in Mode22
  IN IF known /\ payloads = <<>>
     THEN [Nothing EXCEPT !.pair = IF pairs THEN "Refused" ELSE ""]
     ELSE IF fine
     THEN [Nothing EXCEPT !.shown = got, !.pair = IF pairs THEN "Capable" ELSE "",
                          !.omitted = {p \in asked : \A g \in got : g.pid # p}]
     ELSE [Nothing EXCEPT !.pair = IF pairs THEN "Refused" ELSE "",
                          !.invalid = IF pairs THEN {} ELSE asked]

-----------------------------------------------------------------------------
(* apply_chunk_outcomes and emit_member_data, for the outcomes of the      *)
(* segments that were answered: forget lengths, route left-out pids solo,  *)
(* settle mode 22, learn.                                                  *)
MutantExcluding(pl, out) == pl
Excluding(pl, out) == [pl EXCEPT !.excluded = @ \cup out.omitted]

Judged(pl, out) == IF out.pair = "" THEN pl ELSE [pl EXCEPT !.mode22 = out.pair]

Clamp(pl) == [pl EXCEPT !.chunk = Max({@ \div 2, 1}), !.cap22 = Max({@ \div 2, 1})]

Learn(outs) ==
  LET learned == {o.learned : o \in ToSet(outs)} \ {<<>>}
      invalid == UNION {o.invalid : o \in ToSet(outs)}
  IN /\ lengths' = [p \in Pids |->
                      IF \E l \in learned : l[1] = p
                      THEN (CHOOSE l \in learned : l[1] = p)[2]
                      ELSE IF p \in invalid THEN 0 ELSE lengths[p]]
     /\ seen' = (seen \ invalid) \cup {l[1] : l \in learned}

(* The members of a completed wire are due again, and the next exchange is *)
(* picked.                                                                 *)
Completes(outs, pl) ==
  /\ plugin' = FoldLeft(LAMBDA acc, out : Judged(Excluding(acc, out), out), pl, outs)
  /\ Learn(outs)
  /\ shown' = UNION {o.shown : o \in ToSet(outs)}
  /\ due' = due \o FlattenSeq(Head(wires))
  /\ wires' = Tail(wires)
  /\ callback' = [callback EXCEPT !.pc = "pick"]
  /\ UNCHANGED <<phase, car>>

Demux(seg, gone) ==
  LET payloads == Payloads(Lines(seg, gone))
  IN IF Len(seg) = 1 THEN DemuxSolo(seg[1], payloads) ELSE DemuxChunk(seg, payloads)

(* The reply to the first n segments, but for the frames in gone.          *)
Reply(n, gone) ==
  LET w == Head(wires) IN
  \E outs \in {[j \in 1 .. n |-> Demux(w[j], {l[2] : l \in {x \in gone : x[1] = j}})]} :
    Completes(outs, plugin)

Awaited == callback.pc = "idle" /\ wires # <<>>
Trouble == budget > 0 /\ budget' = budget - 1

Answered ==
  /\ Awaited
  /\ Reply(Len(Head(wires)), {})
  /\ UNCHANGED budget

(* A line of one segment's reply does not arrive.                          *)
LosesLine ==
  /\ Awaited /\ Trouble
  /\ LET w == Head(wires) IN
     \E j \in DOMAIN w, e \in Ecus : \E i \in DOMAIN Frames(Answer(e, w[j])) :
       Reply(Len(w), {<<j, <<e, i>>>>})

(* A piped batch ends early: the segments after n stay without data.       *)
LosesSegments ==
  /\ Awaited /\ Trouble
  /\ \E n \in 0 .. Len(Head(wires)) - 1 : Reply(n, {})

(* A transport error on a wire with a chunk halves the chunks.             *)
ChunkFails ==
  /\ Awaited /\ Trouble
  /\ \E j \in DOMAIN Head(wires) : Len(Head(wires)[j]) > 1
  /\ Completes(<<>>, Clamp(plugin))

(* A one-shot or a kick completes: the callback picks although a poll is   *)
(* in flight.                                                              *)
Intrudes ==
  /\ callback.pc = "idle" /\ Trouble
  /\ callback' = [callback EXCEPT !.pc = "pick"]
  /\ UNCHANGED <<lengths, plugin, phase, due, wires, car, shown, seen>>

(* The pick and the wire are built under two looks at the plugin.          *)
Picks ==
  /\ callback.pc = "pick"
  /\ IF due = <<>>
     THEN callback' = [callback EXCEPT !.pc = "idle"] /\ UNCHANGED due
     ELSE \E picks \in Sweeps(Policy) :
            /\ callback' = [pc |-> "build", picks |-> picks]
            /\ due' = SubSeq(due, Len(picks) + 1, Len(due))
  /\ UNCHANGED <<lengths, plugin, phase, wires, car, shown, seen, budget>>

Build ==
  /\ callback.pc = "build"
  /\ wires' = Append(wires, IF Len(callback.picks) = 1 THEN <<callback.picks>>
                                ELSE Group(Policy, callback.picks))
  /\ callback' = NoPicks
  /\ UNCHANGED <<lengths, plugin, phase, due, car, shown, seen, budget>>

-----------------------------------------------------------------------------
(* The connecting thread and the streams, meanwhile.                       *)
Settled == UNCHANGED <<due, callback, wires, car, shown>>

(* send_init_commands: what the last vehicle could do is forgotten.        *)
Reconnect ==
  /\ phase = "live" /\ Trouble
  /\ phase' = "init" /\ plugin' = Reset
  /\ UNCHANGED <<lengths, seen>> /\ Settled

Handshake ==
  /\ phase = "init" /\ phase' = "identify"
  /\ \E n \in {1, PipeMax} : plugin' = [plugin EXCEPT !.pipes = n]
  /\ UNCHANGED <<lengths, seen, budget>> /\ Settled

(* load_for_vin: the lengths stored for this VIN, possibly out of date.    *)
Identify ==
  /\ phase = "identify" /\ phase' = "probe"
  /\ lengths' = car.stored /\ seen' = {}
  /\ UNCHANGED <<plugin, budget>> /\ Settled

(* probe_chunk_capability; mode 22 is probed by its first pair.            *)
Probe ==
  /\ phase = "probe" /\ phase' = "live"
  /\ \E capable \in BOOLEAN :
       plugin' = IF capable
                 THEN [plugin EXCEPT !.chunk = ChunkMax, !.cap22 = Min({@, ChunkMax}),
                                     !.mode22 = "Untried"]
                 ELSE [Reset EXCEPT !.pipes = plugin.pipes, !.mode22 = "Untried"]
  /\ UNCHANGED <<lengths, seen, budget>> /\ Settled

(* seed: a length derived from the pid's equation, which may use fewer     *)
(* bytes than there are, fills a hole.                                     *)
Seed(p) ==
  /\ phase = "live" /\ lengths[p] = 0 /\ Trouble
  /\ \E n \in 1 .. Width[p] : lengths' = [lengths EXCEPT ![p] = n]
  /\ UNCHANGED <<plugin, phase, seen>> /\ Settled

-----------------------------------------------------------------------------
BatchInit ==
  /\ lengths = [p \in Pids |-> 0] /\ plugin = Reset /\ phase = "init"
  /\ due = SetToSeq(Pids) /\ wires = <<>> /\ shown = {} /\ seen = {}
  /\ callback = [NoPicks EXCEPT !.pc = "pick"]
  /\ car \in Cars
  /\ budget = MaxTrouble

Connecting == Handshake \/ Identify \/ Probe
Picking == Picks \/ Build

BatchNext ==
  \/ Answered \/ Picking \/ Connecting \/ Reconnect
  \/ LosesLine \/ LosesSegments \/ ChunkFails \/ Intrudes
  \/ \E p \in Pids : Seed(p)

(* The callback thread runs, a connect attempt goes on, and every wire in  *)
(* flight is answered or times out: weak fairness of Answered, whose every *)
(* step leaves Awaited.                                                    *)
BatchSpec == /\ BatchInit /\ [][BatchNext]_batchVars
             /\ WF_batchVars(Picking) /\ WF_batchVars(Connecting) /\ []<>~Awaited

-----------------------------------------------------------------------------
BatchTypeOK ==
  /\ lengths \in [Pids -> Nat] /\ phase \in {"init", "identify", "probe", "live"}
  /\ plugin.pipes \in {1, PipeMax} /\ plugin.chunk \in 1 .. ChunkMax
  /\ plugin.excluded \subseteq Pids /\ plugin.cap22 \in 1 .. PairMax
  /\ plugin.mode22 \in {"Disabled", "Untried", "Capable", "Refused"}
  /\ callback.pc \in {"idle", "pick", "build"} /\ seen \subseteq Pids

(* However the frames are padded and whatever is lost on the way, a value  *)
(* cut out of a shared reply is the data of that pid and that ECU, as long *)
(* as the lengths it was cut by are those of the vehicle; and every length *)
(* learned on this connection is the vehicle's own: neither padding nor a  *)
(* lost or doubled frame teaches another one.                              *)
BytesTrue ==
  /\ \A s \in shown : s.chunk /\ s.sound => s.data = DataOf(s.ecu, s.pid)
  /\ \A p \in seen : lengths[p] = Width[p]

(* A chunk of mode-01 pids that nobody answers: the code neither excludes  *)
(* its members nor forgets their lengths, and may build it again for ever. *)
InDeafChunk(p) ==
  \E w \in ToSet(wires) : \E seg \in ToSet(w) :
    /\ p \in ToSet(seg) /\ Len(seg) > 1 /\ seg[1] \in Mode01
    /\ \A e \in Ecus : Answer(e, seg) = <<>>

(* Batching starves nobody but the members of a chunk that the vehicle     *)
(* does not answer at all: whatever it leaves out of the chunks it answers, *)
(* whatever pairs it refuses or stays silent to and whatever stale lengths *)
(* it has stored, a pid it answers on its own is delivered again and again, *)
(* unless again and again it is asked in such a chunk.                     *)
Answerable == {p \in Pids : \E e \in Ecus : Target[p] \in {e, NoEcu} /\ p \in Holds[e]}
NobodyStarves ==
  \A p \in Answerable : []<>((\E s \in shown : s.pid = p) \/ InDeafChunk(p))
============================================================================
