------------------------------ MODULE Bringup ------------------------------
(***************************************************************************)
(* What the connect thread says to the adapter and the vehicle between the *)
(* open link and CONNECTED (session_manager/connect.rs, link/elm.rs): the   *)
(* adapter handshake, the addressing, the VIN, the cache, the support       *)
(* ranges, the walk over the modules, the calibration read, the chunk       *)
(* probe.  Lifecycle says when that may run and who may cut it short; here  *)
(* it runs to its end, over several connects of one session with different  *)
(* adapters and vehicles, and a command or its answer may get lost.         *)
(*                                                                         *)
(* The adapter and the vehicle are external: what they answer is in the     *)
(* constants.  ELM dialect; the DVI handshake is in DviLink.                *)
(***************************************************************************)
EXTENDS Integers, Sequences, FiniteSets, SequencesExt, FiniteSetsExt

CONSTANTS
  Adapters,    \* [a |-> [cap, periodic, pipes, stn, auto]]
  Vehicles,    \* [v |-> [bus, vin, vins, functional, named, positive, refusing, pairs, strategy]]
  Datasets,    \* [vin |-> [kind, walk]], walk a sequence of [addr, ms]
  Trips,       \* sequences of [adapter, vehicle, pref]: the connects of a session
  Block,       \* the standard physical addresses, 7E0 to 7E7
  PCM,         \* 7E0
  MaxTrouble   \* bound: lost commands and answers in one connect

(* PCM is one of the standard modules, and the vehicles, datasets and trips *)
(* are what the operators below take them for.                             *)
Sound ==
  /\ PCM \in Block /\ Block \subseteq Nat /\ IsFiniteSet(Block) /\ MaxTrouble \in Nat
  /\ \A v \in DOMAIN Vehicles :
       /\ IsFiniteSet(Vehicles[v].functional)
       /\ Vehicles[v].bus \in {"11", "29", "serial", "off"}
       /\ Vehicles[v].functional \cup Vehicles[v].named \cup Vehicles[v].positive
            \cup Vehicles[v].refusing \subseteq Nat
       /\ DOMAIN Vehicles[v].vins \subseteq Vehicles[v].functional
       /\ {Vehicles[v].vin} \cup Range(Vehicles[v].vins) \subseteq DOMAIN Datasets
  /\ \A vin \in DOMAIN Datasets :
       /\ Datasets[vin].kind \in {"none", "plain", "ford", "gm"}
       /\ Datasets[vin].walk \in Seq([addr : Nat, ms : BOOLEAN])
  /\ \A a \in DOMAIN Adapters :
       Adapters[a].cap \in Nat /\ Adapters[a].periodic \in {"yes", "no", "unsaid"}
  /\ Trips \subseteq Seq([adapter : DOMAIN Adapters, vehicle : DOMAIN Vehicles, pref : BOOLEAN])
ASSUME BringupAssumption == Sound

VARIABLES
  trip, leg,   \* the connects to make, and which one this is
  pc,          \* the step of connect_body
  tool,        \* the adapter: [echo, headers, header, slots, batch, extended]: external
  acked,       \* the init list's ATE0 answered OK
  seen,        \* what came back of 0100: "nothing", "noise" or "data"
  todo, at,    \* modules still to ask, and what is known of this one
  facts,       \* AdapterFacts and HostFacts: [pipes, cap, periodic]
  session,     \* [addressing, primary, attached, sniffed, whole]
  plugin,      \* the poll plugin: [pipe, chunk, mode22]
  roster,      \* who answered the broadcasts
  info,        \* VehicleInfo under construction
  files,       \* the cache: [vin -> VehicleInfo or Unread]
  outcome,     \* the terminal state of this connect
  trouble,     \* of MaxTrouble, what is left
  shaken       \* a header or session command was disturbed

walk == <<todo, at, roster>>
state == <<facts, session, plugin>>
run == <<trip, leg>>
bringupVars == <<run, pc, tool, acked, seen, walk, state, info, files, outcome, trouble, shaken>>

Adapter == Adapters[trip[leg].adapter]
Vehicle == Vehicles[trip[leg].vehicle]
Can == Vehicle.bus \in {"11", "29"}
Functional == 0
Dataset == Datasets[session.attached]
Unread == [vin |-> "none", engine |-> FALSE, ranges |-> {}, ecus |-> {}, strategy |-> FALSE,
           whole |-> FALSE]

(* One request: the reply, or none within the deadline.  An answer names    *)
(* the effect the command had on the tool; Trouble loses the command or the *)
(* answer.                                                                 *)
Ask(effect, reply, Then(_)) ==
  \/ tool' = effect /\ Then(reply) /\ UNCHANGED <<trouble, shaken>>
  \/ /\ trouble > 0 /\ trouble' = trouble - 1 /\ tool' \in {tool, effect} /\ Then("none")
     /\ shaken' = (shaken \/ effect.header # tool.header \/ effect.extended # tool.extended)

To(addr) == [tool EXCEPT !.header = addr]

(* Who hears a request goes by the header the adapter really has.           *)
Hears(addrs) == IF Can /\ tool.header \in addrs THEN "data" ELSE "none"

(* The host's reset: echo on, headers off, broadcasting; slots an adapter    *)
(* was left with may survive it.                                            *)
Reset == [echo : {TRUE}, headers : {FALSE}, header : {Functional}, slots : BOOLEAN,
          batch : {FALSE}, extended : {FALSE}]

BringupInit ==
  /\ trip \in Trips /\ leg = 0 /\ pc = "closed"
  /\ tool \in Reset
  /\ acked = FALSE /\ seen = "nothing" /\ todo = <<>> /\ at = Unread /\ roster = {}
  /\ facts \in [pipes : {FALSE}, cap : {6}, periodic : BOOLEAN]
  /\ session = [addressing |-> "11", primary |-> "none", attached |-> "none",
                sniffed |-> FALSE, whole |-> FALSE]
  /\ plugin = [pipe |-> FALSE, chunk |-> FALSE, mode22 |-> FALSE]
  /\ info = Unread /\ files = [vin \in DOMAIN Datasets |-> Unread]
  /\ outcome = "none" /\ trouble = MaxTrouble /\ shaken = FALSE

Known == [vin : DOMAIN Datasets \cup {"none"}, engine : BOOLEAN, ranges : SUBSET STRING,
          ecus : SUBSET Nat, strategy : BOOLEAN, whole : BOOLEAN]
BringupTypeOK ==
  /\ trip \in Trips /\ leg \in 0 .. Len(trip) /\ outcome \in STRING
  /\ {tool.echo, tool.headers, tool.slots, tool.batch, tool.extended} \subseteq BOOLEAN
  /\ {acked, shaken, session.sniffed, session.whole} \subseteq BOOLEAN
  /\ tool.header \in Nat /\ seen \in {"nothing", "noise", "data"}
  /\ facts \in [pipes : BOOLEAN, cap : Nat, periodic : BOOLEAN]
  /\ plugin \in [pipe : BOOLEAN, chunk : BOOLEAN, mode22 : BOOLEAN]
  /\ session.addressing \in {"11", "29"}
  /\ session.attached \in DOMAIN Datasets \cup {"none"}
  /\ session.sniffed => session.primary \in Nat
  /\ info \in Known /\ files \in [DOMAIN Datasets -> Known]
  /\ trouble \in 0 .. MaxTrouble

Fails(reason) == pc' = "closed" /\ outcome' = reason

-----------------------------------------------------------------------------
(* The link is open: the catalog's facts, then the adapter handshake.  An    *)
(* entry overwrites the facts it states; what it leaves out, and everything *)
(* of an adapter without an entry, stays as the last connect had it.        *)
Cataloged(a) ==
  [pipes |-> FALSE,
   cap |-> IF a.cap = 0 THEN facts.cap ELSE a.cap,
   periodic |-> IF a.periodic = "unsaid" THEN facts.periodic ELSE a.periodic = "yes"]

MutantOpens ==
  /\ pc = "closed" /\ leg < Len(trip) /\ leg' = leg + 1 /\ pc' = "init" /\ tool' \in Reset
  /\ facts' = Cataloged(Adapters[trip[leg + 1].adapter])
  /\ plugin' = [plugin EXCEPT !.pipe = FALSE]
  /\ outcome' = "none" /\ trouble' = MaxTrouble /\ shaken' = FALSE /\ info' = Unread
  /\ UNCHANGED <<trip, acked, seen, walk, session, files>>
Opens ==
  /\ pc = "closed" /\ leg < Len(trip) /\ leg' = leg + 1 /\ pc' = "init" /\ tool' \in Reset
  /\ facts' = Cataloged(Adapters[trip[leg + 1].adapter])
  /\ plugin' = [plugin EXCEPT !.pipe = FALSE, !.chunk = FALSE]
  /\ outcome' = "none" /\ trouble' = MaxTrouble /\ shaken' = FALSE /\ info' = Unread
  /\ UNCHANGED <<trip, acked, seen, walk, session, files>>

initSame == <<run, seen, walk, session, info, files>>

(* The init list, ATE0 and ATH1: an adapter that is still rebooting swallows *)
(* either, and its banner is taken for the answer.                          *)
InitList ==
  /\ pc = "init"
  /\ Ask([tool EXCEPT !.echo = FALSE], "OK",
         LAMBDA r : acked' = (r = "OK") /\ pc' = "headers")
  /\ UNCHANGED <<initSame, facts, plugin, outcome>>

InitHeaders ==
  /\ pc = "headers"
  /\ Ask([tool EXCEPT !.headers = TRUE], "OK", LAMBDA r : pc' = "echo")
  /\ UNCHANGED <<initSame, facts, plugin, acked, outcome>>

(* wait_for_idle gave up on the list, or on the repeated ATE0.               *)
InitTimeout ==
  /\ pc \in {"init", "headers"} \/ (pc = "echo" /\ ~acked)
  /\ trouble > 0 /\ trouble' = trouble - 1 /\ Fails("adapter_init_timeout")
  /\ UNCHANGED <<tool, initSame, facts, plugin, acked, shaken>>

(* Of the list, ATE0 alone is verified, and sent again once.                *)
MutantVerifyEcho ==
  /\ pc = "echo" /\ pc' = "purge"
  /\ UNCHANGED <<tool, trouble, shaken, initSame, facts, plugin, acked, outcome>>
VerifyEcho ==
  /\ pc = "echo" /\ UNCHANGED <<initSame, facts, plugin, acked, outcome>>
  /\ IF acked THEN pc' = "purge" /\ UNCHANGED <<tool, trouble, shaken>>
     ELSE Ask([tool EXCEPT !.echo = FALSE], "OK", LAMBDA r : pc' = "purge")

(* One STPPMC takes back what an earlier session left; then the batch       *)
(* probe, whose two answers are the capability.                             *)
Purge ==
  /\ pc = "purge" /\ UNCHANGED <<initSame, facts, plugin, acked, outcome>>
  /\ Ask([tool EXCEPT !.slots = @ /\ ~Adapter.stn], "OK", LAMBDA r : pc' = "batch")

ProbeBatch ==
  /\ pc = "batch" /\ UNCHANGED <<initSame, plugin, acked, outcome>>
  /\ Ask([tool EXCEPT !.batch = Adapter.pipes], IF Adapter.pipes THEN "OK" ELSE "?",
         LAMBDA r : pc' = IF r = "OK" THEN "format" ELSE "ready")
  /\ UNCHANGED facts

ProbeFormat ==
  /\ pc = "format" /\ UNCHANGED <<initSame, plugin, acked, outcome>>
  /\ Ask(tool, "OK", LAMBDA r : pc' = "ready" /\ facts' = [facts EXCEPT !.pipes = (r = "OK")])

Ready ==
  /\ pc = "ready" /\ pc' = "sniff" /\ plugin' = [plugin EXCEPT !.pipe = facts.pipes]
  /\ UNCHANGED <<tool, trouble, shaken, initSame, facts, acked, outcome>>

-----------------------------------------------------------------------------
(* detect_addressing: the header of the first line that answers 0100, which  *)
(* also names the primary ECU; the modules answer in any order.  With echo   *)
(* on that line is the echo, and without headers it is data, that names none.*)
identSame == <<run, acked, plugin, facts, todo, at, files>>

Broadcasted ==
  IF tool.echo THEN "echo"
  ELSE IF Can THEN IF tool.headers THEN "header" ELSE "other"
  ELSE IF Vehicle.bus = "serial" THEN "other" ELSE "UNABLE TO CONNECT"

Sniff ==
  /\ pc = "sniff"
  /\ Ask(tool, Broadcasted,
         LAMBDA r :
           IF r = "header"
           THEN /\ \E first \in Vehicle.functional :
                     session' = [session EXCEPT !.addressing = Vehicle.bus,
                                                !.primary = first, !.sniffed = TRUE]
                /\ pc' = "vin" /\ UNCHANGED seen
           ELSE /\ session' = [session EXCEPT !.sniffed = FALSE]
                /\ seen' = (IF r \in {"echo", "other"} THEN "data" ELSE "nothing")
                /\ pc' = "atdpn")
  /\ UNCHANGED <<identSame, roster, info, outcome>>

(* ATDPN's number, unless it comes with an echo or with the letter of an     *)
(* automatic search; no primary is learned from it.                         *)
AskProtocol ==
  /\ pc = "atdpn"
  /\ Ask(tool, IF Can /\ ~tool.echo /\ ~Adapter.auto THEN Vehicle.bus ELSE "A6",
         LAMBDA r :
           IF r \in {"11", "29"}
           THEN /\ session' = [session EXCEPT !.addressing = r] /\ pc' = "vin"
                /\ UNCHANGED outcome
           ELSE /\ Fails(IF seen = "data" THEN "unsupported_protocol"
                         ELSE "vehicle_not_responding")
                /\ UNCHANGED session)
  /\ UNCHANGED <<identSame, seen, roster, info>>

(* The VIN picks the dataset, and without one there is no connection.  It is *)
(* the lowest responder's: with that one's line lost it is another module's, *)
(* a donor's perhaps; without headers the lines run together, and any of     *)
(* them stands for what comes out.                                          *)
Givers == DOMAIN Vehicle.vins
Given == IF Givers = {} THEN {"none"}
         ELSE IF tool.headers THEN {Vehicle.vins[Min(Givers)]} ELSE Range(Vehicle.vins)
Identify(vin, whole) ==
  /\ session' = [session EXCEPT !.attached = vin, !.whole = whole]
  /\ info' = [Unread EXCEPT !.vin = vin]
  /\ IF vin = "none" THEN Fails("vehicle_not_responding")
     ELSE pc' = "cache" /\ UNCHANGED outcome

GatherVin ==
  /\ pc = "vin" /\ UNCHANGED <<identSame, seen, roster>>
  /\ \/ \E vin \in Given : Ask(tool, vin, LAMBDA r : Identify(r, tool.headers))
     \/ /\ trouble > 0 /\ trouble' = trouble - 1 /\ UNCHANGED <<tool, shaken>>
        /\ \E vin \in Range(Vehicle.vins) : Identify(vin, FALSE)

CheckCache ==
  /\ pc = "cache"
  /\ IF files[info.vin] = Unread THEN pc' = "engine" /\ UNCHANGED info
     ELSE info' = files[info.vin] /\ pc' = "backfill"
  /\ roster' = {}
  /\ UNCHANGED <<tool, trouble, shaken, identSame, seen, session, outcome>>

EngineType ==
  /\ pc = "engine"
  /\ Ask(tool, Hears({Functional}),
         LAMBDA r : info' = [info EXCEPT !.engine = (r = "data")] /\ pc' = "mode01")
  /\ UNCHANGED <<identSame, seen, session, roster, outcome>>

(* One request per support range of a mode, each of which may go missing;   *)
(* here one stands for the ranges of its mode.  Without headers they name    *)
(* nobody.                                                                  *)
NextMode(mode) == IF mode = "mode01" THEN "mode06"
                  ELSE IF mode = "mode06" THEN "mode09" ELSE "roster"
Support(mode) ==
  /\ pc = mode
  /\ Ask(tool, Hears({Functional}),
         LAMBDA r :
           /\ pc' = NextMode(mode)
           /\ IF r = "none" THEN UNCHANGED <<info, roster>>
              ELSE /\ info' = [info EXCEPT !.ranges = @ \cup {mode}]
                   /\ roster' = roster \cup (IF tool.headers THEN Vehicle.functional ELSE {}))
  /\ UNCHANGED <<identSame, seen, session, outcome>>

(* The dataset's table of modules overrides the enumeration; without one    *)
(* it is the roster, and on 11 bits the standard block as well.             *)
Table == Dataset.walk
Candidates == roster \cup (IF session.addressing = "11" THEN Block ELSE {})
Ascending(S) == {s \in [1 .. Cardinality(S) -> S] :
                   Range(s) = S /\ \A i, j \in DOMAIN s : i < j => s[i] < s[j]}

Roster ==
  /\ pc = "roster"
  /\ IF info.ranges = {}
     THEN Fails("vehicle_not_responding") /\ UNCHANGED <<session, todo>>
     ELSE /\ session' = [session EXCEPT !.primary = IF roster = {} THEN @ ELSE Min(roster)]
          /\ pc' = "target" /\ UNCHANGED outcome
          /\ \/ Table # <<>> /\ todo' = Table
             \/ /\ Table = <<>>
                /\ \E s \in Ascending(Candidates) :
                     todo' = [i \in DOMAIN s |-> [addr |-> s[i], ms |-> FALSE]]
  /\ UNCHANGED <<tool, trouble, shaken, run, acked, plugin, facts, at, files, seen, roster, info>>

-----------------------------------------------------------------------------
(* The walk: address one module, ask it, keep it if it is there.            *)
walkSame == <<run, acked, plugin, facts, files, seen, session, roster, outcome>>
Target == Head(todo)
ByTable == Table # <<>>

Target1 ==
  /\ pc = "target" /\ todo # <<>> /\ ~Target.ms
  /\ Ask(To(Target.addr), "OK",
         LAMBDA r :
           IF r = "none" /\ (ByTable \/ Target.addr \notin roster)
           THEN todo' = Tail(todo) /\ UNCHANGED <<pc, at>>
           ELSE /\ pc' = IF ~ByTable \/ Target.addr \in Block THEN "name" ELSE "presence"
                /\ at' = [named |-> FALSE] /\ UNCHANGED todo)
  /\ UNCHANGED <<walkSame, info>>

(* Modules on the second bus are counted and left out.                      *)
SkipMs ==
  /\ pc = "target" /\ todo # <<>> /\ Target.ms /\ todo' = Tail(todo)
  /\ UNCHANGED <<tool, trouble, shaken, walkSame, info, at, pc>>

Skip == todo' = Tail(todo) /\ pc' = "target" /\ UNCHANGED info
Keep == /\ info' = [info EXCEPT !.ecus = @ \cup {Target.addr}]
        /\ todo' = Tail(todo) /\ pc' = "target"

(* A name counts for the module that was asked, by the header it comes with. *)
Named == IF tool.headers /\ tool.header = Target.addr THEN Hears(Vehicle.named) ELSE "none"

AskName ==
  /\ pc = "name"
  /\ Ask(tool, Named,
         LAMBDA r : IF r = "none" /\ ~ByTable /\ Target.addr \notin roster
                    THEN Skip /\ UNCHANGED at
                    ELSE pc' = "cal" /\ at' = [named |-> (r # "none")]
                         /\ UNCHANGED <<info, todo>>)
  /\ UNCHANGED walkSame

AskCal ==
  /\ pc = "cal"
  /\ Ask(tool, Named, LAMBDA r : IF ByTable /\ ~at.named /\ r = "none" THEN Skip ELSE Keep)
  /\ UNCHANGED <<walkSame, at>>

Presence ==
  /\ pc = "presence"
  /\ Ask(tool, Hears(Vehicle.positive \cup Vehicle.refusing),
         LAMBDA r : IF r = "none" THEN Skip ELSE Keep)
  /\ UNCHANGED <<walkSame, at>>

(* The functional header again, whatever the walk met.                      *)
EndWalk ==
  /\ pc = "target" /\ todo = <<>>
  /\ Ask(To(Functional), "OK", LAMBDA r : pc' = "strategy")
  /\ UNCHANGED <<walkSame, info, todo, at>>

-----------------------------------------------------------------------------
(* The calibration read: on a live identify, and on a cached one that has    *)
(* none yet.  The preference gates it, and the dataset says how.            *)
readSame == <<run, acked, plugin, facts, seen, session, walk, outcome>>

Gate == IF trip[leg].pref /\ Dataset.kind \in {"ford", "gm"} THEN Dataset.kind ELSE "none"
Cached == files[info.vin] # Unread
AfterRead == IF Cached THEN "persist" ELSE "save"

MutantBackfill ==
  /\ pc = "backfill" /\ pc' = "chunk"
  /\ UNCHANGED <<tool, trouble, shaken, readSame, info, files>>
Backfill ==
  /\ pc = "backfill" /\ pc' = IF info.strategy THEN "chunk" ELSE "strategy"
  /\ UNCHANGED <<tool, trouble, shaken, readSame, info, files>>

NoGate ==
  /\ pc = "strategy" /\ Gate = "none" /\ pc' = AfterRead
  /\ UNCHANGED <<tool, trouble, shaken, readSame, info, files>>

(* Both reads give up when ATSH7E0 stays unanswered.                         *)
TargetPcm ==
  /\ pc = "strategy" /\ Gate # "none"
  /\ Ask(To(PCM), "OK", LAMBDA r : pc' = IF r = "none" THEN AfterRead ELSE Gate)
  /\ UNCHANGED <<readSame, info, files>>

Strategy == IF tool.headers /\ Vehicle.strategy THEN Hears({PCM}) ELSE "none"
Learn(r) == info' = [info EXCEPT !.strategy = @ \/ r = "data"]

ReadGm ==
  /\ pc = "gm" /\ Ask(tool, Strategy, LAMBDA r : Learn(r) /\ pc' = "broadcast")
  /\ UNCHANGED <<readSame, files>>

(* Ford: an extended session, the windows of memory, the default session.   *)
OpenFord ==
  /\ pc = "ford"
  /\ Ask([tool EXCEPT !.extended = Hears({PCM}) = "data"], Hears({PCM}),
         LAMBDA r : pc' = IF r = "none" THEN "broadcast" ELSE "windows")
  /\ UNCHANGED <<readSame, info, files>>

ReadWindows ==
  /\ pc = "windows" /\ Ask(tool, Strategy, LAMBDA r : Learn(r) /\ pc' = "default")
  /\ UNCHANGED <<readSame, files>>

CloseFord ==
  /\ pc = "default"
  /\ Ask([tool EXCEPT !.extended = FALSE], "data", LAMBDA r : pc' = "broadcast")
  /\ UNCHANGED <<readSame, info, files>>

MutantBroadcast ==
  /\ pc = "broadcast" /\ pc' = AfterRead
  /\ UNCHANGED <<tool, trouble, shaken, readSame, info, files>>
Broadcast ==
  /\ pc = "broadcast"
  /\ Ask(To(Functional), "OK", LAMBDA r : pc' = AfterRead)
  /\ UNCHANGED <<readSame, info, files>>

(* The file of this VIN: what was learned, disturbed or not.                *)
Save ==
  /\ pc = "save" /\ pc' = "chunk"
  /\ info' = [info EXCEPT !.whole = (trouble = MaxTrouble)]
  /\ files' = [files EXCEPT ![info.vin] = info']
  /\ UNCHANGED <<tool, trouble, shaken, readSame>>

Persist ==
  /\ pc = "persist" /\ pc' = "chunk"
  /\ files' = [files EXCEPT ![info.vin] = info]
  /\ UNCHANGED <<tool, trouble, shaken, readSame, info>>

(* Two pids in one request, if the adapter carries them at all.             *)
ProbeChunk ==
  /\ pc = "chunk"
  /\ IF facts.cap <= 1
     THEN pc' = "connected" /\ UNCHANGED <<tool, trouble, shaken, plugin>>
     ELSE Ask(tool, IF Vehicle.pairs THEN Hears({Functional}) ELSE "none",
              LAMBDA r : /\ pc' = "connected"
                         /\ plugin' = [plugin EXCEPT !.chunk = (r = "data"), !.mode22 = TRUE])
  /\ UNCHANGED <<run, acked, facts, seen, session, walk, outcome, info, files>>

Established ==
  /\ pc = "connected" /\ pc' = "closed" /\ outcome' = "connected"
  /\ UNCHANGED <<tool, trouble, shaken, run, acked, plugin, facts, seen, session, walk, info,
                 files>>

Done == pc = "closed" /\ leg = Len(trip) /\ UNCHANGED bringupVars

BringupNext ==
  \/ Opens \/ InitList \/ InitHeaders \/ InitTimeout \/ VerifyEcho \/ Purge \/ ProbeBatch \/ ProbeFormat
  \/ Ready \/ Sniff \/ AskProtocol \/ GatherVin \/ CheckCache \/ EngineType
  \/ (\E mode \in {"mode01", "mode06", "mode09"} : Support(mode)) \/ Roster
  \/ Target1 \/ SkipMs \/ AskName \/ AskCal \/ Presence \/ EndWalk
  \/ Backfill \/ NoGate \/ TargetPcm \/ ReadGm \/ OpenFord \/ ReadWindows \/ CloseFord
  \/ Broadcast \/ Save \/ Persist \/ ProbeChunk \/ Established \/ Done

BringupSpec == BringupInit /\ [][BringupNext]_bringupVars

-----------------------------------------------------------------------------
Lost == MaxTrouble - trouble

(* A vehicle is called unsupported because it is no CAN vehicle, or because  *)
(* the adapter was left without headers - one lost ATH1 is enough, which     *)
(* nothing verifies - or, after two losses, with its echo on.  No other loss *)
(* makes a healthy car unsupported, and one alone of ATE0 does not.          *)
NonCanTrue ==
  outcome = "unsupported_protocol" =>
    Vehicle.bus = "serial" \/ ~tool.headers \/ (tool.echo /\ Lost >= 2)

(* However the identify ended, requests go out functionally again and the    *)
(* PCM is back in its default session, if no command that says so was        *)
(* disturbed.                                                               *)
ToolRestored ==
  outcome # "none" /\ ~shaken => tool.header = Functional /\ ~tool.extended

(* A calibration the vehicle gives and the gate allows is known after any    *)
(* undisturbed connect, on file as well: a connect made while the preference *)
(* was off, or one that lost an answer, does not keep it out for good.       *)
StrategyKnown ==
  outcome = "connected" /\ Lost = 0 /\ Gate # "none" /\ Vehicle.strategy
    /\ PCM \in Vehicle.functional
    => info.strategy /\ files[info.vin].strategy

(* The roster the host is given names no module that is not there, and after *)
(* an undisturbed walk every module there that it asks about: one that only  *)
(* refuses the question is there.                                           *)
FittedOf(v) == Vehicles[v].functional \cup Vehicles[v].named \cup Vehicles[v].positive
                 \cup Vehicles[v].refusing
Fitted == FittedOf(trip[leg].vehicle)
Asked == IF ByTable THEN {m.addr : m \in {n \in Range(Table) : ~n.ms}}
         ELSE Vehicle.functional
                \cup (IF Vehicle.bus = "11" THEN Block \cap Vehicle.named ELSE {})
FittedFound ==
  /\ info.ecus \subseteq Fitted
  /\ info.whole => info.ecus = Asked \cap Fitted

(* What that needs of the world: a VIN is one vehicle's, given by its lowest *)
(* responder, and the donor of a used module is not connected to; and of the *)
(* modules a table names that are there, one of the standard block gives its *)
(* name and any other answers or refuses.                                   *)
OneCar ==
  \A v, w \in DOMAIN Vehicles :
    /\ Vehicles[v].vin # "none" /\ Vehicles[v].vin \in {Vehicles[w].vin} \cup Range(Vehicles[w].vins)
         => v = w
    /\ DOMAIN Vehicles[v].vins # {} =>
         Vehicles[v].vins[Min(DOMAIN Vehicles[v].vins)] = Vehicles[v].vin
Answering ==
  \A v \in DOMAIN Vehicles : \A m \in Range(Datasets[Vehicles[v].vin].walk) :
    ~m.ms /\ m.addr \in FittedOf(v) =>
      m.addr \in IF m.addr \in Block THEN Vehicles[v].named
                ELSE Vehicles[v].positive \cup Vehicles[v].refusing

(* Nothing of the last adapter or vehicle is left in what polling and the    *)
(* ladder use: pipes and chunks are those this pair can do; chunk cap and    *)
(* periodic engine follow the catalog where its entry says them, and are the *)
(* last adapter's where it does not; the addressing is this vehicle's, and   *)
(* so is the primary ECU wherever a responder's header was seen, by 0100 or  *)
(* by the support ranges.  Dataset and VIN are the vehicle's if the lines of *)
(* 0902 all came with their headers: with the lowest lost they may be a used *)
(* module's, and so may the roster.                                         *)
OwnFacts ==
  /\ plugin.pipe => Adapter.pipes
  /\ plugin.chunk => Vehicle.pairs /\ Adapter.cap # 1
  /\ Adapter.cap # 0 => facts.cap = Adapter.cap
  /\ Adapter.periodic # "unsaid" => facts.periodic = (Adapter.periodic = "yes")
  /\ session.addressing = Vehicle.bus
  /\ session.sniffed \/ roster # {} => session.primary \in Vehicle.functional

(* What a connected session knows is true of the pair it is connected to.    *)
FactsTrue ==
  outcome = "connected" =>
    /\ OwnFacts
    /\ session.whole =>
         session.attached = Vehicle.vin /\ info.vin = Vehicle.vin /\ FittedFound
============================================================================
