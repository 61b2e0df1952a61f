----------------------------- MODULE PollChain ------------------------------
(***************************************************************************)
(* The completion-driven polling chain: the session's data callback        *)
(* (src/src/session_manager/callbacks.rs), which completes one wire and    *)
(* queues its successor, and the API calls that start and pause            *)
(* subscriptions and kick a dead chain alive (session_manager/api.rs).     *)
(*                                                                         *)
(* The command processor is seen from outside: a FIFO of pending wires     *)
(* whose head is the one outstanding (module CommandProcessor).  The       *)
(* scheduler is seen from outside too: a pick is any set of eligible PIDs  *)
(* of one target (module Subscriptions orders them).  The callback runs on *)
(* the platform's one delivery thread; each of its lock sections is a      *)
(* step, so callers run between a look at the chain and the act on it.     *)
(***************************************************************************)
EXTENDS Integers, Sequences, FiniteSets

CONSTANTS
  Sub,          \* subscriptions
  Pid,          \* what they poll
  PidsOf,       \* [Sub -> SUBSET Pid]
  Header,       \* ECU headers
  NoHeader,     \* no target: the PID goes out under whatever header is set
  Caller,       \* API threads
  Scenarios     \* what plan may be

Plan ==
  [target : [Pid -> Header \cup {NoHeader}], picks : Nat \ {0}, chunking : BOOLEAN,
   queue : Nat \ {0}, oneShots : Nat,
   ops : SUBSET {"clear", "abort", "reset", "acquire"}]

ASSUME PollAssumption ==
  /\ PidsOf \in [Sub -> SUBSET Pid]
  /\ NoHeader \notin Header
  /\ Scenarios \subseteq Plan

VARIABLES
  state,        \* [Sub -> "Active" | "Paused" | "HostPaused"]
  in_flight,    \* PIDs picked and not yet completed
  members,      \* in_flight_members: the PID sets registered for their wires
  chain_alive,
  pending,      \* wires queued or outstanding, oldest first
  current,      \* current_controller: the header the session believes set
  cb,           \* the data callback: [pc, pids it completes or has picked]
  caller,       \* [Caller -> [pc, subscriptions still to kick]]
  acquired,     \* subscriptions an acquisition paused and will resume
  abortPc,
  header,       \* external: the header the adapter sends under
  plan,         \* [target, where each PID is polled; picks, the plugin's max_picks;
                \*  chunking, picks share a chunk, else they are piped; queue, the
                \*  max_queue_size; and the disturbances still to come: oneShots,
                \*  wires of others, and ops]
  desync,       \* history: a switch was refused, wiped or failed, or the
                \*   adapter reset
  lost          \* history: [chain, wires were wiped and none was queued since;
                \*  pids, those whose wire was wiped or refused]

vars == <<state, in_flight, members, chain_alive, pending, current, cb, caller,
          acquired, abortPc, header, plan, desync, lost>>

Kinds == {"AT", "ATSH", "poll", "oneshot"}
Wire == [kind : Kinds, pids : SUBSET Pid, ctrl : Header \cup {NoHeader}]

KickWire == [kind |-> "AT", pids |-> {}, ctrl |-> NoHeader]
OneShot  == [kind |-> "oneshot", pids |-> {}, ctrl |-> NoHeader]
Switch(h) == [kind |-> "ATSH", pids |-> {}, ctrl |-> h]
Poll(ps) == [kind |-> "poll", pids |-> ps,
             ctrl |-> plan.target[CHOOSE p \in ps : TRUE]]

Idle == [pc |-> "idle", pids |-> {}]

Active == {s \in Sub : state[s] = "Active"}
Owned  == UNION {PidsOf[s] : s \in Active}
Eligible == Owned \ in_flight
Elements(s) == {s[i] : i \in DOMAIN s}

(* Picks share the first one's target: one exchange, one header.           *)
PickSets == {ps \in SUBSET Eligible :
               /\ ps # {} /\ Cardinality(ps) <= plan.picks
               /\ \A p, q \in ps : plan.target[p] = plan.target[q]}

(* queue_command; the callers here ignore a refusal.                       *)
Queue(w) ==
  LET room == Len(pending) < plan.queue IN
  /\ pending' = IF room THEN Append(pending, w) ELSE pending
  /\ lost' = [chain |-> FALSE, pids |-> IF room THEN lost.pids ELSE lost.pids \cup w.pids]

TypeOK ==
  /\ state \in [Sub -> {"Active", "Paused", "HostPaused"}]
  /\ in_flight \subseteq Pid /\ members \subseteq SUBSET Pid
  /\ chain_alive \in BOOLEAN /\ pending \in Seq(Wire) /\ Len(pending) <= plan.queue
  /\ current \in Header \cup {NoHeader} /\ header \in Header \cup {NoHeader}
  /\ cb \in [pc : {"idle", "complete", "error", "halt", "pick", "switch", "send",
                   "alive", "look", "dead"}, pids : SUBSET Pid]
  /\ caller \in [Caller -> [pc : {"off", "kick", "claim", "clear", "queue"},
                            todo : SUBSET Sub]]
  /\ acquired \subseteq Sub /\ abortPc \in {"off", "queue"}
  /\ plan \in Plan
  /\ desync \in BOOLEAN /\ lost \in [chain : BOOLEAN, pids : SUBSET Pid]

Init ==
  /\ state = [s \in Sub |-> "Paused"]
  /\ in_flight = {} /\ members = {} /\ chain_alive = FALSE /\ pending = <<>>
  /\ current = NoHeader /\ header = NoHeader /\ cb = Idle
  /\ caller = [c \in Caller |-> [pc |-> "off", todo |-> {}]]
  /\ acquired = {} /\ abortPc = "off"
  /\ plan \in Scenarios /\ desync = FALSE /\ lost = [chain |-> FALSE, pids |-> {}]

-----------------------------------------------------------------------------
(* The callback of the head wire, with a reply or an error.  Its members   *)
(* leave the registry (a wire without an entry completes as its own text,  *)
(* which is a PID only if single), and mark_command_completed frees the    *)
(* head.  A header switch that was answered is in force; one that failed   *)
(* is not, although the session keeps believing it.                        *)
Complete(error) ==
  LET w == Head(pending)
      resolved == IF w.pids \in members \/ Cardinality(w.pids) <= 1
                  THEN w.pids ELSE {}
  IN
  /\ cb.pc = "idle" /\ pending # <<>>
  /\ pending' = Tail(pending)
  /\ members' = members \ {w.pids}
  /\ cb' = [pc |-> IF error THEN "error" ELSE "complete", pids |-> resolved]
  /\ IF w.kind = "ATSH"
     THEN /\ header' = IF error THEN header ELSE w.ctrl
          /\ desync' = (desync \/ error)
     ELSE UNCHANGED <<header, desync>>
  /\ UNCHANGED <<state, in_flight, chain_alive, current, caller, acquired,
                 abortPc, plan, lost>>

(* Definitions named Mutant... are wrong versions of the one that follows,  *)
(* each a plausible bug that some property must see.  Here: a completion    *)
(* that clears the mark of a lone PID only.                                 *)
MutantCompleteMembers ==
  /\ cb.pc = "complete"
  /\ in_flight' = IF Cardinality(cb.pids) = 1 THEN in_flight \ cb.pids ELSE in_flight
  /\ cb' = [pc |-> "pick", pids |-> {}]
  /\ UNCHANGED <<state, members, chain_alive, pending, current, caller,
                 acquired, abortPc, header, plan, desync, lost>>

(* command_completed for every member.                                     *)
CompleteMembers ==
  /\ cb.pc = "complete"
  /\ in_flight' = in_flight \ cb.pids
  /\ cb' = [pc |-> "pick", pids |-> {}]
  /\ UNCHANGED <<state, members, chain_alive, pending, current, caller,
                 acquired, abortPc, header, plan, desync, lost>>

(* An error pauses every active subscription, except on a chunk (the clamp *)
(* shrinks the batch instead) and on a wire no active one owns (a probe).  *)
PausesAll == /\ ~(plan.chunking /\ Cardinality(cb.pids) > 1)
             /\ cb.pids \cap Owned # {}

(* An error that stops the pipeline and leaves the flag up.                *)
MutantCompleteError ==
  /\ cb.pc = "error"
  /\ IF PausesAll
     THEN /\ state' = [s \in Sub |-> IF s \in Active THEN "HostPaused" ELSE state[s]]
          /\ in_flight' = {} /\ members' = {} /\ cb' = Idle
     ELSE /\ in_flight' = in_flight \ cb.pids
          /\ cb' = [pc |-> "pick", pids |-> {}]
          /\ UNCHANGED <<state, members>>
  /\ UNCHANGED <<chain_alive, pending, current, caller, acquired, abortPc,
                 header, plan, desync, lost>>

CompleteError ==
  /\ cb.pc = "error"
  /\ IF PausesAll
     THEN /\ state' = [s \in Sub |-> IF s \in Active THEN "HostPaused" ELSE state[s]]
          /\ in_flight' = {} /\ members' = {}
          /\ cb' = [pc |-> "halt", pids |-> {}]
     ELSE /\ in_flight' = in_flight \ cb.pids
          /\ cb' = [pc |-> "pick", pids |-> {}]
          /\ UNCHANGED <<state, members>>
  /\ UNCHANGED <<chain_alive, pending, current, caller, acquired, abortPc,
                 header, plan, desync, lost>>

(* The chain's end: still under the manager's lock after an error, outside *)
(* any lock when a look found nothing pending.                             *)
ChainDies ==
  /\ cb.pc \in {"halt", "dead"}
  /\ chain_alive' = FALSE
  /\ cb' = Idle
  /\ UNCHANGED <<state, in_flight, members, pending, current, caller, acquired,
                 abortPc, header, plan, desync, lost>>

(* get_next_commands: mark the picks in flight, or find nothing to do.     *)
Pick ==
  /\ cb.pc = "pick"
  /\ \/ \E ps \in PickSets :
          /\ in_flight' = in_flight \cup ps
          /\ cb' = [pc |-> "switch", pids |-> ps]
     \/ /\ PickSets = {}
        /\ cb' = [cb EXCEPT !.pc = "look"]
        /\ UNCHANGED in_flight
  /\ UNCHANGED <<state, members, chain_alive, pending, current, caller,
                 acquired, abortPc, header, plan, desync, lost>>

(* A switch for the first target only.                                     *)
MutantSwitchController ==
  LET h == Poll(cb.pids).ctrl IN
  /\ cb.pc = "switch"
  /\ cb' = [cb EXCEPT !.pc = "send"]
  /\ IF h # NoHeader /\ current = NoHeader
     THEN /\ Queue(Switch(h)) /\ current' = h
          /\ desync' = (desync \/ Len(pending) = plan.queue)
     ELSE UNCHANGED <<pending, lost, current, desync>>
  /\ UNCHANGED <<state, in_flight, members, chain_alive, caller, acquired,
                 abortPc, header, plan>>

(* send_wire_with_controller_switch: the switch is believed at once, even  *)
(* if the queue refused it.                                                *)
SwitchController ==
  LET h == Poll(cb.pids).ctrl IN
  /\ cb.pc = "switch"
  /\ cb' = [cb EXCEPT !.pc = "send"]
  /\ IF h # NoHeader /\ h # current
     THEN /\ Queue(Switch(h)) /\ current' = h
          /\ desync' = (desync \/ Len(pending) = plan.queue)
     ELSE UNCHANGED <<pending, lost, current, desync>>
  /\ UNCHANGED <<state, in_flight, members, chain_alive, caller, acquired,
                 abortPc, header, plan>>

SendWire ==
  /\ cb.pc = "send"
  /\ members' = members \cup {cb.pids}
  /\ Queue(Poll(cb.pids))
  /\ cb' = [pc |-> "alive", pids |-> {}]
  /\ UNCHANGED <<state, in_flight, chain_alive, current, caller, acquired,
                 abortPc, header, plan, desync>>

ChainLives ==
  /\ cb.pc = "alive"
  /\ chain_alive' = TRUE
  /\ cb' = Idle
  /\ UNCHANGED <<state, in_flight, members, pending, current, caller, acquired,
                 abortPc, header, plan, desync, lost>>

(* A callback that never declares the chain dead.                          *)
MutantLookForWork ==
  /\ cb.pc = "look"
  /\ cb' = Idle
  /\ UNCHANGED <<state, in_flight, members, chain_alive, pending, current,
                 caller, acquired, abortPc, header, plan, desync, lost>>

(* has_pending_work: the look, and (ChainDies) the act on it.              *)
LookForWork ==
  /\ cb.pc = "look"
  /\ cb' = IF pending = <<>> THEN [cb EXCEPT !.pc = "dead"] ELSE Idle
  /\ UNCHANGED <<state, in_flight, members, chain_alive, pending, current,
                 caller, acquired, abortPc, header, plan, desync, lost>>

-----------------------------------------------------------------------------
(* The API.  The manager's lock is the callback's while it halts.          *)
ManagerFree == cb.pc # "halt"

callerOnly == <<members, current, cb, acquired, abortPc, header, plan,
                desync>>

(* start_subscription, and add_pids on an active subscription.             *)
Start(c, s) ==
  /\ caller[c].pc = "off" /\ ManagerFree
  /\ state' = [state EXCEPT ![s] = "Active"]
  /\ caller' = [caller EXCEPT ![c] = [pc |-> "kick", todo |-> {s}]]
  /\ UNCHANGED <<callerOnly, in_flight, chain_alive, pending, lost>>

(* kick_pipeline_if_idle, once for each subscription in todo: an active    *)
(* one tries to claim the chain's birth.                                   *)
KickNext(c, todo) ==
  caller' = [caller EXCEPT ![c] =
               [pc |-> IF todo = {} THEN "off" ELSE "kick", todo |-> todo]]

Kick(c, s) ==
  /\ caller[c].pc = "kick" /\ s \in caller[c].todo /\ ManagerFree
  /\ IF s \in Active
     THEN caller' = [caller EXCEPT ![c] = [pc |-> "claim", todo |-> @.todo \ {s}]]
     ELSE KickNext(c, caller[c].todo \ {s})
  /\ UNCHANGED <<callerOnly, state, in_flight, chain_alive, pending, lost>>

Claim(c) ==               \* try_claim_chain
  /\ caller[c].pc = "claim"
  /\ IF chain_alive THEN KickNext(c, caller[c].todo)
     ELSE caller' = [caller EXCEPT ![c].pc = "clear"]
  /\ chain_alive' = TRUE
  /\ UNCHANGED <<callerOnly, state, in_flight, pending, lost>>

ClearInFlight(c) ==
  /\ caller[c].pc = "clear" /\ ManagerFree
  /\ in_flight' = {}
  /\ caller' = [caller EXCEPT ![c].pc = "queue"]
  /\ UNCHANGED <<callerOnly, state, chain_alive, pending, lost>>

QueueKick(c) ==
  /\ caller[c].pc = "queue"
  /\ Queue(KickWire)
  /\ KickNext(c, caller[c].todo)
  /\ UNCHANGED <<callerOnly, state, in_flight, chain_alive>>

Pause(s) ==               \* pause_subscription
  /\ ManagerFree /\ state[s] # "HostPaused"
  /\ state' = [state EXCEPT ![s] = "HostPaused"]
  /\ UNCHANGED <<callerOnly, in_flight, chain_alive, pending, caller, lost>>

(* An acquisition (stream, periodic, sink) pauses what is active, and at   *)
(* its end resumes what the host did not pause meanwhile, and kicks.       *)
AcquisitionPauses ==
  /\ "acquire" \in plan.ops /\ acquired = {} /\ Active # {} /\ ManagerFree
  /\ state' = [s \in Sub |-> IF s \in Active THEN "Paused" ELSE state[s]]
  /\ acquired' = Active
  /\ in_flight' = {}
  /\ UNCHANGED <<members, chain_alive, pending, current, cb, caller, abortPc,
                 header, plan, desync, lost>>

AcquisitionResumes(c) ==
  /\ acquired # {} /\ caller[c].pc = "off" /\ ManagerFree
  /\ state' = [s \in Sub |-> IF s \in acquired /\ state[s] = "Paused"
                             THEN "Active" ELSE state[s]]
  /\ caller' = [caller EXCEPT ![c] = [pc |-> "kick", todo |-> acquired]]
  /\ acquired' = {}
  /\ UNCHANGED <<in_flight, members, chain_alive, pending, current, cb,
                 abortPc, header, plan, desync, lost>>

(* A disturbance comes once in a behaviour.                                *)
Disturb(op) == op \in plan.ops /\ plan' = [plan EXCEPT !.ops = @ \ {op}]

(* A wire of somebody else: console one-shots, link init, identify.        *)
QueueOneShot ==
  /\ plan.oneShots > 0 /\ Len(pending) < plan.queue
  /\ plan' = [plan EXCEPT !.oneShots = @ - 1]
  /\ Queue(OneShot)
  /\ UNCHANGED <<state, in_flight, members, chain_alive, current, cb, caller,
                 acquired, abortPc, header, desync>>

(* Wiping wires leaves the session believing in a switch that is gone, and *)
(* the flag in a chain that is: also when the callback that queued them    *)
(* raises the flag only afterwards (ChainLives).                           *)
Wipe(kept) ==
  /\ pending' = kept
  /\ lost' = [chain |-> lost.chain \/ (kept = <<>> /\ pending # <<>>),
              pids |-> lost.pids \cup UNION {w.pids : w \in Elements(pending) \ Elements(kept)}]
  /\ desync' = (desync \/ \E w \in Elements(pending) \ Elements(kept) : w.kind = "ATSH")

(* clear_queue: the head stays if it is already outstanding.               *)
ClearQueue ==
  /\ Disturb("clear") /\ pending # <<>>
  /\ Wipe(<<>>) \/ Wipe(<<Head(pending)>>)
  /\ UNCHANGED <<state, in_flight, members, chain_alive, current, cb, caller,
                 acquired, abortPc, header>>

(* abort_outstanding_and_clear: the flag first, then the wires.            *)
AbortFlag ==
  /\ Disturb("abort") /\ abortPc = "off"
  /\ abortPc' = "queue"
  /\ chain_alive' = FALSE
  /\ UNCHANGED <<state, in_flight, members, pending, current, cb, caller,
                 acquired, header, desync, lost>>

AbortWires ==
  /\ abortPc = "queue" /\ abortPc' = "off"
  /\ Wipe(<<>>)
  /\ UNCHANGED <<state, in_flight, members, chain_alive, current, cb, caller,
                 acquired, header, plan>>

(* The next connect resets the adapter (ATZ), current_controller stays.    *)
AdapterReset ==
  /\ Disturb("reset") /\ header # NoHeader
  /\ header' = NoHeader /\ desync' = TRUE
  /\ UNCHANGED <<state, in_flight, members, chain_alive, pending, current, cb,
                 caller, acquired, abortPc, lost>>

-----------------------------------------------------------------------------
Callback ==
  \/ CompleteMembers \/ CompleteError \/ ChainDies \/ Pick
  \/ SwitchController \/ SendWire \/ ChainLives \/ LookForWork

Kicker(c) ==
  \/ \E s \in Sub : Kick(c, s)
  \/ Claim(c) \/ ClearInFlight(c) \/ QueueKick(c)

Next ==
  \/ \E error \in BOOLEAN : Complete(error)
  \/ Callback
  \/ \E c \in Caller : Kicker(c) \/ AcquisitionResumes(c) \/ \E s \in Sub : Start(c, s)
  \/ \E s \in Sub : Pause(s)
  \/ AcquisitionPauses \/ QueueOneShot \/ ClearQueue
  \/ AbortFlag \/ AbortWires \/ AdapterReset

Spec == Init /\ [][Next]_vars

(* Every wire is answered, if only by the fallback timer, and the threads  *)
(* that run are scheduled.  Nothing is assumed of what the host asks for.  *)
Fairness ==
  /\ WF_vars(\E error \in BOOLEAN : Complete(error))
  /\ WF_vars(Callback)
  /\ WF_vars(AbortWires)
  /\ \A c \in Caller : WF_vars(Kicker(c))

FairSpec == Spec /\ Fairness

-----------------------------------------------------------------------------
(* A polling chain exists: a wire whose completion will look for the next  *)
(* pick, a callback that is at it, or a caller about to queue the first.   *)
Token == \/ pending # <<>>
         \/ cb.pc # "idle"
         \/ \E c \in Caller : caller[c].pc \in {"clear", "queue"}

(* chain_alive never outlives the chain (then no kick could ever revive    *)
(* it), unless wires of a live chain were wiped from under it.             *)
FlagHasChain == chain_alive /\ ~lost.chain => Token

(* A targeted poll goes out under its target's header, until a switch      *)
(* fails or is wiped, or the adapter is reset behind current_controller.   *)
HeaderTracked ==
  pending # <<>> /\ Head(pending).ctrl # NoHeader
    /\ Head(pending).kind = "poll" /\ ~desync
  => header = Head(pending).ctrl

(* A PID marked in flight is on a wire, or in the callback's hands: a mark *)
(* that nothing will clear would take the PID out of the polling for good. *)
(* Wiping or refusing its wire does that.                                  *)
InFlightBacked ==
  \A p \in in_flight \ lost.pids :
    p \in cb.pids \/ \E w \in Elements(pending) : p \in w.pids

(* As long as a subscription stays active and the flag says a chain is     *)
(* alive, polls keep being queued.                                         *)
LiveChainPolls ==
  \A s \in Sub : <>[](s \in Active /\ chain_alive /\ ~lost.chain) => []<>(cb.pc = "alive")

(* A subscription whose start has returned is polled, or is paused again.  *)
StartedIsPolled ==
  \A s \in Sub :
    (s \in Active /\ \A c \in Caller : caller[c].pc = "off")
      ~> (s \notin Active \/ \E w \in Elements(pending) : w.pids \cap PidsOf[s] # {})
=============================================================================
