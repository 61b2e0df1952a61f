--------------------------- MODULE Subscriptions ----------------------------
(***************************************************************************)
(* The subscription manager (src/src/subscription.rs) and the global PID   *)
(* registry behind it (src/src/pid_registry.rs): who polls what, how often *)
(* (run counts), and which PIDs go out next (tier ticks).                  *)
(*                                                                         *)
(* Every public method that changes state is one action; the session calls *)
(* each under the manager's mutex.  The wires in flight belong to the      *)
(* callers (module PollChain): they are here as a FIFO of the picks that   *)
(* get_next_commands returned and command_completed has not yet reported.  *)
(***************************************************************************)
EXTENDS Integers, Sequences, FiniteSets, FiniteSetsExt

CONSTANTS
  Sub,               \* subscription ids, each used once (Uuids)
  Pid,               \* PIDs
  Controller,        \* target controllers
  NoController,      \* no target given
  Tier,              \* the divisors of the refresh tiers: Fast 1, Medium 3, Slow 10
  DefaultTier,       \* [Pid -> Tier]: resolve_tier before any override
  MaxSubscriptions,  \* max_subscriptions
  MaxRuns,           \* bound: the largest run count asked for
  MaxPicks,          \* the acquisition plugin's max_picks
  MaxWires,          \* bound: exchanges in flight
  MaxTick,           \* bound: ticks at which picks are still made
  MaxCalls,          \* bound: the host's and the acquisitions' calls
  Ops                \* calls that happen beside create, add, start and the polling

ASSUME SubscriptionsAssumption ==
  /\ NoController \notin Controller
  /\ Tier \subseteq Nat \ {0} /\ \E slowest \in Tier : \A t \in Tier : slowest >= t
  /\ DefaultTier \in [Pid -> Tier]
  /\ {MaxSubscriptions, MaxRuns, MaxPicks, MaxWires, MaxTick, MaxCalls} \subseteq Nat
  /\ Ops \subseteq {"remove", "pause", "acquire", "cancel", "tiers", "stream",
                     "clear", "other", "mismatch"}

VARIABLES
  state,        \* "new" before create, "gone" after cancel
  host_paused,  \* the host paused it: an acquisition must not resume it
  pids,         \* [Sub -> SUBSET Pid]
  runs,         \* pid_run_counts: how often to poll, 0 = continuously
  execs,        \* pid_execution_counts, of the PIDs that have a run count
  once,         \* is_run_once_only
  tiers,        \* pid_tiers, overrides included
  registry,     \* pid_subscriptions: [Pid -> SUBSET Sub]
  controllers,  \* pid_controllers
  in_flight,    \* in_flight_pids
  streamed,     \* PIDs an adapter-side stream serves
  ticks,        \* pid_schedule_ticks
  wires,        \* callers: the picks on their way, oldest first
  completing,   \* callers: members of a wire still to be reported
  acquired,     \* callers: ids an acquisition paused and will resume
  calls,        \* the calls so far that MaxCalls counts
  behind        \* history: PIDs the polling went ahead of while nothing
                \*   polled them, and that have not caught up

subVars   == <<state, host_paused, pids, runs, execs, once, tiers>>
regVars   == <<registry, controllers>>
schedVars == <<in_flight, streamed, ticks>>
vars == <<subVars, regVars, schedVars, wires, completing, acquired, calls,
          behind>>

States == {"new", "Paused", "Active", "Completed", "gone"}

TypeOK ==
  /\ state \in [Sub -> States] /\ host_paused \in [Sub -> BOOLEAN]
  /\ pids \in [Sub -> SUBSET Pid]
  /\ runs \in [Sub -> [Pid -> 0 .. MaxRuns]] /\ execs \in [Sub -> [Pid -> Nat]]
  /\ once \in [Sub -> BOOLEAN] /\ tiers \in [Sub -> [Pid -> Tier]]
  /\ registry \in [Pid -> SUBSET Sub]
  /\ controllers \in [Pid -> Controller \cup {NoController}]
  /\ in_flight \subseteq Pid /\ streamed \subseteq Pid /\ ticks \in [Pid -> Nat]
  /\ wires \in Seq(SUBSET Pid) /\ Len(wires) <= MaxWires
  /\ completing \subseteq Pid /\ acquired \subseteq Sub /\ calls \in 0 .. MaxCalls
  /\ behind \subseteq Pid

Init ==
  /\ state = [s \in Sub |-> "new"] /\ host_paused = [s \in Sub |-> FALSE]
  /\ pids = [s \in Sub |-> {}]
  /\ runs = [s \in Sub |-> [p \in Pid |-> 0]]
  /\ execs = [s \in Sub |-> [p \in Pid |-> 0]]
  /\ once = [s \in Sub |-> FALSE] /\ tiers = [s \in Sub |-> DefaultTier]
  /\ registry = [p \in Pid |-> {}]
  /\ controllers = [p \in Pid |-> NoController]
  /\ in_flight = {} /\ streamed = {} /\ ticks = [p \in Pid |-> 0]
  /\ wires = <<>> /\ completing = {} /\ acquired = {} /\ calls = 0 /\ behind = {}

-----------------------------------------------------------------------------
Exists(s) == state[s] \notin {"new", "gone"}
Active == {s \in Sub : state[s] = "Active"}
Holders(p) == {s \in Sub : p \in pids[s]}
Held == UNION {pids[s] : s \in Sub}       \* PIDs in any subscription

(* register_pid_subscription for each PID of ps.                           *)
Register(ps, s, c) ==
  /\ registry' = [p \in Pid |-> IF p \in ps THEN registry[p] \cup {s} ELSE registry[p]]
  /\ controllers' = [p \in Pid |-> IF p \in ps /\ c # NoController THEN c
                                   ELSE controllers[p]]

(* unregister_pid_subscription for PID p: the last holder takes the PID's  *)
(* controller along.                                                       *)
Unregister(p, gone) ==
  /\ registry' = [registry EXCEPT ![p] = @ \ gone]
  /\ controllers' = [controllers EXCEPT
                       ![p] = IF registry[p] \subseteq gone THEN NoController ELSE @]

(* Nobody else has the manager while a callback reports a wire's members.  *)
Unlocked == completing = {}

(* One of the calls that MaxCalls counts.                                  *)
Call == Unlocked /\ calls < MaxCalls /\ calls' = calls + 1

Largest == Max(Tier)

(* The PIDs of ps that some PID of held is ahead of, by more than a step   *)
(* of the slowest tier.                                                    *)
Lagging(ps, held, t) == {q \in ps : \E p \in held : t[p] > t[q] + Largest}

-----------------------------------------------------------------------------
(* create_subscription: paused, without PIDs.                              *)
Create(s) ==
  /\ Unlocked /\ state[s] = "new"
  /\ Cardinality({q \in Sub : Exists(q)}) < MaxSubscriptions
  /\ state' = [state EXCEPT ![s] = "Paused"]
  /\ UNCHANGED <<host_paused, pids, runs, execs, once, tiers, regVars,
                 schedVars, wires, completing, acquired, calls, behind>>

(* The floor of the schedule: the smallest tick of a PID in any            *)
(* subscription, the paused ones included.                                 *)
SeedTick == IF Held = {} THEN 0 ELSE Min({ticks[p] : p \in Held})

(* add_pids_to_subscription_with_run_counts: counts[p] = 0 is continuous.  *)
AddPids(s, ps, counts, c) ==
  LET seeded == [p \in Pid |-> IF p \in ps THEN SeedTick ELSE ticks[p]] IN
  /\ Exists(s) /\ Call
  /\ pids' = [pids EXCEPT ![s] = @ \cup ps]
  /\ runs' = [runs EXCEPT ![s] = [p \in Pid |-> IF p \in ps THEN counts[p] ELSE @[p]]]
  /\ execs' = [execs EXCEPT ![s] = [p \in Pid |-> IF p \in ps THEN 0 ELSE @[p]]]
  /\ once' = [once EXCEPT ![s] = @ \/ \A p \in ps : counts[p] > 0]
  /\ ticks' = seeded
  /\ Register(ps, s, c)
  /\ behind' = (behind \ ps) \cup Lagging(ps, Held \cup ps, seeded)
  /\ UNCHANGED <<state, host_paused, tiers, in_flight, streamed, wires,
                 completing, acquired>>

(* remove_pids_from_subscription; its run and execution counts stay.       *)
RemovePids(s, p) ==
  /\ "remove" \in Ops /\ Exists(s) /\ p \in pids[s] /\ Call
  /\ pids' = [pids EXCEPT ![s] = @ \ {p}]
  /\ Unregister(p, {s})
  /\ behind' = IF Holders(p) = {s} THEN behind \ {p} ELSE behind
  /\ UNCHANGED <<state, host_paused, runs, execs, once, tiers, schedVars,
                 wires, completing, acquired>>

(* start_subscription: the pause mark goes even if the start is refused.   *)
Start(s) ==
  /\ Exists(s) /\ Call
  /\ host_paused' = [host_paused EXCEPT ![s] = FALSE]
  /\ state' = [state EXCEPT ![s] = IF @ = "Paused" THEN "Active" ELSE @]
  /\ UNCHANGED <<pids, runs, execs, once, tiers, regVars, schedVars, wires,
                 completing, acquired, behind>>

(* pause_subscription, from whatever state.                                *)
Pause(s) ==
  /\ "pause" \in Ops /\ Exists(s) /\ Call
  /\ state' = [state EXCEPT ![s] = "Paused"]
  /\ host_paused' = [host_paused EXCEPT ![s] = TRUE]
  /\ UNCHANGED <<pids, runs, execs, once, tiers, regVars, schedVars, wires,
                 completing, acquired, behind>>

(* pause_all_active: an acquisition remembers the ids, a disconnect does   *)
(* not.                                                                    *)
PauseAllActive ==
  /\ "acquire" \in Ops /\ Active # {} /\ Call
  /\ state' = [s \in Sub |-> IF s \in Active THEN "Paused" ELSE state[s]]
  /\ acquired' \in {acquired, acquired \cup Active}
  /\ UNCHANGED <<host_paused, pids, runs, execs, once, tiers, regVars,
                 schedVars, wires, completing, behind>>

(* A resume that does not look at the host's pause mark.                   *)
MutantResumeMany ==
  /\ Unlocked /\ acquired # {} /\ acquired' = {}
  /\ state' = [s \in Sub |-> IF s \in acquired /\ state[s] = "Paused"
                             THEN "Active" ELSE state[s]]
  /\ UNCHANGED <<host_paused, pids, runs, execs, once, tiers, regVars,
                 schedVars, wires, completing, calls, behind>>

ResumeMany ==
  /\ Unlocked /\ acquired # {} /\ acquired' = {}
  /\ state' = [s \in Sub |->
                 IF s \in acquired /\ state[s] = "Paused" /\ ~host_paused[s]
                 THEN "Active" ELSE state[s]]
  /\ UNCHANGED <<host_paused, pids, runs, execs, once, tiers, regVars,
                 schedVars, wires, completing, calls, behind>>

(* cancel_subscription; its wires stay in flight.                          *)
Cancel(s) ==
  /\ "cancel" \in Ops /\ Exists(s) /\ Call
  /\ state' = [state EXCEPT ![s] = "gone"]
  /\ pids' = [pids EXCEPT ![s] = {}]
  /\ registry' = [p \in Pid |-> registry[p] \ {s}]
  /\ controllers' = [p \in Pid |-> IF registry[p] = {s} THEN NoController
                                   ELSE controllers[p]]
  /\ behind' = {p \in behind : Holders(p) # {s}}
  /\ UNCHANGED <<host_paused, runs, execs, once, tiers, schedVars, wires,
                 completing, acquired>>

SetPidTiers(s, p, t) ==
  /\ "tiers" \in Ops /\ Exists(s) /\ Call
  /\ tiers' = [tiers EXCEPT ![s][p] = t]
  /\ UNCHANGED <<state, host_paused, pids, runs, execs, once, regVars,
                 schedVars, wires, completing, acquired, behind>>

SetStreamedPids(ps) ==
  /\ "stream" \in Ops /\ ps # streamed /\ Call
  /\ streamed' = ps
  /\ UNCHANGED <<subVars, regVars, in_flight, ticks, wires, completing,
                 acquired, behind>>

ClearInFlight ==
  /\ "clear" \in Ops /\ in_flight # {} /\ Call
  /\ in_flight' = {}
  /\ UNCHANGED <<subVars, regVars, streamed, ticks, wires, completing,
                 acquired, behind>>

-----------------------------------------------------------------------------
(* Run counts are consulted in one active holder, whichever comes first.   *)
RunLimitReached(s, p) == runs[s][p] > 0 /\ execs[s][p] >= runs[s][p]
Pollable(p) == /\ p \notin streamed
               /\ \E s \in Active \cap Holders(p) : ~RunLimitReached(s, p)

(* peek_next_eligible.                                                     *)
Eligible == {p \in Pid : registry[p] # {} /\ p \notin in_flight /\ Pollable(p)}

(* A sweep that also takes PIDs that are not due.                          *)
MutantPickSets == {ps \in SUBSET Eligible : ps # {} /\ Cardinality(ps) <= MaxPicks}

(* One exchange = one step of the virtual clock and one header: the most   *)
(* overdue PIDs of one controller; the plugin's admission may refuse all   *)
(* but the first.                                                          *)
Sweep == Min({ticks[p] : p \in Eligible})
PickSets == {ps \in SUBSET {p \in Eligible : ticks[p] = Sweep} :
               /\ ps # {} /\ Cardinality(ps) <= MaxPicks
               /\ \A p, q \in ps : controllers[p] = controllers[q]}

(* get_next_commands: commit_pick advances each pick by its tier in some   *)
(* subscription that holds it, and marks it in flight.                     *)
GetNextCommands ==
  /\ Unlocked /\ Len(wires) < MaxWires /\ Eligible # {} /\ Sweep <= MaxTick
  /\ \E ps \in PickSets :
       \E by \in [ps -> Sub] :
         /\ \A p \in ps : by[p] \in Holders(p)
         /\ ticks' = [p \in Pid |-> IF p \in ps THEN ticks[p] + tiers[by[p]][p]
                                    ELSE ticks[p]]
         /\ in_flight' = in_flight \cup ps
         /\ wires' = Append(wires, ps)
  /\ behind' = Lagging(behind \cup (Held \ Eligible), Held, ticks')
  /\ UNCHANGED <<subVars, regVars, streamed, completing, acquired, calls>>

-----------------------------------------------------------------------------
(* check_and_mark_subscription_complete, with the PIDs left to each: one   *)
(* subscription a call.                                                    *)
Finished(left) == {s \in Active : once[s] /\ left[s] = {}}

CheckAndMark(left) ==
  IF Finished(left) = {} THEN UNCHANGED state
  ELSE \E s \in Finished(left) : state' = [state EXCEPT ![s] = "Completed"]

LastRun(s, p) == runs[s][p] > 0 /\ execs[s][p] + 1 >= runs[s][p]

(* An accounting that leaves the spent PID registered.                     *)
MutantAccount(a) ==
  LET charged == Active \cap Holders(a)
      spent   == {s \in charged : LastRun(s, a)}
      left    == [s \in Sub |-> IF s \in spent THEN pids[s] \ {a} ELSE pids[s]]
  IN
  /\ execs' = [s \in Sub |-> IF s \in spent THEN [execs[s] EXCEPT ![a] = 0]
                             ELSE IF s \in charged /\ runs[s][a] > 0
                             THEN [execs[s] EXCEPT ![a] = @ + 1] ELSE execs[s]]
  /\ runs' = [s \in Sub |-> IF s \in spent THEN [runs[s] EXCEPT ![a] = 0] ELSE runs[s]]
  /\ pids' = left
  /\ behind' = IF Holders(a) = spent THEN behind \ {a} ELSE behind
  /\ CheckAndMark(left)
  /\ UNCHANGED regVars

(* The completion of PID a is charged to every active subscription that    *)
(* holds it; one that has had all its runs loses the PID and its counts.   *)
Account(a) ==
  LET charged == Active \cap Holders(a)
      spent   == {s \in charged : LastRun(s, a)}
      left    == [s \in Sub |-> IF s \in spent THEN pids[s] \ {a} ELSE pids[s]]
  IN
  /\ execs' = [s \in Sub |-> IF s \in spent THEN [execs[s] EXCEPT ![a] = 0]
                             ELSE IF s \in charged /\ runs[s][a] > 0
                             THEN [execs[s] EXCEPT ![a] = @ + 1] ELSE execs[s]]
  /\ runs' = [s \in Sub |-> IF s \in spent THEN [runs[s] EXCEPT ![a] = 0] ELSE runs[s]]
  /\ pids' = left
  /\ Unregister(a, spent)
  /\ behind' = IF Holders(a) = spent THEN behind \ {a} ELSE behind
  /\ CheckAndMark(left)

(* command_completed for the members of the oldest wire, one after the     *)
(* other: p's reply is its own, or none, or names another PID a.           *)
CommandCompleted(p, a) ==
  /\ \/ /\ completing # {} /\ p \in completing
        /\ completing' = completing \ {p}
        /\ UNCHANGED wires
     \/ /\ completing = {} /\ wires # <<>> /\ p \in Head(wires)
        /\ completing' = Head(wires) \ {p}
        /\ wires' = Tail(wires)
  /\ in_flight' = in_flight \ {p}
  /\ Account(a)
  /\ UNCHANGED <<host_paused, once, tiers, streamed, ticks, acquired, calls>>

(* command_completed for a command no subscription holds (AT, one-shot).   *)
OtherCompleted ==
  /\ "other" \in Ops /\ Unlocked
  /\ CheckAndMark(pids)
  /\ UNCHANGED <<host_paused, pids, runs, execs, once, tiers, regVars,
                 schedVars, wires, completing, acquired, calls, behind>>

-----------------------------------------------------------------------------
Completion ==
  \E p \in Pid : \E a \in IF "mismatch" \in Ops THEN Pid ELSE {p} :
    CommandCompleted(p, a)

Next ==
  \/ \E s \in Sub :
       \/ Create(s) \/ Start(s) \/ Pause(s) \/ Cancel(s)
       \/ \E ps \in (SUBSET Pid) \ {{}} :
            \E counts \in [ps -> 0 .. MaxRuns] :
              \E c \in Controller \cup {NoController} : AddPids(s, ps, counts, c)
       \/ \E p \in Pid : RemovePids(s, p) \/ \E t \in Tier : SetPidTiers(s, p, t)
  \/ PauseAllActive \/ ResumeMany
  \/ \E ps \in SUBSET Pid : SetStreamedPids(ps)
  \/ ClearInFlight
  \/ GetNextCommands \/ Completion \/ OtherCompleted

Spec == Init /\ [][Next]_vars

(* Every exchange is answered, and its completion asks for the next picks. *)
Fairness == WF_vars(GetNextCommands) /\ WF_vars(Completion)
FairSpec == Spec /\ Fairness

-----------------------------------------------------------------------------
(* The registry, which decides what is polled, and the subscriptions,      *)
(* which know why, agree after every sequence of calls; a controller does  *)
(* not outlive the last subscription that asked for the PID.               *)
RegistryExact ==
  \A p \in Pid :
    /\ registry[p] = Holders(p)
    /\ registry[p] = {} => controllers[p] = NoController

(* "resume_many must NOT resurrect a host-paused subscription", in any     *)
(* order of the host's and the acquisitions' calls.                        *)
HostPauseHolds == \A s \in Sub : host_paused[s] => state[s] # "Active"

(* A PID with a run count is polled at most that often, and leaves its     *)
(* subscription with the last run.                                         *)
RunsBounded ==
  \A s \in Sub : \A p \in pids[s] : runs[s][p] > 0 => execs[s][p] < runs[s][p]

(* Both books are kept through every sequence of calls and completions.    *)
BooksKept == RegistryExact /\ RunsBounded

(* The tier ratios hold and nobody starves: between two registered PIDs    *)
(* the schedule runs apart by no more than a step of the slowest tier, but *)
(* for the PIDs it went past while they were paused, streamed or in flight.*)
TierSpread ==
  \A p \in Held, q \in Held \ behind : ticks[p] <= ticks[q] + Largest
=============================================================================
