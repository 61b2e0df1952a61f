------------------------ MODULE SubscriptionsProofs -------------------------
(***************************************************************************)
(* The subscription manager for any subscriptions, PIDs, tiers and bounds: *)
(* its books, the host's pauses and the spread of its schedule.  Then the  *)
(* live stream, which shares no state with it: its stop owns the adapter,  *)
(* its values are those of their pids, and its broadcast comes back.       *)
(***************************************************************************)
EXTENDS Subscriptions, StreamBeat, FoldLemmas

(* The least tick of some PIDs is there to be chosen.                      *)
LEMMA LeastTick ==
  ASSUME NEW T \in SUBSET Nat, T # {}
  PROVE  Min(T) \in T /\ \A t \in T : Min(T) <= t
<1> DEFINE Less == OpToRel(<, Nat)
<1>1. \A x, y \in Nat : <<y, x>> \in Less <=> y < x
  BY DEF OpToRel
<1>2. IsWellFoundedOn(Less, Nat)
  BY NatLessThanWellFounded
<1> HIDE DEF Less
<1>3. PICK x \in T : \A y \in T : ~(<<y, x>> \in Less)
  BY <1>2, WFMin
<1>4. ASSUME NEW y \in T PROVE x <= y
  <2>1. x \in Nat /\ y \in Nat
    OBVIOUS
  <2>2. ~(y < x)
    BY <1>1, <1>3, <2>1, Zenon
  <2> QED BY <2>1, <2>2
<1> QED BY <1>3, <1>4 DEF Min

LEMMA LargestTier ==
  /\ Tier \subseteq Nat
  /\ Largest \in Nat /\ \A t \in Tier : t <= Largest
<1>1. /\ Tier \subseteq Nat
      /\ \E slowest \in Tier : \A t \in Tier : slowest >= t
  BY SubscriptionsAssumption
<1>2. Max(Tier) \in Tier /\ \A t \in Tier : Max(Tier) >= t
  BY <1>1 DEF Max
<1>3. \A t \in Tier : t <= Max(Tier)
  BY <1>1, <1>2
<1> QED BY <1>1, <1>2, <1>3 DEF Largest

-----------------------------------------------------------------------------
(* Types, the queue of wires and the bound of the calls.                   *)
LEMMA InitType == Init => TypeOK
<1> SUFFICES ASSUME Init PROVE TypeOK
  OBVIOUS
<1>1. MaxRuns \in Nat /\ MaxWires \in Nat /\ MaxCalls \in Nat
  BY SubscriptionsAssumption
<1>2. /\ runs \in [Sub -> [Pid -> 0 .. MaxRuns]] /\ execs \in [Sub -> [Pid -> Nat]]
      /\ tiers \in [Sub -> [Pid -> Tier]]
  BY <1>1, SubscriptionsAssumption DEF Init
<1>3. /\ state \in [Sub -> States] /\ host_paused \in [Sub -> BOOLEAN]
      /\ pids \in [Sub -> SUBSET Pid] /\ once \in [Sub -> BOOLEAN]
  BY DEF Init, States
<1>4. /\ registry \in [Pid -> SUBSET Sub] /\ ticks \in [Pid -> Nat]
      /\ controllers \in [Pid -> Controller \cup {NoController}]
  BY DEF Init
<1>5. wires \in Seq(SUBSET Pid) /\ Len(wires) <= MaxWires /\ calls \in 0 .. MaxCalls
  BY <1>1 DEF Init
<1> QED BY <1>2, <1>3, <1>4, <1>5 DEF Init, TypeOK

LEMMA CallsType == ASSUME TypeOK, Call PROVE calls' \in 0 .. MaxCalls
  BY SubscriptionsAssumption DEF TypeOK, Call

LEMMA AddType ==
  ASSUME TypeOK, NEW s \in Sub, NEW ps \in SUBSET Pid, NEW counts \in [ps -> 0 .. MaxRuns],
         NEW c \in Controller \cup {NoController}, AddPids(s, ps, counts, c)
  PROVE  TypeOK'
<1>1. SeedTick \in Nat
  <2>1. CASE Held = {}
    BY <2>1 DEF SeedTick
  <2>2. CASE Held # {}
    <3>1. {ticks[p] : p \in Held} \in SUBSET Nat /\ {ticks[p] : p \in Held} # {}
      BY <2>2 DEF TypeOK, Held
    <3> QED BY <2>2, <3>1, LeastTick DEF SeedTick
  <2> QED BY <2>1, <2>2
<1>2. ticks' \in [Pid -> Nat]
  BY <1>1 DEF AddPids, TypeOK
<1>3. pids' \in [Sub -> SUBSET Pid]
  BY DEF AddPids, TypeOK
<1>4. runs' \in [Sub -> [Pid -> 0 .. MaxRuns]]
  <2>1. [p \in Pid |-> IF p \in ps THEN counts[p] ELSE runs[s][p]] \in [Pid -> 0 .. MaxRuns]
    BY DEF TypeOK
  <2> QED BY <2>1 DEF AddPids, TypeOK
<1>5. execs' \in [Sub -> [Pid -> Nat]]
  <2>1. [p \in Pid |-> IF p \in ps THEN 0 ELSE execs[s][p]] \in [Pid -> Nat]
    BY DEF TypeOK
  <2> QED BY <2>1 DEF AddPids, TypeOK
<1>6. once' \in [Sub -> BOOLEAN]
  BY DEF AddPids, TypeOK
<1>7. /\ registry' \in [Pid -> SUBSET Sub]
      /\ controllers' \in [Pid -> Controller \cup {NoController}]
  BY DEF AddPids, Register, TypeOK
<1>8. behind' \subseteq Pid
  BY DEF AddPids, Lagging, TypeOK
<1>9. calls' \in 0 .. MaxCalls
  BY CallsType DEF AddPids
<1> QED BY <1>2, <1>3, <1>4, <1>5, <1>6, <1>7, <1>8, <1>9 DEF AddPids, TypeOK

LEMMA CallType ==
  ASSUME TypeOK,
         \/ \E s \in Sub :
              \/ Create(s) \/ Start(s) \/ Pause(s) \/ Cancel(s)
              \/ \E p \in Pid : RemovePids(s, p) \/ \E t \in Tier : SetPidTiers(s, p, t)
         \/ PauseAllActive \/ ResumeMany \/ ClearInFlight
         \/ \E ps \in SUBSET Pid : SetStreamedPids(ps)
  PROVE  TypeOK'
<1>1. ASSUME NEW s \in Sub, Create(s) PROVE TypeOK'
  BY <1>1 DEF Create, TypeOK, States, regVars, schedVars
<1>2. ASSUME NEW s \in Sub, Start(s) PROVE TypeOK'
  BY <1>2, CallsType DEF Start, TypeOK, States, regVars, schedVars
<1>3. ASSUME NEW s \in Sub, Pause(s) PROVE TypeOK'
  BY <1>3, CallsType DEF Pause, TypeOK, States, regVars, schedVars
<1>4. ASSUME NEW s \in Sub, Cancel(s) PROVE TypeOK'
  <2>1. /\ registry' \in [Pid -> SUBSET Sub]
        /\ controllers' \in [Pid -> Controller \cup {NoController}]
    BY <1>4 DEF Cancel, TypeOK
  <2>2. state' \in [Sub -> States] /\ pids' \in [Sub -> SUBSET Pid] /\ behind' \subseteq Pid
    BY <1>4 DEF Cancel, TypeOK, States
  <2> QED BY <1>4, <2>1, <2>2, CallsType DEF Cancel, TypeOK, schedVars
<1>5. ASSUME NEW s \in Sub, NEW p \in Pid, RemovePids(s, p) PROVE TypeOK'
  <2>1. /\ registry' \in [Pid -> SUBSET Sub]
        /\ controllers' \in [Pid -> Controller \cup {NoController}]
    BY <1>5 DEF RemovePids, Unregister, TypeOK
  <2>2. pids' \in [Sub -> SUBSET Pid] /\ behind' \subseteq Pid
    BY <1>5 DEF RemovePids, TypeOK
  <2> QED BY <1>5, <2>1, <2>2, CallsType DEF RemovePids, TypeOK, schedVars
<1>6. ASSUME NEW s \in Sub, NEW p \in Pid, NEW t \in Tier, SetPidTiers(s, p, t) PROVE TypeOK'
  <2>1. tiers' \in [Sub -> [Pid -> Tier]]
    BY <1>6 DEF SetPidTiers, TypeOK
  <2> QED BY <1>6, <2>1, CallsType DEF SetPidTiers, TypeOK, regVars, schedVars
<1>7. CASE PauseAllActive
  BY <1>7, CallsType DEF PauseAllActive, TypeOK, States, Active, regVars, schedVars
<1>8. CASE ResumeMany
  BY <1>8 DEF ResumeMany, TypeOK, States, regVars, schedVars
<1>9. CASE ClearInFlight
  BY <1>9, CallsType DEF ClearInFlight, TypeOK, subVars, regVars
<1>10. ASSUME NEW ps \in SUBSET Pid, SetStreamedPids(ps) PROVE TypeOK'
  BY <1>10, CallsType DEF SetStreamedPids, TypeOK, subVars, regVars
<1> QED BY <1>1, <1>2, <1>3, <1>4, <1>5, <1>6, <1>7, <1>8, <1>9, <1>10

(* A pick is a nonempty set of PIDs that are due, each moved on by a tier  *)
(* of its own.                                                             *)
LEMMA PickGives ==
  ASSUME TypeOK, GetNextCommands
  PROVE  \E ps \in SUBSET Eligible :
           /\ \A p \in ps : ticks[p] = Sweep
           /\ \A p \in Pid \ ps : ticks'[p] = ticks[p]
           /\ \A p \in ps : \E t \in Tier : ticks'[p] = ticks[p] + t
           /\ ticks' \in [Pid -> Nat]
           /\ in_flight' = in_flight \cup ps /\ wires' = Append(wires, ps)
<1>1. PICK ps \in PickSets : \E by \in [ps -> Sub] :
         /\ \A p \in ps : by[p] \in Holders(p)
         /\ ticks' = [p \in Pid |-> IF p \in ps THEN ticks[p] + tiers[by[p]][p]
                                    ELSE ticks[p]]
         /\ in_flight' = in_flight \cup ps
         /\ wires' = Append(wires, ps)
  BY DEF GetNextCommands
<1>2. PICK by \in [ps -> Sub] :
         /\ \A p \in ps : by[p] \in Holders(p)
         /\ ticks' = [p \in Pid |-> IF p \in ps THEN ticks[p] + tiers[by[p]][p]
                                    ELSE ticks[p]]
         /\ in_flight' = in_flight \cup ps
         /\ wires' = Append(wires, ps)
  BY <1>1
<1>3. ps \in SUBSET Eligible /\ ps \subseteq Pid /\ \A p \in ps : ticks[p] = Sweep
  BY <1>1 DEF PickSets, Eligible
<1>4. \A p \in ps : tiers[by[p]][p] \in Tier
  BY <1>2, <1>3 DEF TypeOK
<1>5. ticks' \in [Pid -> Nat]
  <2>1. ASSUME NEW p \in Pid
        PROVE  (IF p \in ps THEN ticks[p] + tiers[by[p]][p] ELSE ticks[p]) \in Nat
    <3>1. ticks[p] \in Nat
      BY DEF TypeOK
    <3>2. p \in ps => tiers[by[p]][p] \in Nat
      BY <1>4, LargestTier
    <3> QED BY <3>1, <3>2
  <2> QED BY <1>2, <2>1
<1>6. \A p \in ps : ticks'[p] = ticks[p] + tiers[by[p]][p]
  BY <1>2, <1>3
<1>7. \A p \in Pid \ ps : ticks'[p] = ticks[p]
  BY <1>2
<1> QED BY <1>2, <1>3, <1>4, <1>5, <1>6, <1>7

LEMMA PickType == ASSUME TypeOK, GetNextCommands PROVE TypeOK'
<1>1. PICK ps \in SUBSET Eligible :
        /\ ticks' \in [Pid -> Nat]
        /\ in_flight' = in_flight \cup ps /\ wires' = Append(wires, ps)
  BY PickGives
<1>2. ps \subseteq Pid
  BY DEF Eligible
<1>3. wires' \in Seq(SUBSET Pid) /\ Len(wires') <= MaxWires
  BY <1>1, <1>2, SubscriptionsAssumption DEF GetNextCommands, TypeOK
<1>4. behind' \subseteq Pid
  BY DEF GetNextCommands, Lagging, TypeOK, Held, Eligible
<1> QED BY <1>1, <1>2, <1>3, <1>4 DEF GetNextCommands, TypeOK, subVars, regVars

LEMMA CheckType ==
  ASSUME TypeOK, NEW left, CheckAndMark(left) PROVE state' \in [Sub -> States]
<1>1. CASE Finished(left) = {}
  BY <1>1 DEF CheckAndMark, TypeOK
<1>2. CASE Finished(left) # {}
  <2>1. PICK s \in Finished(left) : state' = [state EXCEPT ![s] = "Completed"]
    BY <1>2 DEF CheckAndMark
  <2> QED BY <2>1 DEF TypeOK, States
<1> QED BY <1>1, <1>2

(* What the accounting of PID a does to the books of each subscription.    *)
LEMMA AccountGives ==
  ASSUME TypeOK, NEW a \in Pid, Account(a)
  PROVE  /\ state' \in [Sub -> States]
         /\ pids' \in [Sub -> SUBSET Pid]
         /\ runs' \in [Sub -> [Pid -> 0 .. MaxRuns]] /\ execs' \in [Sub -> [Pid -> Nat]]
         /\ registry' \in [Pid -> SUBSET Sub]
         /\ controllers' \in [Pid -> Controller \cup {NoController}]
         /\ behind' \subseteq Pid
<1> DEFINE charged == Active \cap Holders(a)
           spent   == {s \in charged : LastRun(s, a)}
           left    == [s \in Sub |-> IF s \in spent THEN pids[s] \ {a} ELSE pids[s]]
<1>1. state' \in [Sub -> States]
  BY CheckType DEF Account
<1>2. pids' \in [Sub -> SUBSET Pid]
  BY DEF Account, TypeOK
<1>3. runs' \in [Sub -> [Pid -> 0 .. MaxRuns]]
  <2>1. \A s \in Sub : [runs[s] EXCEPT ![a] = 0] \in [Pid -> 0 .. MaxRuns]
    BY SubscriptionsAssumption DEF TypeOK
  <2>2. runs' = [s \in Sub |-> IF s \in spent THEN [runs[s] EXCEPT ![a] = 0] ELSE runs[s]]
    BY DEF Account
  <2> HIDE DEF spent
  <2> QED BY <2>1, <2>2 DEF TypeOK
<1>4. execs' \in [Sub -> [Pid -> Nat]]
  <2>1. \A s \in Sub : /\ [execs[s] EXCEPT ![a] = 0] \in [Pid -> Nat]
                       /\ [execs[s] EXCEPT ![a] = @ + 1] \in [Pid -> Nat]
    BY DEF TypeOK
  <2>2. execs' = [s \in Sub |-> IF s \in spent THEN [execs[s] EXCEPT ![a] = 0]
                                ELSE IF s \in charged /\ runs[s][a] > 0
                                THEN [execs[s] EXCEPT ![a] = @ + 1] ELSE execs[s]]
    BY DEF Account
  <2> HIDE DEF spent, charged
  <2> QED BY <2>1, <2>2 DEF TypeOK
<1>5. /\ registry' \in [Pid -> SUBSET Sub]
      /\ controllers' \in [Pid -> Controller \cup {NoController}]
  <2>1. Unregister(a, spent)
    BY DEF Account
  <2> HIDE DEF spent
  <2> QED BY <2>1 DEF Unregister, TypeOK
<1>6. behind' \subseteq Pid
  BY DEF Account, TypeOK
<1> QED BY <1>1, <1>2, <1>3, <1>4, <1>5, <1>6

LEMMA CompletedGives ==
  ASSUME TypeOK, NEW p \in Pid, NEW a \in Pid, CommandCompleted(p, a)
  PROVE  /\ Account(a)
         /\ wires' \in Seq(SUBSET Pid) /\ Len(wires') <= MaxWires
         /\ completing' \subseteq Pid
<1>1. Account(a)
  BY DEF CommandCompleted
<1>2. CASE completing # {}
  BY <1>1, <1>2 DEF CommandCompleted, TypeOK
<1>3. CASE completing = {}
  <2>1. /\ wires # <<>> /\ completing' = Head(wires) \ {p} /\ wires' = Tail(wires)
    BY <1>3 DEF CommandCompleted
  <2>2. wires \in Seq(SUBSET Pid) /\ Len(wires) <= MaxWires /\ MaxWires \in Nat
    BY SubscriptionsAssumption DEF TypeOK
  <2>3. Head(wires) \in SUBSET Pid
    BY <2>1, <2>2
  <2>4. wires' \in Seq(SUBSET Pid) /\ Len(wires') <= MaxWires
    BY <2>1, <2>2
  <2> QED BY <1>1, <2>1, <2>3, <2>4
<1> QED BY <1>2, <1>3

(* The pairs of a reported member and the PID its reply names.             *)
LEMMA SomeMember ==
  ASSUME Completion PROVE \E p \in Pid : \E a \in Pid : CommandCompleted(p, a)
<1>1. CASE "mismatch" \in Ops
  BY <1>1 DEF Completion
<1>2. CASE "mismatch" \notin Ops
  BY <1>2 DEF Completion
<1> QED BY <1>1, <1>2

LEMMA NextType == ASSUME TypeOK, Next PROVE TypeOK'
<1>1. ASSUME NEW s \in Sub, NEW ps \in (SUBSET Pid) \ {{}}, NEW counts \in [ps -> 0 .. MaxRuns],
             NEW c \in Controller \cup {NoController}, AddPids(s, ps, counts, c)
      PROVE  TypeOK'
  BY <1>1, AddType
<1>2. ASSUME Completion PROVE TypeOK'
  <2>1. PICK p \in Pid, a \in Pid : CommandCompleted(p, a)
    BY <1>2, SomeMember
  <2>2. UNCHANGED <<host_paused, once, tiers, streamed, ticks, acquired, calls>>
        /\ in_flight' = in_flight \ {p}
    BY <2>1 DEF CommandCompleted
  <2> QED BY <2>1, <2>2, CompletedGives, AccountGives DEF TypeOK
<1>3. ASSUME OtherCompleted PROVE TypeOK'
  BY <1>3, CheckType DEF OtherCompleted, TypeOK, regVars, schedVars
<1> QED BY <1>1, <1>2, <1>3, CallType, PickType DEF Next

-----------------------------------------------------------------------------
(* What the host paused is not active.                                     *)
LEMMA CheckPauses ==
  ASSUME TypeOK, NEW left, CheckAndMark(left), UNCHANGED host_paused, HostPauseHolds
  PROVE  HostPauseHolds'
<1>1. CASE Finished(left) = {}
  BY <1>1 DEF CheckAndMark, HostPauseHolds
<1>2. CASE Finished(left) # {}
  <2>1. PICK s \in Finished(left) : state' = [state EXCEPT ![s] = "Completed"]
    BY <1>2 DEF CheckAndMark
  <2> QED BY <2>1 DEF TypeOK, HostPauseHolds
<1> QED BY <1>1, <1>2

LEMMA NextPauses == ASSUME TypeOK, HostPauseHolds, Next PROVE HostPauseHolds'
<1> USE DEF TypeOK, HostPauseHolds
<1>1. ASSUME NEW s \in Sub, Create(s) PROVE HostPauseHolds'
  BY <1>1 DEF Create
<1>2. ASSUME NEW s \in Sub, Start(s) PROVE HostPauseHolds'
  BY <1>2 DEF Start
<1>3. ASSUME NEW s \in Sub, Pause(s) PROVE HostPauseHolds'
  BY <1>3 DEF Pause
<1>4. ASSUME NEW s \in Sub, Cancel(s) PROVE HostPauseHolds'
  BY <1>4 DEF Cancel
<1>5. ASSUME NEW s \in Sub, NEW ps, NEW counts, NEW c, AddPids(s, ps, counts, c)
      PROVE  HostPauseHolds'
  BY <1>5 DEF AddPids
<1>6. ASSUME NEW s \in Sub, NEW p \in Pid, RemovePids(s, p) PROVE HostPauseHolds'
  BY <1>6 DEF RemovePids
<1>7. ASSUME NEW s \in Sub, NEW p \in Pid, NEW t \in Tier, SetPidTiers(s, p, t)
      PROVE  HostPauseHolds'
  BY <1>7 DEF SetPidTiers
<1>8. ASSUME PauseAllActive PROVE HostPauseHolds'
  BY <1>8 DEF PauseAllActive
<1>9. ASSUME ResumeMany PROVE HostPauseHolds'
  BY <1>9 DEF ResumeMany
<1>10. ASSUME NEW ps, SetStreamedPids(ps) PROVE HostPauseHolds'
  BY <1>10 DEF SetStreamedPids, subVars
<1>11. ASSUME ClearInFlight PROVE HostPauseHolds'
  BY <1>11 DEF ClearInFlight, subVars
<1>12. ASSUME GetNextCommands PROVE HostPauseHolds'
  BY <1>12 DEF GetNextCommands, subVars
<1>13. ASSUME Completion PROVE HostPauseHolds'
  BY <1>13, SomeMember, CheckPauses DEF CommandCompleted, Account
<1>14. ASSUME OtherCompleted PROVE HostPauseHolds'
  BY <1>14, CheckPauses DEF OtherCompleted
<1> QED BY <1>1, <1>2, <1>3, <1>4, <1>5, <1>6, <1>7, <1>8, <1>9, <1>10, <1>11, <1>12,
           <1>13, <1>14 DEF Next

-----------------------------------------------------------------------------
(* The books: the registry and the run counts.                             *)
LEMMA UnregisterExact ==
  ASSUME TypeOK, RegistryExact, NEW p \in Pid, NEW gone \in SUBSET Sub, Unregister(p, gone),
         NEW q \in Pid
  PROVE  /\ registry'[q] = IF q = p THEN Holders(q) \ gone ELSE Holders(q)
         /\ registry'[q] = {} => controllers'[q] = NoController
<1>1. /\ registry' = [registry EXCEPT ![p] = @ \ gone]
      /\ controllers' = [controllers EXCEPT
                           ![p] = IF registry[p] \subseteq gone THEN NoController ELSE @]
  BY DEF Unregister
<1>2. registry[q] = Holders(q) /\ (registry[q] = {} => controllers[q] = NoController)
  BY DEF RegistryExact
<1>3. CASE q = p
  BY <1>1, <1>2, <1>3 DEF TypeOK
<1>4. CASE q # p
  BY <1>1, <1>2, <1>4 DEF TypeOK
<1> QED BY <1>3, <1>4

LEMMA AccountBooks ==
  ASSUME TypeOK, BooksKept, NEW a \in Pid, Account(a) PROVE BooksKept'
<1> DEFINE charged == Active \cap Holders(a)
           spent   == {s \in charged : LastRun(s, a)}
<1>1. pids' = [s \in Sub |-> IF s \in spent THEN pids[s] \ {a} ELSE pids[s]]
  BY DEF Account
<1>2. execs' = [s \in Sub |-> IF s \in spent THEN [execs[s] EXCEPT ![a] = 0]
                              ELSE IF s \in charged /\ runs[s][a] > 0
                              THEN [execs[s] EXCEPT ![a] = @ + 1] ELSE execs[s]]
  BY DEF Account
<1>3. runs' = [s \in Sub |-> IF s \in spent THEN [runs[s] EXCEPT ![a] = 0] ELSE runs[s]]
  BY DEF Account
<1>4. Unregister(a, spent) /\ spent \in SUBSET Sub
  BY DEF Account, Active
<1>5. \A s \in charged \ spent : runs[s][a] > 0 => execs[s][a] + 1 < runs[s][a]
  <2> SUFFICES ASSUME NEW s \in charged \ spent, runs[s][a] > 0
               PROVE  execs[s][a] + 1 < runs[s][a]
    OBVIOUS
  <2>1. s \in Sub /\ ~(execs[s][a] + 1 >= runs[s][a])
    BY DEF LastRun, Active
  <2>2. runs[s][a] \in Nat /\ execs[s][a] \in Nat
    BY <2>1, SubscriptionsAssumption DEF TypeOK
  <2> QED BY <2>1, <2>2
<1> HIDE DEF spent, charged
<1>6. RegistryExact'
  <2> SUFFICES ASSUME NEW q \in Pid
               PROVE  /\ registry'[q] = Holders(q)'
                      /\ registry'[q] = {} => controllers'[q] = NoController
    BY DEF RegistryExact
  <2>1. Holders(q)' = IF q = a THEN Holders(q) \ spent ELSE Holders(q)
    BY <1>1 DEF Holders, TypeOK
  <2> QED BY <1>4, <2>1, UnregisterExact DEF BooksKept
<1>7. RunsBounded'
  <2> SUFFICES ASSUME NEW s \in Sub, NEW q \in pids'[s], runs'[s][q] > 0
               PROVE  execs'[s][q] < runs'[s][q]
    BY DEF RunsBounded
  <2>1. q \in pids[s] /\ q \in Pid
    BY <1>1 DEF TypeOK
  <2>2. runs[s] \in [Pid -> 0 .. MaxRuns] /\ execs[s] \in [Pid -> Nat]
    BY DEF TypeOK
  <2>3. runs[s][q] > 0 => execs[s][q] < runs[s][q]
    BY <2>1 DEF BooksKept, RunsBounded
  <2>4. CASE s \in spent
    <3>1. q # a
      BY <1>1, <2>4
    <3> QED BY <1>2, <1>3, <2>1, <2>2, <2>3, <2>4, <3>1
  <2>5. CASE s \notin spent
    <3>1. runs'[s] = runs[s]
      BY <1>3, <2>5
    <3>2. CASE s \in charged /\ runs[s][a] > 0
      <4>1. execs'[s] = [execs[s] EXCEPT ![a] = @ + 1]
        BY <1>2, <2>5, <3>2
      <4>2. CASE q = a
        BY <1>5, <2>2, <2>5, <3>1, <3>2, <4>1, <4>2
      <4>3. CASE q # a
        BY <2>1, <2>2, <2>3, <3>1, <4>1, <4>3
      <4> QED BY <4>2, <4>3
    <3>3. CASE ~(s \in charged /\ runs[s][a] > 0)
      BY <1>2, <2>3, <2>5, <3>1, <3>3
    <3> QED BY <3>2, <3>3
  <2> QED BY <2>4, <2>5
<1> QED BY <1>6, <1>7 DEF BooksKept

LEMMA AddBooks ==
  ASSUME TypeOK, BooksKept, NEW s \in Sub, NEW ps \in SUBSET Pid,
         NEW counts \in [ps -> 0 .. MaxRuns],
         NEW c \in Controller \cup {NoController}, AddPids(s, ps, counts, c)
  PROVE  BooksKept'
<1>1. pids' = [pids EXCEPT ![s] = @ \cup ps]
  BY DEF AddPids
<1>2. RegistryExact'
  <2> SUFFICES ASSUME NEW q \in Pid
               PROVE  /\ registry'[q] = Holders(q)'
                      /\ registry'[q] = {} => controllers'[q] = NoController
    BY DEF RegistryExact
  <2>1. registry[q] = Holders(q) /\ (registry[q] = {} => controllers[q] = NoController)
    BY DEF BooksKept, RegistryExact
  <2>2. /\ registry'[q] = IF q \in ps THEN registry[q] \cup {s} ELSE registry[q]
        /\ controllers'[q] = IF q \in ps /\ c # NoController THEN c ELSE controllers[q]
    BY DEF AddPids, Register
  <2>3. Holders(q)' = IF q \in ps THEN Holders(q) \cup {s} ELSE Holders(q)
    BY <1>1 DEF Holders, TypeOK
  <2> QED BY <2>1, <2>2, <2>3
<1>3. RunsBounded'
  <2> SUFFICES ASSUME NEW d \in Sub, NEW q \in pids'[d], runs'[d][q] > 0
               PROVE  execs'[d][q] < runs'[d][q]
    BY DEF RunsBounded
  <2>1. /\ runs' = [runs EXCEPT ![s] = [p \in Pid |-> IF p \in ps THEN counts[p] ELSE @[p]]]
        /\ execs' = [execs EXCEPT ![s] = [p \in Pid |-> IF p \in ps THEN 0 ELSE @[p]]]
    BY DEF AddPids
  <2>2. q \in Pid /\ (q \in pids[d] \/ (d = s /\ q \in ps))
    BY <1>1 DEF TypeOK
  <2>3. q \in pids[d] /\ runs[d][q] > 0 => execs[d][q] < runs[d][q]
    BY DEF BooksKept, RunsBounded
  <2>4. CASE d = s /\ q \in ps
    <3>1. execs'[d][q] = 0
      BY <2>1, <2>2, <2>4 DEF TypeOK
    <3>2. runs'[d][q] = counts[q] /\ counts[q] \in 0 .. MaxRuns
      BY <2>1, <2>2, <2>4 DEF TypeOK
    <3> QED BY <3>1, <3>2, SubscriptionsAssumption
  <2>5. CASE ~(d = s /\ q \in ps)
    <3>1. runs'[d][q] = runs[d][q] /\ execs'[d][q] = execs[d][q]
      BY <2>1, <2>2, <2>5 DEF TypeOK
    <3> QED BY <2>2, <2>3, <2>5, <3>1
  <2> QED BY <2>4, <2>5
<1> QED BY <1>2, <1>3 DEF BooksKept

LEMMA Unread ==
  ASSUME BooksKept, UNCHANGED <<pids, runs, execs, regVars>> PROVE BooksKept'
  BY DEF BooksKept, RegistryExact, RunsBounded, Holders, regVars

LEMMA RemoveBooks ==
  ASSUME TypeOK, BooksKept, NEW s \in Sub, NEW p \in Pid, RemovePids(s, p) PROVE BooksKept'
<1>1. pids' = [pids EXCEPT ![s] = @ \ {p}] /\ Unregister(p, {s}) /\ UNCHANGED <<runs, execs>>
  BY DEF RemovePids
<1>2. ASSUME NEW q \in Pid
      PROVE  /\ registry'[q] = Holders(q)'
             /\ registry'[q] = {} => controllers'[q] = NoController
  <2>1. Holders(q)' = IF q = p THEN Holders(q) \ {s} ELSE Holders(q)
    BY <1>1 DEF Holders, TypeOK
  <2>2. {s} \in SUBSET Sub
    OBVIOUS
  <2> QED BY <1>1, <2>1, <2>2, UnregisterExact DEF BooksKept
<1>3. RunsBounded'
  BY <1>1 DEF BooksKept, RunsBounded, TypeOK
<1> QED BY <1>2, <1>3 DEF BooksKept, RegistryExact

LEMMA CancelBooks ==
  ASSUME TypeOK, BooksKept, NEW s \in Sub, Cancel(s) PROVE BooksKept'
<1>1. /\ pids' = [pids EXCEPT ![s] = {}] /\ UNCHANGED <<runs, execs>>
      /\ registry' = [p \in Pid |-> registry[p] \ {s}]
      /\ controllers' = [p \in Pid |-> IF registry[p] = {s} THEN NoController
                                       ELSE controllers[p]]
  BY DEF Cancel
<1>2. ASSUME NEW q \in Pid
      PROVE  /\ registry'[q] = Holders(q)'
             /\ registry'[q] = {} => controllers'[q] = NoController
  <2>1. registry[q] = Holders(q) /\ (registry[q] = {} => controllers[q] = NoController)
    BY DEF BooksKept, RegistryExact
  <2>2. Holders(q)' = Holders(q) \ {s}
    BY <1>1 DEF Holders, TypeOK
  <2> QED BY <1>1, <2>1, <2>2
<1>3. RunsBounded'
  BY <1>1 DEF BooksKept, RunsBounded, TypeOK
<1> QED BY <1>2, <1>3 DEF BooksKept, RegistryExact

LEMMA NextBooks == ASSUME TypeOK, BooksKept, Next PROVE BooksKept'
<1>1. ASSUME NEW s \in Sub, Create(s) \/ Start(s) \/ Pause(s) PROVE BooksKept'
  BY <1>1, Unread DEF Create, Start, Pause
<1>2. ASSUME NEW s \in Sub, Cancel(s) PROVE BooksKept'
  BY <1>2, CancelBooks
<1>3. ASSUME NEW s \in Sub, NEW ps \in (SUBSET Pid) \ {{}}, NEW counts \in [ps -> 0 .. MaxRuns],
             NEW c \in Controller \cup {NoController}, AddPids(s, ps, counts, c)
      PROVE  BooksKept'
  BY <1>3, AddBooks
<1>4. ASSUME NEW s \in Sub, NEW p \in Pid, RemovePids(s, p) PROVE BooksKept'
  BY <1>4, RemoveBooks
<1>5. ASSUME NEW s \in Sub, NEW p \in Pid, NEW t \in Tier, SetPidTiers(s, p, t)
      PROVE  BooksKept'
  BY <1>5, Unread DEF SetPidTiers
<1>6. ASSUME PauseAllActive \/ ResumeMany PROVE BooksKept'
  BY <1>6, Unread DEF PauseAllActive, ResumeMany
<1>7. ASSUME NEW ps, SetStreamedPids(ps) PROVE BooksKept'
  BY <1>7, Unread DEF SetStreamedPids, subVars
<1>8. ASSUME ClearInFlight \/ GetNextCommands PROVE BooksKept'
  BY <1>8, Unread DEF ClearInFlight, GetNextCommands, subVars
<1>9. ASSUME Completion PROVE BooksKept'
  BY <1>9, SomeMember, CompletedGives, AccountBooks
<1>10. ASSUME OtherCompleted PROVE BooksKept'
  BY <1>10, Unread DEF OtherCompleted
<1> QED BY <1>1, <1>2, <1>3, <1>4, <1>5, <1>6, <1>7, <1>8, <1>9, <1>10 DEF Next

-----------------------------------------------------------------------------
(* The schedule.                                                           *)
LEMMA Elsewhere ==
  ASSUME TierSpread, UNCHANGED ticks, Held' \subseteq Held,
         \A q \in Held' : q \in behind => q \in behind'
  PROVE  TierSpread'
  BY DEF TierSpread

(* Only held PIDs leave the books, and those left behind with them.        *)
LEMMA ShrinkSpread ==
  ASSUME TypeOK, TierSpread, UNCHANGED ticks, NEW p \in Pid, NEW gone \in SUBSET Holders(p),
         pids' = [s \in Sub |-> IF s \in gone THEN pids[s] \ {p} ELSE pids[s]],
         behind' = IF Holders(p) = gone THEN behind \ {p} ELSE behind
  PROVE  TierSpread'
<1>1. Held' \subseteq Held
  BY DEF Held
<1>2. Holders(p) = gone => p \notin Held'
  BY DEF Held, Holders
<1> QED BY <1>1, <1>2, Elsewhere

LEMMA CancelSpread ==
  ASSUME TypeOK, TierSpread, NEW s \in Sub, Cancel(s) PROVE TierSpread'
<1>1. pids' = [pids EXCEPT ![s] = {}] /\ UNCHANGED ticks
      /\ behind' = {p \in behind : Holders(p) # {s}}
  BY DEF Cancel, schedVars
<1>2. Held' \subseteq Held
  BY <1>1 DEF Held, TypeOK
<1>3. \A q \in Held' : Holders(q) # {s}
  BY <1>1 DEF Held, Holders, TypeOK
<1> QED BY <1>1, <1>2, <1>3, Elsewhere

LEMMA AddSpread ==
  ASSUME TypeOK, TierSpread, NEW s \in Sub, NEW ps \in SUBSET Pid, NEW counts, NEW c,
         AddPids(s, ps, counts, c)
  PROVE  TierSpread'
<1> DEFINE seeded == [p \in Pid |-> IF p \in ps THEN SeedTick ELSE ticks[p]]
<1>1. /\ ticks' = seeded /\ pids' = [pids EXCEPT ![s] = @ \cup ps]
      /\ behind' = (behind \ ps) \cup Lagging(ps, Held \cup ps, seeded)
  BY DEF AddPids
<1>2. Held' = Held \cup ps /\ Held' \subseteq Pid
  BY <1>1 DEF Held, TypeOK
<1> SUFFICES ASSUME NEW p \in Held', NEW q \in Held' \ behind'
             PROVE  ticks'[p] <= ticks'[q] + Largest
  BY DEF TierSpread
<1>3. CASE Held = {}
  <2>1. p \in ps /\ q \in ps /\ SeedTick = 0
    BY <1>2, <1>3 DEF SeedTick
  <2> QED BY <1>1, <1>2, <2>1, LargestTier
<1>4. CASE Held # {}
  <2>1. {ticks[r] : r \in Held} \in SUBSET Nat /\ {ticks[r] : r \in Held} # {}
    BY <1>4 DEF TypeOK, Held
  <2>2. SeedTick \in Nat /\ \A r \in Held : SeedTick <= ticks[r]
    BY <1>4, <2>1, LeastTick DEF SeedTick
  <2>3. ticks'[p] \in Nat /\ ticks'[q] \in Nat /\ Largest \in Nat
    BY <1>1, <1>2, <2>2, LargestTier DEF TypeOK
  <2>4. CASE q \in ps
    <3>1. q \notin Lagging(ps, Held \cup ps, seeded)
      BY <1>1
    <3>2. ~(seeded[p] > seeded[q] + Largest)
      BY <1>2, <2>4, <3>1 DEF Lagging
    <3> QED BY <1>1, <2>3, <3>2
  <2>5. CASE q \notin ps
    <3>1. q \in Held \ behind /\ ticks'[q] = ticks[q]
      BY <1>1, <1>2, <2>5
    <3>2. CASE p \in ps
      <4>1. ticks'[p] = SeedTick
        BY <1>1, <1>2, <3>2
      <4> QED BY <2>2, <2>3, <3>1, <4>1
    <3>3. CASE p \notin ps
      BY <1>1, <1>2, <3>1, <3>3 DEF TierSpread
    <3> QED BY <3>2, <3>3
  <2> QED BY <2>4, <2>5
<1> QED BY <1>3, <1>4

LEMMA PickSpread ==
  ASSUME TypeOK, TierSpread, GetNextCommands PROVE TierSpread'
<1>1. PICK ps \in SUBSET Eligible :
        /\ \A p \in ps : ticks[p] = Sweep
        /\ \A p \in Pid \ ps : ticks'[p] = ticks[p]
        /\ \A p \in ps : \E t \in Tier : ticks'[p] = ticks[p] + t
        /\ ticks' \in [Pid -> Nat]
  BY PickGives
<1>2. behind' = Lagging(behind \cup (Held \ Eligible), Held, ticks') /\ UNCHANGED pids
  BY DEF GetNextCommands, subVars
<1>3. Held' = Held /\ Held \subseteq Pid
  BY <1>2 DEF Held, TypeOK
<1>4. \A r \in Eligible : Sweep <= ticks[r] /\ Sweep \in Nat
  <2>1. {ticks[r] : r \in Eligible} \in SUBSET Nat
    BY DEF Eligible, TypeOK
  <2> QED BY <2>1, LeastTick DEF Sweep
<1> SUFFICES ASSUME NEW p \in Held, NEW q \in Held \ behind'
             PROVE  ticks'[p] <= ticks'[q] + Largest
  BY <1>3 DEF TierSpread
<1>5. /\ ticks[p] \in Nat /\ ticks[q] \in Nat /\ Largest \in Nat
      /\ ticks'[p] \in Nat /\ ticks'[q] \in Nat
  BY <1>1, <1>3, LargestTier DEF TypeOK
<1>6. CASE q \in behind \cup (Held \ Eligible)
  <2>1. ~(ticks'[p] > ticks'[q] + Largest)
    BY <1>2, <1>6 DEF Lagging
  <2> QED BY <1>5, <2>1
<1>7. CASE q \in Eligible \ behind
  <2>1. ticks'[q] >= ticks[q]
    <3>1. CASE q \in ps
      <4>1. PICK t \in Tier : ticks'[q] = ticks[q] + t
        BY <1>1, <3>1
      <4>2. t \in Nat
        BY LargestTier
      <4> QED BY <1>5, <4>1, <4>2
    <3>2. CASE q \notin ps
      BY <1>1, <1>3, <1>5, <3>2
    <3> QED BY <3>1, <3>2
  <2>2. CASE p \in ps
    <3>1. PICK t \in Tier : ticks'[p] = Sweep + t
      BY <1>1, <2>2
    <3>2. t \in Nat /\ t <= Largest
      BY LargestTier
    <3>3. Sweep <= ticks[q] /\ Sweep \in Nat
      BY <1>4, <1>7
    <3> QED BY <1>5, <2>1, <3>1, <3>2, <3>3
  <2>3. CASE p \notin ps
    <3>1. ticks'[p] = ticks[p]
      BY <1>1, <1>3, <2>3
    <3>2. ticks[p] <= ticks[q] + Largest
      BY <1>7 DEF TierSpread
    <3> QED BY <1>5, <2>1, <3>1, <3>2
  <2> QED BY <2>2, <2>3
<1> QED BY <1>6, <1>7

LEMMA NextSpread == ASSUME TypeOK, TierSpread, Next PROVE TierSpread'
<1>0. ASSUME UNCHANGED <<pids, ticks, behind>> PROVE TierSpread'
  BY <1>0 DEF TierSpread, Held
<1>1. ASSUME NEW s \in Sub, Create(s) \/ Start(s) \/ Pause(s) PROVE TierSpread'
  BY <1>0, <1>1 DEF Create, Start, Pause, schedVars
<1>2. ASSUME NEW s \in Sub, Cancel(s) PROVE TierSpread'
  BY <1>2, CancelSpread
<1>3. ASSUME NEW s \in Sub, NEW ps \in (SUBSET Pid) \ {{}}, NEW counts \in [ps -> 0 .. MaxRuns],
             NEW c \in Controller \cup {NoController}, AddPids(s, ps, counts, c)
      PROVE  TierSpread'
  BY <1>3, AddSpread
<1>4. ASSUME NEW s \in Sub, NEW p \in Pid, RemovePids(s, p) PROVE TierSpread'
  <2>1. /\ {s} \in SUBSET Holders(p) /\ UNCHANGED ticks
        /\ behind' = IF Holders(p) = {s} THEN behind \ {p} ELSE behind
    BY <1>4 DEF RemovePids, Holders, schedVars
  <2>2. pids' = [d \in Sub |-> IF d \in {s} THEN pids[d] \ {p} ELSE pids[d]]
    BY <1>4 DEF RemovePids, TypeOK
  <2> QED BY <2>1, <2>2, ShrinkSpread
<1>5. ASSUME NEW s \in Sub, NEW p \in Pid, NEW t \in Tier, SetPidTiers(s, p, t)
      PROVE  TierSpread'
  BY <1>0, <1>5 DEF SetPidTiers, schedVars
<1>6. ASSUME PauseAllActive \/ ResumeMany PROVE TierSpread'
  BY <1>0, <1>6 DEF PauseAllActive, ResumeMany, schedVars
<1>7. ASSUME NEW ps, SetStreamedPids(ps) PROVE TierSpread'
  BY <1>0, <1>7 DEF SetStreamedPids, subVars
<1>8. ASSUME ClearInFlight PROVE TierSpread'
  BY <1>0, <1>8 DEF ClearInFlight, subVars
<1>9. ASSUME Completion PROVE TierSpread'
  <2>1. PICK p \in Pid, a \in Pid : CommandCompleted(p, a)
    BY <1>9, SomeMember
  <2> DEFINE spent == {s \in Active \cap Holders(a) : LastRun(s, a)}
  <2>2. /\ pids' = [s \in Sub |-> IF s \in spent THEN pids[s] \ {a} ELSE pids[s]]
        /\ behind' = IF Holders(a) = spent THEN behind \ {a} ELSE behind
        /\ UNCHANGED ticks
    BY <2>1 DEF CommandCompleted, Account
  <2>3. spent \in SUBSET Holders(a)
    OBVIOUS
  <2> HIDE DEF spent
  <2> QED BY <2>2, <2>3, ShrinkSpread
<1>10. ASSUME OtherCompleted PROVE TierSpread'
  BY <1>0, <1>10 DEF OtherCompleted, schedVars
<1> QED BY <1>1, <1>2, <1>3, <1>4, <1>5, <1>6, <1>7, <1>8, <1>9, <1>10, PickSpread DEF Next

-----------------------------------------------------------------------------
Inv == TypeOK /\ HostPauseHolds /\ BooksKept /\ TierSpread

LEMMA InitInv == Init => Inv
<1>1. Init => HostPauseHolds
  BY DEF Init, HostPauseHolds
<1>2. Init => BooksKept
  BY DEF Init, BooksKept, RegistryExact, RunsBounded, Holders
<1>3. Init => TierSpread
  BY DEF Init, TierSpread, Held
<1> QED BY <1>1, <1>2, <1>3, InitType DEF Inv

LEMMA StepInv == Inv /\ [Next]_vars => Inv'
<1> SUFFICES ASSUME Inv, [Next]_vars PROVE Inv'
  OBVIOUS
<1>1. CASE UNCHANGED vars
  <2>1. TypeOK'
    BY <1>1 DEF Inv, vars, subVars, regVars, schedVars, TypeOK
  <2>2. HostPauseHolds'
    BY <1>1 DEF Inv, vars, subVars, HostPauseHolds
  <2>3. BooksKept'
    BY <1>1, Unread DEF Inv, vars, subVars
  <2>4. TierSpread'
    BY <1>1 DEF Inv, vars, subVars, schedVars, TierSpread, Held
  <2> QED BY <2>1, <2>2, <2>3, <2>4 DEF Inv
<1>2. CASE Next
  BY <1>2, NextType, NextPauses, NextBooks, NextSpread DEF Inv
<1> QED BY <1>1, <1>2

(* "resume_many must NOT resurrect a host-paused subscription", whatever   *)
(* the host and the acquisitions call, in any order.                       *)
THEOREM PausesHold == Spec => []HostPauseHolds
<1>1. Inv => HostPauseHolds
  BY DEF Inv
<1> QED BY <1>1, InitInv, StepInv, PTL DEF Spec

(* The registry and the subscriptions agree, and no PID is polled more     *)
(* often than its run count says.                                          *)
THEOREM BooksAgree == Spec => []BooksKept
<1>1. Inv => BooksKept
  BY DEF Inv
<1> QED BY <1>1, InitInv, StepInv, PTL DEF Spec

(* The tier ratios hold: no two PIDs that are polled run apart by more     *)
(* than a step of the slowest tier.                                        *)
THEOREM RatiosHold == Spec => [](TypeOK /\ TierSpread)
<1>1. Inv => TypeOK /\ TierSpread
  BY DEF Inv
<1> QED BY <1>1, InitInv, StepInv, PTL DEF Spec

-----------------------------------------------------------------------------
(***************************************************************************)
(* A live stream: whoever breaks the monitor to stop it has the adapter to *)
(* itself afterwards.                                                      *)
(***************************************************************************)
(* The beat thread is told before the worker goes for the adapter, and     *)
(* monitor_active never disagrees with the adapter: the worker that sees   *)
(* it off need not break.                                                  *)
Told == stop # "idle" => loopStop
FlagTrue == monitorActive = (adapter = "monitor")
BeatShape == /\ adapter \in {"prompt", "monitor"} /\ monitorActive \in BOOLEAN
         /\ lateArm \in BOOLEAN /\ loopStop \in BOOLEAN
         /\ stop \in {"idle", "break", "tear", "done"}

BeatInv == BeatShape /\ Told /\ FlagTrue /\ StopOwns

-----------------------------------------------------------------------------
LEMMA BeatStart == StreamInit => BeatInv
  BY DEF StreamInit, BeatInv, BeatShape, Told, FlagTrue, StopOwns

(* What the proof looks at, left alone.                                    *)
LEMMA Untouched ==
  ASSUME BeatInv, UNCHANGED <<adapter, monitorActive, lateArm, loopStop, stop>>
  PROVE  BeatInv'
  BY DEF BeatInv, BeatShape, Told, FlagTrue, StopOwns

LEMMA SetupKept ==
  ASSUME BeatInv, SetupAcked \/ SetupRefused \/ SetupStarts
  PROVE  BeatInv'
<1>1. CASE SetupAcked
  BY <1>1, Untouched DEF SetupAcked, flagVars, historyVars
<1>2. CASE SetupRefused
  BY <1>2, Untouched DEF SetupRefused, flagVars
<1>3. CASE SetupStarts
  BY <1>3, Untouched DEF SetupStarts, flagVars, historyVars
<1> QED BY <1>1, <1>2, <1>3

LEMMA HostKept ==
  ASSUME BeatInv, NEW p \in Pids, StreamAdds(p) \/ StreamRemoves(p) PROVE BeatInv'
<1>1. CASE StreamAdds(p)
  BY <1>1, Untouched DEF StreamAdds, wireVars, flagVars, historyVars
<1>2. CASE StreamRemoves(p)
  BY <1>2, Untouched DEF StreamRemoves, wireVars, flagVars, historyVars
<1> QED BY <1>1, <1>2

LEMMA SignalKept ==
  ASSUME BeatInv, NEW p \in Pids, BeatProbes(p) \/ BeatRefuses(p) \/ BeatDefines(p)
  PROVE  BeatInv'
<1>1. CASE BeatProbes(p)
  BY <1>1, Untouched DEF BeatProbes, wireVars, flagVars, historyVars
<1>2. CASE BeatRefuses(p)
  BY <1>2, Untouched DEF BeatRefuses, wireVars, flagVars, historyVars
<1>3. CASE BeatDefines(p)
  BY <1>3, Untouched DEF BeatDefines, flagVars
<1> QED BY <1>1, <1>2, <1>3

(* The beat enters the monitor twice: when it arms, which lateArm tells    *)
(* apart, and when it re-arms, which it does only before the stop begins.  *)
LEMMA BeatKept == ASSUME BeatInv, BeatStep PROVE BeatInv'
<1>1. CASE BeatArms
  BY <1>1 DEF BeatArms, BeatInv, BeatShape, Told, FlagTrue, StopOwns
<1>2. CASE BeatWaits
  BY <1>2, Untouched DEF BeatWaits, wireVars, historyVars
<1>3. CASE BeatBreaks
  BY <1>3 DEF BeatBreaks, historyVars, BeatInv, BeatShape, Told, FlagTrue, StopOwns
<1>4. CASE BeatTakesSignals
  BY <1>4, Untouched DEF BeatTakesSignals, wireVars, flagVars, historyVars
<1>5. CASE BeatQuiets
  BY <1>5, Untouched DEF BeatQuiets, flagVars, historyVars
<1>6. CASE BeatRestarts
  BY <1>6, Untouched DEF BeatRestarts, flagVars, historyVars
<1>7. CASE BeatRearms
  <2>1. CASE loopStop
    BY <1>7, <2>1, Untouched DEF BeatRearms, historyVars
  <2>2. CASE ~loopStop
    <3>1. stop = "idle"
      BY <2>2 DEF BeatInv, Told
    <3> QED BY <1>7, <2>2, <3>1 DEF BeatRearms, historyVars, BeatInv, BeatShape, Told,
                                    FlagTrue,
                                    StopOwns
  <2> QED BY <2>1, <2>2
<1> QED BY <1>1, <1>2, <1>3, <1>4, <1>5, <1>6, <1>7, SignalKept DEF BeatStep

LEMMA FrameKept ==
  ASSUME BeatInv, NEW s \in Slot, EcuSends(s) \/ Decodes(s) PROVE BeatInv'
<1>1. CASE EcuSends(s)
  BY <1>1, Untouched DEF EcuSends, flagVars, historyVars
<1>2. CASE Decodes(s)
  BY <1>2, Untouched DEF Decodes, flagVars, historyVars
<1> QED BY <1>1, <1>2

LEMMA StopKept ==
  ASSUME BeatInv, StopBegins \/ StopBreaks \/ StopTears
  PROVE  BeatInv'
<1>1. CASE StopBegins
  BY <1>1 DEF StopBegins, wireVars, historyVars, BeatInv, BeatShape, Told, FlagTrue,
              StopOwns
<1>2. CASE StopBreaks
  BY <1>2 DEF StopBreaks, historyVars, BeatInv, BeatShape, Told, FlagTrue, StopOwns
<1>3. CASE StopTears
  BY <1>3 DEF StopTears, flagVars, historyVars, BeatInv, BeatShape, Told, FlagTrue,
              StopOwns
<1> QED BY <1>1, <1>2, <1>3

LEMMA BeatNext == BeatInv /\ [StreamNext]_streamVars => BeatInv'
<1> SUFFICES ASSUME BeatInv, [StreamNext]_streamVars PROVE BeatInv'
  OBVIOUS
<1>1. CASE UNCHANGED streamVars
  BY <1>1, Untouched DEF streamVars, wireVars, flagVars, historyVars
<1>2. CASE StreamNext
  BY <1>2, SetupKept, HostKept, BeatKept, FrameKept, StopKept DEF StreamNext
<1> QED BY <1>1, <1>2

(* Once the stop has broken the monitor, the adapter stays at the prompt   *)
(* for the teardown, unless the beat thread had still to arm.              *)
THEOREM AdapterOwned == StreamSpec => []StopOwns
<1>1. BeatInv => StopOwns
  BY DEF BeatInv
<1> QED BY <1>1, BeatStart, BeatNext, PTL DEF StreamSpec

-----------------------------------------------------------------------------
(***************************************************************************)
(* The decode map.  What the map of a slot is made of: the records of the  *)
(* slot stacked in the order they were defined, as build_defines lays them *)
(* out and drop_refused closes the gaps of those that were refused.        *)
(***************************************************************************)

(* What the decode map is made of; a dropped record may leave offsets that *)
(* are no places of a frame, unless the map was laid out as it should be.   *)
Signal == [pid : Pids, offset : Nat, len : Nat \ {0}]
Loose == [pid : Pids, offset : Int, len : Nat \ {0}]
Record == [slot : Slot, pid : Pids]
Sets == [fill : [Slot -> Nat], unpack : [Slot -> Seq(Loose)], records : Seq(Record)]

LEMMA SlotNat == Slot \subseteq Nat /\ SlotCount \in Nat /\ SlotBytes \in Nat
  BY ConstantsAssumption DEF Slot

LEMMA WidthNat == \A p \in Pids : Width[p] \in Nat /\ Width[p] > 0
  BY ConstantsAssumption

-----------------------------------------------------------------------------
(* drop_refused: the first of a pid's signals, and what the others become. *)
LEMMA PositionIs ==
  ASSUME NEW g \in Seq(Loose), NEW p
  PROVE  /\ Position(g, p) = 0 => \A k \in DOMAIN g : g[k].pid # p
         /\ Position(g, p) # 0 => /\ Position(g, p) \in DOMAIN g
                                  /\ g[Position(g, p)].pid = p
<1> DEFINE I == {k \in 1 .. Len(g) : g[k].pid = p}
<1>1. Position(g, p) = IF I # {} THEN Min(I) ELSE 0
  BY DEF Position, SelectInSeq
<1>2. DOMAIN g = 1 .. Len(g) /\ Len(g) \in Nat
  OBVIOUS
<1>3. CASE I = {}
  BY <1>1, <1>2, <1>3
<1>4. CASE I # {}
  <2>1. I \in SUBSET Nat
    OBVIOUS
  <2> HIDE DEF I
  <2>2. \E x \in I : \A y \in I : x <= y
    BY <1>4, <2>1, Least
  <2>3. Min(I) \in I
    BY <2>2 DEF Min
  <2>4. Min(I) \in 1 .. Len(g) /\ g[Min(I)].pid = p
    BY <2>3 DEF I
  <2> QED BY <1>1, <1>2, <1>4, <2>4
<1> QED BY <1>3, <1>4

LEMMA Removed ==
  ASSUME NEW E, NEW g \in Seq(E), NEW i \in DOMAIN g
  PROVE  /\ RemoveAt(g, i) \in Seq(E) /\ Len(RemoveAt(g, i)) = Len(g) - 1
         /\ DOMAIN RemoveAt(g, i) = 1 .. (Len(g) - 1)
         /\ \A k \in 1 .. (Len(g) - 1) : RemoveAt(g, i)[k] = IF k < i THEN g[k] ELSE g[k + 1]
<1>1. i \in Nat /\ 1 <= i /\ i <= Len(g) /\ Len(g) \in Nat /\ DOMAIN g = 1 .. Len(g)
  OBVIOUS
<1> DEFINE a == SubSeq(g, 1, i - 1)
           b == SubSeq(g, i + 1, Len(g))
<1>2. a \in Seq(E) /\ Len(a) = i - 1 /\ \A k \in 1 .. i - 1 : a[k] = g[k]
  BY <1>1
<1>3. b \in Seq(E) /\ Len(b) = Len(g) - i /\ \A k \in 1 .. Len(g) - i : b[k] = g[i + k]
  BY <1>1
<1> HIDE DEF a, b
<1>4. /\ a \o b \in Seq(E) /\ Len(a \o b) = Len(g) - 1 /\ DOMAIN (a \o b) = 1 .. (Len(g) - 1)
      /\ \A k \in 1 .. (Len(g) - 1) : (a \o b)[k] = IF k <= i - 1 THEN a[k] ELSE b[k - (i - 1)]
  <2>1. Len(a) + Len(b) = Len(g) - 1
    BY <1>1, <1>2, <1>3
  <2>2. /\ a \o b \in Seq(E) /\ Len(a \o b) = Len(a) + Len(b)
        /\ \A k \in 1 .. Len(a) + Len(b) :
             (a \o b)[k] = IF k <= Len(a) THEN a[k] ELSE b[k - Len(a)]
    BY ONLY <1>2, <1>3, ConcatProperties
  <2>3. DOMAIN (a \o b) = 1 .. Len(a \o b)
    BY <2>2
  <2> QED BY <1>2, <2>1, <2>2, <2>3
<1>5. ASSUME NEW k \in 1 .. (Len(g) - 1)
      PROVE  (a \o b)[k] = IF k < i THEN g[k] ELSE g[k + 1]
  <2>1. CASE k < i
    <3>1. k \in 1 .. i - 1 /\ k <= i - 1
      BY <1>1, <2>1
    <3> QED BY <1>2, <1>4, <2>1, <3>1
  <2>2. CASE ~(k < i)
    <3>1. k - (i - 1) \in 1 .. Len(g) - i /\ i + (k - (i - 1)) = k + 1 /\ ~(k <= i - 1)
      BY <1>1, <2>2
    <3> QED BY <1>3, <1>4, <2>2, <3>1
  <2> QED BY <2>1, <2>2
<1> QED BY <1>4, <1>5 DEF RemoveAt, a, b

LEMMA WithoutIs ==
  ASSUME NEW g \in Seq(Loose), NEW i \in DOMAIN g
  PROVE  /\ Without(g, i) \in Seq(Loose) /\ Len(Without(g, i)) = Len(g) - 1
         /\ \A k \in 1 .. (Len(g) - 1) :
              LET r == IF k < i THEN g[k] ELSE g[k + 1]
              IN  /\ Without(g, i)[k].pid = r.pid /\ Without(g, i)[k].len = r.len
                  /\ Without(g, i)[k].offset = IF r.offset > g[i].offset
                                                 THEN r.offset - g[i].len ELSE r.offset
<1> DEFINE kept == RemoveAt(g, i)
           Closed(r) == IF r.offset > g[i].offset
                          THEN [r EXCEPT !.offset = @ - g[i].len] ELSE r
<1>1. /\ kept \in Seq(Loose) /\ Len(kept) = Len(g) - 1 /\ DOMAIN kept = 1 .. (Len(g) - 1)
      /\ \A k \in 1 .. (Len(g) - 1) : kept[k] = IF k < i THEN g[k] ELSE g[k + 1]
  BY Removed
<1>2. Without(g, i) = [k \in DOMAIN kept |-> Closed(kept[k])]
  BY DEF Without
<1> HIDE DEF kept
<1>3. g[i] \in Loose
  OBVIOUS
<1>4. \A r \in Loose : /\ Closed(r) \in Loose /\ Closed(r).pid = r.pid /\ Closed(r).len = r.len
                       /\ Closed(r).offset = IF r.offset > g[i].offset
                                               THEN r.offset - g[i].len ELSE r.offset
  <2> SUFFICES ASSUME NEW r \in Loose, r.offset > g[i].offset
               PROVE  /\ Closed(r) \in Loose /\ Closed(r).pid = r.pid /\ Closed(r).len = r.len
                      /\ Closed(r).offset = r.offset - g[i].len
    OBVIOUS
  <2>1. Closed(r) = [pid |-> r.pid, offset |-> r.offset - g[i].len, len |-> r.len]
    BY DEF Loose
  <2>2. r.offset - g[i].len \in Int
    BY <1>3 DEF Loose
  <2> QED BY <2>1, <2>2 DEF Loose
<1> HIDE DEF Closed
<1>5. \A k \in 1 .. (Len(g) - 1) : kept[k] \in Loose
  BY <1>1
<1>6. Len(g) - 1 \in Nat
  OBVIOUS
<1>7. Without(g, i) \in Seq(Loose) /\ Len(Without(g, i)) = Len(g) - 1
  BY <1>1, <1>2, <1>4, <1>5, <1>6
<1>8. \A k \in 1 .. (Len(g) - 1) : Without(g, i)[k] = Closed(kept[k])
  BY <1>1, <1>2
<1> QED BY <1>1, <1>4, <1>5, <1>7, <1>8

LEMMA DropTyped ==
  ASSUME NEW map \in [Slot -> Seq(Loose)], NEW r \in Record
  PROVE  DropRefused(map, r) \in [Slot -> Seq(Loose)]
<1>1. r.slot \in Slot /\ map[r.slot] \in Seq(Loose)
  BY DEF Record
<1>2. Position(map[r.slot], r.pid) # 0 =>
        Without(map[r.slot], Position(map[r.slot], r.pid)) \in Seq(Loose)
  BY <1>1, PositionIs, WithoutIs
<1> QED BY <1>1, <1>2 DEF DropRefused

-----------------------------------------------------------------------------
LEMMA RangeAppend ==
  ASSUME NEW E, NEW s \in Seq(E), NEW e PROVE Range(Append(s, e)) = Range(s) \cup {e}
<1> DEFINE n == Len(s)
           t == Append(s, e)
<1>1. /\ n \in Nat /\ DOMAIN s = 1 .. n /\ DOMAIN t = 1 .. n + 1 /\ t[n + 1] = e
      /\ \A i \in 1 .. n : t[i] = s[i]
  OBVIOUS
<1> HIDE DEF n, t
<1>2. 1 .. n + 1 = 1 .. n \cup {n + 1}
  BY <1>1
<1> QED BY <1>1, <1>2 DEF Range, t

(* The four folds.                                                         *)
DropStep == [x \in [Slot -> Seq(Loose)] \X Record |-> DropRefused(x[1], x[2])]

LEMMA DropFold ==
  ASSUME NEW map \in [Slot -> Seq(Loose)], NEW rs \in Seq(Record)
  PROVE  /\ FoldLeft(DropRefused, map, rs) \in [Slot -> Seq(Loose)]
         /\ IsFold(FoldLeft(DropRefused, map, rs), DropStep, map, rs)
<1> DEFINE V == [Slot -> Seq(Loose)]
           Body(h) == [s \in SUBSET DOMAIN rs |->
                         IF s = {} THEN map ELSE DropRefused(h[s \ {Max(s)}], rs[Max(s)])]
           iter == CHOOSE h : h = Body(h)
<1>1. FoldLeft(DropRefused, map, rs) = iter[DOMAIN rs]
  BY DEF FoldLeft, MapThenFoldSet
<1>2. DropStep \in [V \X Record -> V] /\ map \in V
  BY DropTyped DEF DropStep
<1> HIDE DEF V
<1>3. PICK g : Guides(g, V, Record, DropStep, map, rs)
  BY <1>2, FoldGiven
<1>4. ASSUME NEW s \in SUBSET DOMAIN rs
      PROVE  g[s] = IF s = {} THEN map ELSE DropRefused(g[s \ {Max(s)}], rs[Max(s)])
  BY <1>3 DEF DropStep, V, Guides
<1>5. g = Body(g)
  BY <1>3, <1>4 DEF Guides
<1>6. PICK h : h = Body(h) /\ FoldLeft(DropRefused, map, rs) = h[DOMAIN rs]
  BY <1>1, <1>5
<1>7. Follows(h, g, Len(rs))
  <2>1. DOMAIN rs = 1 .. Len(rs)
    OBVIOUS
  <2>2. \A s \in SUBSET DOMAIN rs :
          h[s] = IF s = {} THEN map ELSE DropRefused(h[s \ {Max(s)}], rs[Max(s)])
    BY <1>6
  <2> QED BY <1>4, <2>1, <2>2 DEF Follows
<1>8. /\ IsFold(h[DOMAIN rs], DropStep, map, rs) /\ h[DOMAIN rs] \in V
  BY <1>3, <1>7 DEF Guides
<1> QED BY <1>6, <1>8 DEF V

LEMMA DropNone ==
  ASSUME NEW map \in [Slot -> Seq(Loose)] PROVE FoldLeft(DropRefused, map, <<>>) = map
<1>1. <<>> \in Seq(Record)
  OBVIOUS
<1>2. IsFold(FoldLeft(DropRefused, map, <<>>), DropStep, map, <<>>)
  BY <1>1, DropFold
<1> QED BY <1>2, FoldNone

LEMMA DropOne ==
  ASSUME NEW map \in [Slot -> Seq(Loose)], NEW rs \in Seq(Record), NEW r \in Record
  PROVE  FoldLeft(DropRefused, map, Append(rs, r)) =
           DropRefused(FoldLeft(DropRefused, map, rs), r)
<1> DEFINE before == FoldLeft(DropRefused, map, rs)
           after == FoldLeft(DropRefused, map, Append(rs, r))
<1>1. before \in [Slot -> Seq(Loose)] /\ IsFold(before, DropStep, map, rs)
  BY DropFold
<1>2. IsFold(after, DropStep, map, Append(rs, r))
  <2>1. Append(rs, r) \in Seq(Record)
    OBVIOUS
  <2> QED BY <2>1, DropFold
<1> HIDE DEF before, after
<1>3. after = DropStep[<<before, r>>]
  BY <1>1, <1>2, FoldOne
<1>4. after = DropRefused(before, r)
  BY <1>1, <1>3 DEF DropStep
<1> QED BY <1>4 DEF before, after

LengthStep == [x \in Nat \X Loose |-> x[1] + x[2].len]
Length(g) == FoldLeft(LAMBDA n, r : n + r.len, 0, g)

LEMMA LengthFold ==
  ASSUME NEW g \in Seq(Loose)
  PROVE  Length(g) \in Nat /\ IsFold(Length(g), LengthStep, 0, g)
<1> DEFINE Body(h) == [s \in SUBSET DOMAIN g |->
                         IF s = {} THEN 0 ELSE h[s \ {Max(s)}] + g[Max(s)].len]
           iter == CHOOSE h : h = Body(h)
<1>1. Length(g) = iter[DOMAIN g]
  BY DEF Length, FoldLeft, MapThenFoldSet
<1>2. LengthStep \in [Nat \X Loose -> Nat]
  BY DEF LengthStep, Loose
<1>3. PICK f : Guides(f, Nat, Loose, LengthStep, 0, g)
  BY <1>2, FoldGiven
<1>4. ASSUME NEW s \in SUBSET DOMAIN g
      PROVE  f[s] = IF s = {} THEN 0 ELSE f[s \ {Max(s)}] + g[Max(s)].len
  BY <1>3 DEF LengthStep, Guides
<1>5. f = Body(f)
  BY <1>3, <1>4 DEF Guides
<1>6. PICK h : h = Body(h) /\ Length(g) = h[DOMAIN g]
  BY <1>1, <1>5
<1>7. Follows(h, f, Len(g))
  <2>1. DOMAIN g = 1 .. Len(g)
    OBVIOUS
  <2>2. \A s \in SUBSET DOMAIN g :
          h[s] = IF s = {} THEN 0 ELSE h[s \ {Max(s)}] + g[Max(s)].len
    BY <1>6
  <2> QED BY <1>4, <2>1, <2>2 DEF Follows
<1>8. IsFold(h[DOMAIN g], LengthStep, 0, g) /\ h[DOMAIN g] \in Nat
  BY <1>3, <1>7 DEF Guides
<1> QED BY <1>6, <1>8

RetainStep(removes) ==
  [x \in Seq(Signal) \X Signal |->
     IF x[2].pid \in removes THEN x[1] ELSE Append(x[1], x[2])]

LEMMA RetainFold ==
  ASSUME NEW g \in Seq(Signal), NEW removes
  PROVE  /\ Retain(g, removes) \in Seq(Signal)
         /\ IsFold(Retain(g, removes), RetainStep(removes), <<>>, g)
<1> DEFINE Step(kept, r) == IF r.pid \in removes THEN kept ELSE Append(kept, r)
           Body(h) == [s \in SUBSET DOMAIN g |->
                         IF s = {} THEN <<>> ELSE Step(h[s \ {Max(s)}], g[Max(s)])]
           iter == CHOOSE h : h = Body(h)
<1>1. Retain(g, removes) = iter[DOMAIN g]
  BY DEF Retain, FoldLeft, MapThenFoldSet
<1>2. RetainStep(removes) \in [Seq(Signal) \X Signal -> Seq(Signal)] /\ <<>> \in Seq(Signal)
  BY DEF RetainStep
<1>3. PICK f : Guides(f, Seq(Signal), Signal, RetainStep(removes), <<>>, g)
  BY <1>2, FoldGiven
<1>4. ASSUME NEW s \in SUBSET DOMAIN g
      PROVE  f[s] = IF s = {} THEN <<>> ELSE Step(f[s \ {Max(s)}], g[Max(s)])
  BY <1>3 DEF RetainStep, Guides
<1> HIDE DEF Step
<1>5. f = Body(f)
  BY <1>3, <1>4 DEF Guides
<1>6. PICK h : h = Body(h) /\ Retain(g, removes) = h[DOMAIN g]
  BY <1>1, <1>5
<1>7. Follows(h, f, Len(g))
  <2>1. DOMAIN g = 1 .. Len(g)
    OBVIOUS
  <2>2. \A s \in SUBSET DOMAIN g :
          h[s] = IF s = {} THEN <<>> ELSE Step(h[s \ {Max(s)}], g[Max(s)])
    BY <1>6
  <2> QED BY <1>4, <2>1, <2>2 DEF Follows
<1>8. IsFold(h[DOMAIN g], RetainStep(removes), <<>>, g) /\ h[DOMAIN g] \in Seq(Signal)
  BY <1>3, <1>7 DEF Guides
<1> QED BY <1>6, <1>8

(* What is retained was there.                                             *)
LEMMA Retained ==
  ASSUME NEW g \in Seq(Signal), NEW removes
  PROVE  Retain(g, removes) \in Seq(Signal) /\ Range(Retain(g, removes)) \subseteq Range(g)
<1> DEFINE T == {u \in Seq(Signal) : Range(Retain(u, removes)) \subseteq Range(u)}
<1>1. <<>> \in T
  <2>1. <<>> \in Seq(Signal)
    OBVIOUS
  <2>2. Retain(<<>>, removes) = <<>>
    BY <2>1, RetainFold, FoldNone
  <2> QED BY <2>1, <2>2 DEF Range
<1>2. ASSUME NEW u \in Seq(Signal), NEW r \in Signal, u \in T PROVE Append(u, r) \in T
  <2> DEFINE kept == Retain(u, removes)
             now == Retain(Append(u, r), removes)
  <2>1. kept \in Seq(Signal) /\ IsFold(kept, RetainStep(removes), <<>>, u)
    BY RetainFold
  <2>2. Append(u, r) \in Seq(Signal)
    OBVIOUS
  <2>3. IsFold(now, RetainStep(removes), <<>>, Append(u, r))
    BY <2>2, RetainFold
  <2>4. Range(kept) \subseteq Range(u)
    BY <1>2
  <2> HIDE DEF kept, now
  <2>5. now = RetainStep(removes)[<<kept, r>>]
    BY <2>1, <2>3, FoldOne
  <2>6. now = kept \/ now = Append(kept, r)
    BY <2>1, <2>5 DEF RetainStep
  <2>7. Range(Append(u, r)) = Range(u) \cup {r} /\ Range(Append(kept, r)) = Range(kept) \cup {r}
    BY <2>1, RangeAppend
  <2>8. Range(now) \subseteq Range(Append(u, r))
    BY <2>4, <2>6, <2>7
  <2> QED BY <2>2, <2>8 DEF now
<1> HIDE DEF T
<1>3. g \in T
  BY <1>1, <1>2, SeqInduct
<1> QED BY <1>3, RetainFold DEF T

LEMMA LengthNone == Length(<<>>) = 0
<1>1. <<>> \in Seq(Loose)
  OBVIOUS
<1> QED BY <1>1, LengthFold, FoldNone

LEMMA LengthOne ==
  ASSUME NEW g \in Seq(Loose), NEW r \in Loose
  PROVE  Length(Append(g, r)) = Length(g) + r.len
<1> DEFINE before == Length(g)
           after == Length(Append(g, r))
<1>1. before \in Nat /\ IsFold(before, LengthStep, 0, g)
  BY LengthFold
<1>2. IsFold(after, LengthStep, 0, Append(g, r))
  <2>1. Append(g, r) \in Seq(Loose)
    OBVIOUS
  <2> QED BY <2>1, LengthFold
<1> HIDE DEF before, after
<1>3. after = LengthStep[<<before, r>>]
  BY <1>1, <1>2, FoldOne
<1> QED BY <1>1, <1>3 DEF LengthStep, before, after

-----------------------------------------------------------------------------
(* The bytes of some records, one after the other.                         *)
Data(R) == FlattenSeq([i \in DOMAIN R |-> Bytes(R[i])])

LEMMA BytesAre ==
  ASSUME NEW p \in Pids
  PROVE  Bytes(p) \in Seq(Pids \X Nat) /\ Len(Bytes(p)) = Width[p]
<1>1. Width[p] \in Nat
  BY WidthNat
<1> QED BY <1>1 DEF Bytes

LEMMA BytesSeq ==
  ASSUME NEW R \in Seq(Pids)
  PROVE  [i \in DOMAIN R |-> Bytes(R[i])] \in Seq(Seq(Pids \X Nat))
<1>1. \A i \in DOMAIN R : Bytes(R[i]) \in Seq(Pids \X Nat)
  BY BytesAre
<1>2. DOMAIN R = 1 .. Len(R) /\ Len(R) \in Nat
  OBVIOUS
<1> QED BY <1>1, <1>2

LEMMA DataTyped ==
  ASSUME NEW R \in Seq(Pids) PROVE Data(R) \in Seq(Pids \X Nat) /\ Len(Data(R)) \in Nat
<1>1. Data(R) \in Seq(Pids \X Nat)
  BY BytesSeq, Flattened DEF Data
<1> QED BY <1>1

LEMMA DataNone == Data(<<>>) = <<>>
<1>1. [i \in DOMAIN <<>> |-> Bytes(<<>>[i])] = <<>>
  OBVIOUS
<1> QED BY <1>1, FlatEmpty DEF Data

LEMMA DataConcat ==
  ASSUME NEW R \in Seq(Pids), NEW Q \in Seq(Pids)
  PROVE  Data(R \o Q) = Data(R) \o Data(Q)
<1> DEFINE All(u) == [i \in DOMAIN u |-> Bytes(u[i])]
<1>1. All(R) \in Seq(Seq(Pids \X Nat)) /\ All(Q) \in Seq(Seq(Pids \X Nat))
  BY BytesSeq
<1>2. All(R \o Q) = All(R) \o All(Q)
  <2>1. R \o Q \in Seq(Pids) /\ Len(R \o Q) = Len(R) + Len(Q) /\ Len(R) \in Nat /\ Len(Q) \in Nat
    OBVIOUS
  <2>2. /\ Len(All(R)) = Len(R) /\ Len(All(Q)) = Len(Q) /\ Len(All(R \o Q)) = Len(R) + Len(Q)
        /\ \A i \in 1 .. Len(R) : All(R)[i] = Bytes(R[i])
        /\ \A i \in 1 .. Len(Q) : All(Q)[i] = Bytes(Q[i])
        /\ \A i \in 1 .. Len(R) + Len(Q) : All(R \o Q)[i] = Bytes((R \o Q)[i])
    BY <2>1
  <2>3. All(R \o Q) \in Seq(Seq(Pids \X Nat))
    BY <2>1, BytesSeq
  <2> HIDE DEF All
  <2>4. /\ All(R) \o All(Q) \in Seq(Seq(Pids \X Nat))
        /\ Len(All(R) \o All(Q)) = Len(R) + Len(Q)
        /\ \A i \in 1 .. Len(R) + Len(Q) :
             (All(R) \o All(Q))[i] = IF i <= Len(R) THEN All(R)[i] ELSE All(Q)[i - Len(R)]
    <3>1. PICK a, b : a = All(R) /\ b = All(Q)
      OBVIOUS
    <3>2. a \in Seq(Seq(Pids \X Nat)) /\ b \in Seq(Seq(Pids \X Nat))
      BY <1>1, <3>1
    <3>3. /\ a \o b \in Seq(Seq(Pids \X Nat)) /\ Len(a \o b) = Len(a) + Len(b)
          /\ \A i \in 1 .. Len(a) + Len(b) :
               (a \o b)[i] = IF i <= Len(a) THEN a[i] ELSE b[i - Len(a)]
      BY ONLY <3>2, ConcatProperties
    <3> QED BY <2>2, <3>1, <3>3
  <2>5. ASSUME NEW i \in 1 .. Len(R) + Len(Q)
        PROVE  All(R \o Q)[i] = (All(R) \o All(Q))[i]
    <3>1. CASE i <= Len(R)
      <4>1. i \in 1 .. Len(R) /\ (R \o Q)[i] = R[i]
        BY <2>1, <3>1
      <4> QED BY <2>2, <2>4, <3>1, <4>1
    <3>2. CASE ~(i <= Len(R))
      <4>1. i - Len(R) \in 1 .. Len(Q) /\ (R \o Q)[i] = Q[i - Len(R)]
        BY <2>1, <3>2
      <4> QED BY <2>2, <2>4, <3>2, <4>1
    <3> QED BY <3>1, <3>2
  <2> QED BY <2>2, <2>3, <2>4, <2>5, SeqEqual
<1>3. FlattenSeq(All(R) \o All(Q)) = FlattenSeq(All(R)) \o FlattenSeq(All(Q))
  BY <1>1, FlatConcat
<1> QED BY <1>2, <1>3 DEF Data

LEMMA DataOne ==
  ASSUME NEW p \in Pids PROVE Data(<<p>>) = Bytes(p)
<1>1. [i \in DOMAIN <<p>> |-> Bytes(<<p>>[i])] = Append(<<>>, Bytes(p))
  OBVIOUS
<1>2. FlattenSeq(Append(<<>>, Bytes(p))) = FlattenSeq(<<>>) \o Bytes(p)
  <2>1. Bytes(p) \in Seq(Pids \X Nat) /\ <<>> \in Seq(Seq(Pids \X Nat))
    BY BytesAre
  <2> QED BY <2>1, FlatAppend
<1>3. <<>> \o Bytes(p) = Bytes(p)
  BY BytesAre, ConcatEmptySeq
<1>4. Data(<<p>>) = FlattenSeq(Append(<<>>, Bytes(p)))
  BY <1>1 DEF Data
<1> QED BY <1>2, <1>3, <1>4, FlatEmpty, Zenon

LEMMA DataAppend ==
  ASSUME NEW R \in Seq(Pids), NEW p \in Pids
  PROVE  /\ Data(Append(R, p)) = Data(R) \o Bytes(p)
         /\ Len(Data(Append(R, p))) = Len(Data(R)) + Width[p]
<1>1. Append(R, p) = R \o <<p>> /\ <<p>> \in Seq(Pids)
  OBVIOUS
<1>2. Data(Append(R, p)) = Data(R) \o Bytes(p)
  BY <1>1, DataConcat, DataOne
<1>3. Len(Data(R) \o Bytes(p)) = Len(Data(R)) + Len(Bytes(p))
  <2>1. Data(R) \in Seq(Pids \X Nat) /\ Bytes(p) \in Seq(Pids \X Nat)
    BY DataTyped, BytesAre
  <2> QED BY <2>1, ConcatProperties
<1> QED BY <1>2, <1>3, BytesAre

-----------------------------------------------------------------------------
(* A signal of the map sits among some records when its offset is where    *)
(* the bytes of one of them begin; some signals are stacked when each      *)
(* begins where the one before it ends.                                    *)
Before(R, i) == SubSeq(R, 1, i - 1)

Sits(g, R) ==
  \E i \in 1 .. Len(R) :
    g.pid = R[i] /\ g.len = Width[R[i]] /\ g.offset = Len(Data(Before(R, i)))

Stacked(g, R) ==
  /\ R \in Seq(Pids) /\ g \in Seq(Signal) /\ Len(g) = Len(R)
  /\ \A i \in 1 .. Len(R) :
       /\ g[i].pid = R[i] /\ g[i].len = Width[R[i]]
       /\ g[i].offset = IF i = 1 THEN 0 ELSE g[i - 1].offset + g[i - 1].len

End(g) == IF g = <<>> THEN 0 ELSE g[Len(g)].offset + g[Len(g)].len

LEMMA SignalLoose == Signal \subseteq Loose /\ Seq(Signal) \subseteq Seq(Loose)
<1>1. Signal \subseteq Loose
  BY DEF Signal, Loose
<1> QED BY <1>1

LEMMA SitsLater ==
  ASSUME NEW R \in Seq(Pids), NEW Q \in Seq(Pids), NEW g, Sits(g, R) PROVE Sits(g, R \o Q)
<1>1. PICK i \in 1 .. Len(R) :
        g.pid = R[i] /\ g.len = Width[R[i]] /\ g.offset = Len(Data(Before(R, i)))
  BY DEF Sits
<1>2. i \in 1 .. Len(R \o Q) /\ (R \o Q)[i] = R[i]
  OBVIOUS
<1>3. Before(R \o Q, i) = Before(R, i)
  BY DEF Before
<1> QED BY <1>1, <1>2, <1>3 DEF Sits

LEMMA SitsLast ==
  ASSUME NEW R \in Seq(Pids), NEW p \in Pids, NEW g,
         g.pid = p, g.len = Width[p], g.offset = Len(Data(R))
  PROVE  Sits(g, Append(R, p))
<1> DEFINE n == Len(R) + 1
<1>1. n \in 1 .. Len(Append(R, p)) /\ Append(R, p)[n] = p
  OBVIOUS
<1>2. Before(Append(R, p), n) = R
  BY DEF Before
<1> HIDE DEF n
<1> QED BY <1>1, <1>2 DEF Sits

LEMMA StackedNone == Stacked(<<>>, <<>>)
  BY DEF Stacked

(* What is stacked without its last signal, and with one more.             *)
LEMMA StackedFront ==
  ASSUME NEW g \in Seq(Signal), NEW r \in Signal, NEW R, Stacked(Append(g, r), R)
  PROVE  \E Q \in Seq(Pids), p \in Pids :
           /\ R = Append(Q, p) /\ Stacked(g, Q) /\ r.pid = p /\ r.len = Width[p]
           /\ r.offset = End(g)
<1> DEFINE n == Len(g)
           t == Append(g, r)
           Q == SubSeq(R, 1, n)
<1>0. n \in Nat
  OBVIOUS
<1>1. /\ Len(t) = n + 1 /\ t[n + 1] = r /\ \A i \in 1 .. n : t[i] = g[i]
  OBVIOUS
<1>2. /\ R \in Seq(Pids) /\ Len(R) = n + 1
      /\ \A i \in 1 .. n + 1 :
           /\ t[i].pid = R[i] /\ t[i].len = Width[R[i]]
           /\ t[i].offset = IF i = 1 THEN 0 ELSE t[i - 1].offset + t[i - 1].len
  BY <1>1 DEF Stacked
<1> HIDE DEF t
<1>3. /\ Q \in Seq(Pids) /\ Len(Q) = n /\ R[n + 1] \in Pids /\ R = Append(Q, R[n + 1])
      /\ \A i \in 1 .. n : Q[i] = R[i]
  BY <1>0, <1>2
<1> HIDE DEF Q
<1>4. Stacked(g, Q)
  <2>1. ASSUME NEW i \in 1 .. n
        PROVE  /\ g[i].pid = Q[i] /\ g[i].len = Width[Q[i]]
               /\ g[i].offset = IF i = 1 THEN 0 ELSE g[i - 1].offset + g[i - 1].len
    <3>1. i \in 1 .. n + 1 /\ (i # 1 => i - 1 \in 1 .. n)
      BY <1>0
    <3> QED BY <1>1, <1>2, <1>3, <3>1
  <2> QED BY <1>3, <2>1 DEF Stacked
<1>5. r.pid = R[n + 1] /\ r.len = Width[R[n + 1]]
  <2>1. n + 1 \in 1 .. n + 1
    BY <1>0
  <2> QED BY <1>1, <1>2, <2>1
<1>6. r.offset = End(g)
  <2>1. n + 1 \in 1 .. n + 1 /\ (n + 1) - 1 = n /\ (n # 0 => n \in 1 .. n /\ n + 1 # 1)
    BY <1>0
  <2>2. n = 0 <=> g = <<>>
    OBVIOUS
  <2> QED BY <1>1, <1>2, <2>1, <2>2 DEF End
<1> QED BY <1>3, <1>4, <1>5, <1>6

LEMMA StackedAppend ==
  ASSUME NEW g, NEW R, Stacked(g, R), NEW p \in Pids, NEW r \in Signal,
         r.pid = p, r.len = Width[p], r.offset = End(g)
  PROVE  Stacked(Append(g, r), Append(R, p))
<1> DEFINE n == Len(g)
           t == Append(g, r)
           Q == Append(R, p)
<1>1. /\ R \in Seq(Pids) /\ g \in Seq(Signal) /\ Len(R) = n /\ n \in Nat
      /\ \A i \in 1 .. n :
           /\ g[i].pid = R[i] /\ g[i].len = Width[R[i]]
           /\ g[i].offset = IF i = 1 THEN 0 ELSE g[i - 1].offset + g[i - 1].len
  BY DEF Stacked
<1>2. /\ t \in Seq(Signal) /\ Len(t) = n + 1 /\ t[n + 1] = r /\ \A i \in 1 .. n : t[i] = g[i]
      /\ Q \in Seq(Pids) /\ Len(Q) = n + 1 /\ Q[n + 1] = p /\ \A i \in 1 .. n : Q[i] = R[i]
  BY <1>1
<1>3. n = 0 <=> g = <<>>
  BY <1>1
<1>4. r.offset = IF n = 0 THEN 0 ELSE g[n].offset + g[n].len
  BY <1>3 DEF End
<1>0. n \in Nat
  BY <1>1
<1> HIDE DEF t, Q, n
<1>5. ASSUME NEW i \in 1 .. n + 1
      PROVE  /\ t[i].pid = Q[i] /\ t[i].len = Width[Q[i]]
             /\ t[i].offset = IF i = 1 THEN 0 ELSE t[i - 1].offset + t[i - 1].len
  <2>1. CASE i = n + 1
    <3>1. i - 1 = n /\ (i = 1 <=> n = 0) /\ (n # 0 => n \in 1 .. n)
      BY <1>0, <2>1
    <3> QED BY <1>2, <1>4, <2>1, <3>1
  <2>2. CASE i # n + 1
    <3>1. i \in 1 .. n /\ (i # 1 => i - 1 \in 1 .. n)
      BY <1>0, <2>2
    <3> QED BY <1>1, <1>2, <3>1
  <2> QED BY <2>1, <2>2
<1> QED BY <1>2, <1>5 DEF Stacked, t, Q

LEMMA StackedSits ==
  ASSUME NEW g, NEW R, Stacked(g, R)
  PROVE  /\ Length(g) = End(g) /\ Length(g) = Len(Data(R))
         /\ \A i \in 1 .. Len(g) : Sits(g[i], R)
<1> DEFINE Fine(u, Q) == /\ Length(u) = End(u) /\ Length(u) = Len(Data(Q))
                         /\ \A i \in 1 .. Len(u) : Sits(u[i], Q)
           T == {u \in Seq(Signal) : \A Q : Stacked(u, Q) => Fine(u, Q)}
<1> HIDE DEF Fine
<1>1. <<>> \in T
  <2>1. \A Q : Stacked(<<>>, Q) => Q = <<>>
    BY DEF Stacked
  <2>2. Fine(<<>>, <<>>)
    BY LengthNone, DataNone DEF End, Fine
  <2> QED BY <2>1, <2>2
<1>2. ASSUME NEW u \in Seq(Signal), NEW r \in Signal, u \in T PROVE Append(u, r) \in T
  <2> SUFFICES ASSUME NEW S, Stacked(Append(u, r), S) PROVE Fine(Append(u, r), S)
    OBVIOUS
  <2>1. PICK Q \in Seq(Pids), p \in Pids :
          /\ S = Append(Q, p) /\ Stacked(u, Q) /\ r.pid = p /\ r.len = Width[p]
          /\ r.offset = End(u)
    BY StackedFront
  <2>2. Fine(u, Q)
    BY <1>2, <2>1
  <2>3. Length(Append(u, r)) = Length(u) + r.len /\ Length(u) \in Nat
    BY SignalLoose, LengthOne, LengthFold
  <2>4. /\ Len(Append(u, r)) = Len(u) + 1 /\ Append(u, r)[Len(u) + 1] = r
        /\ \A i \in 1 .. Len(u) : Append(u, r)[i] = u[i]
        /\ Append(u, r) # <<>> /\ Len(u) \in Nat
    OBVIOUS
  <2>5. Length(Append(u, r)) = End(Append(u, r))
    BY <2>1, <2>2, <2>3, <2>4 DEF End, Fine
  <2>6. Length(Append(u, r)) = Len(Data(S))
    BY <2>1, <2>2, <2>3, DataAppend DEF Fine
  <2>7. Sits(r, S)
    BY <2>1, <2>2, SitsLast DEF Fine
  <2>8. \A i \in 1 .. Len(u) : Sits(u[i], S)
    <3>1. S = Q \o <<p>> /\ <<p>> \in Seq(Pids)
      BY <2>1
    <3> QED BY <2>1, <2>2, <3>1, SitsLater DEF Fine
  <2>9. \A i \in 1 .. Len(u) + 1 : i = Len(u) + 1 \/ i \in 1 .. Len(u)
    BY <2>4
  <2> QED BY <2>4, <2>5, <2>6, <2>7, <2>8, <2>9 DEF Fine
<1>3. g \in Seq(Signal)
  BY DEF Stacked
<1> HIDE DEF T
<1>4. g \in T
  BY <1>1, <1>2, <1>3, SeqInduct
<1> QED BY <1>4 DEF T, Fine

LEMMA StackedRises ==
  ASSUME NEW g, NEW R, Stacked(g, R), NEW i \in 1 .. Len(g)
  PROVE  \A k \in 1 .. Len(g) : k > i => g[k].offset >= g[i].offset + g[i].len
<1> DEFINE n == Len(g)
           U == {m \in Nat : i + m + 1 <= n => g[i + m + 1].offset >= g[i].offset + g[i].len}
<1>1. n \in Nat /\ \A k \in 1 .. n : g[k] \in Signal
  BY DEF Stacked
<1>2. \A k \in 1 .. n : k # 1 => g[k].offset = g[k - 1].offset + g[k - 1].len
  BY DEF Stacked
<1>3. \A k \in 1 .. n : g[k].offset \in Nat /\ g[k].len \in Nat
  BY <1>1 DEF Signal
<1>0. n \in Nat /\ i \in Nat /\ 1 <= i /\ i <= n
  BY <1>1
<1> HIDE DEF n
<1>4. 0 \in U
  <2>1. i + 0 + 1 <= n => i + 0 + 1 \in 1 .. n /\ i + 0 + 1 # 1 /\ (i + 0 + 1) - 1 = i
    BY <1>0
  <2> QED BY <1>2, <1>3, <1>0, <2>1
<1>5. ASSUME NEW m \in Nat, m \in U PROVE m + 1 \in U
  <2> SUFFICES ASSUME i + (m + 1) + 1 <= n
               PROVE  g[i + (m + 1) + 1].offset >= g[i].offset + g[i].len
    OBVIOUS
  <2> DEFINE k == i + m + 1
  <2>1. k \in 1 .. n /\ k + 1 \in 1 .. n /\ k + 1 # 1 /\ (k + 1) - 1 = k /\ i + (m + 1) + 1 = k + 1
    BY <1>0
  <2>2. g[k].offset >= g[i].offset + g[i].len
    BY <1>5, <2>1
  <2> HIDE DEF k
  <2>3. g[k + 1].offset = g[k].offset + g[k].len
    BY <1>2, <2>1
  <2>4. i \in 1 .. n
    BY <1>0
  <2>5. g[k].len \in Nat /\ g[k].offset \in Nat /\ g[i].len \in Nat /\ g[i].offset \in Nat
    BY <1>3, <2>1, <2>4
  <2>6. g[k + 1].offset >= g[i].offset + g[i].len
    <3>1. \A x, y, z, u \in Nat : x >= z + u => x + y >= z + u
      OBVIOUS
    <3>2. g[k].offset + g[k].len >= g[i].offset + g[i].len
      BY ONLY <2>2, <2>5, <3>1
    <3> QED BY <2>3, <3>2, Zenon
  <2> QED BY <2>1, <2>6
<1> HIDE DEF U
<1>6. \A m \in Nat : m \in U
  BY <1>4, <1>5, Induct
<1>7. ASSUME NEW k \in 1 .. n, k > i PROVE g[k].offset >= g[i].offset + g[i].len
  <2>1. k - i - 1 \in Nat /\ i + (k - i - 1) + 1 = k /\ k <= n
    BY <1>0, <1>7
  <2> QED BY <1>6, <2>1 DEF U
<1> QED BY <1>7 DEF n

(* A record that never joined leaves the others stacked.                   *)
LEMMA WithoutStacked ==
  ASSUME NEW g, NEW R, Stacked(g, R), NEW i \in 1 .. Len(g)
  PROVE  Stacked(Without(g, i), RemoveAt(R, i))
<1> DEFINE n == Len(g)
           w == Without(g, i)
           Q == RemoveAt(R, i)
<1>1. /\ R \in Seq(Pids) /\ g \in Seq(Signal) /\ Len(R) = n /\ n \in Nat
      /\ \A k \in 1 .. n :
           /\ g[k].pid = R[k] /\ g[k].len = Width[R[k]]
           /\ g[k].offset = IF k = 1 THEN 0 ELSE g[k - 1].offset + g[k - 1].len
  BY DEF Stacked
<1>2. \A k \in 1 .. n : g[k] \in Signal /\ g[k].offset \in Nat /\ g[k].len \in Nat /\ g[k].len > 0
                        /\ g[k].pid \in Pids
  <2>1. \A k \in 1 .. n : g[k] \in Signal
    BY <1>1
  <2> QED BY <2>1 DEF Signal
<1>0. n \in Nat /\ i \in Nat /\ 1 <= i /\ i <= n /\ i \in 1 .. n
  BY <1>1
<1>3. g \in Seq(Loose) /\ i \in DOMAIN g /\ i \in DOMAIN R
  BY <1>0, <1>1, SignalLoose
<1>4. /\ w \in Seq(Loose) /\ Len(w) = n - 1
      /\ \A k \in 1 .. (n - 1) :
              LET r == IF k < i THEN g[k] ELSE g[k + 1]
              IN  /\ w[k].pid = r.pid /\ w[k].len = r.len
                  /\ w[k].offset = IF r.offset > g[i].offset THEN r.offset - g[i].len ELSE r.offset
  BY <1>3, WithoutIs
<1>5. /\ Q \in Seq(Pids) /\ Len(Q) = n - 1
      /\ \A k \in 1 .. (n - 1) : Q[k] = IF k < i THEN R[k] ELSE R[k + 1]
  <2>1. R \in Seq(Pids) /\ i \in DOMAIN R /\ Len(R) = n
    BY <1>1, <1>3
  <2>2. /\ Q \in Seq(Pids) /\ Len(Q) = Len(R) - 1
        /\ \A k \in 1 .. (Len(R) - 1) : Q[k] = IF k < i THEN R[k] ELSE R[k + 1]
    BY <2>1, Removed
  <2> QED BY <2>1, <2>2
<1>6. /\ \A k \in 1 .. n : k > i => g[k].offset >= g[i].offset + g[i].len
      /\ \A k \in 1 .. n : k < i => g[i].offset >= g[k].offset + g[k].len
  BY <1>0, StackedRises
<1> HIDE DEF n, w, Q
<1>7. ASSUME NEW k \in 1 .. n - 1, k < i
      PROVE  k \in 1 .. n /\ w[k].pid = g[k].pid /\ w[k].len = g[k].len /\ w[k].offset = g[k].offset
  <2>1. k \in 1 .. n
    BY <1>0
  <2>2. ~(g[k].offset > g[i].offset)
    BY <1>0, <1>2, <1>6, <1>7, <2>1
  <2> QED BY <1>4, <1>7, <2>1, <2>2
<1>8. ASSUME NEW k \in 1 .. n - 1, ~(k < i)
      PROVE  /\ k + 1 \in 1 .. n /\ w[k].pid = g[k + 1].pid /\ w[k].len = g[k + 1].len
             /\ w[k].offset = g[k + 1].offset - g[i].len /\ w[k].offset \in Nat
  <2>1. k + 1 \in 1 .. n /\ k + 1 > i
    BY <1>0, <1>8
  <2>2. g[k + 1].offset >= g[i].offset + g[i].len
    BY <1>6, <2>1
  <2>3. g[k + 1].offset > g[i].offset /\ g[k + 1].offset - g[i].len \in Nat
    BY <1>0, <1>2, <2>1, <2>2
  <2> QED BY <1>4, <1>8, <2>1, <2>3
<1>9. ASSUME NEW k \in 1 .. n - 1
      PROVE  /\ w[k].pid = Q[k] /\ w[k].len = Width[Q[k]] /\ w[k] \in Signal
             /\ w[k].offset = IF k = 1 THEN 0 ELSE w[k - 1].offset + w[k - 1].len
  <2>0. k \in Nat /\ 1 <= k /\ k <= n - 1 /\ (k # 1 => k - 1 \in 1 .. n - 1) /\ w[k] \in Loose
    BY <1>0, <1>4
  <2>1. CASE k < i
    <3>1. k # 1 => k - 1 < i
      BY <1>0, <2>0, <2>1
    <3>2. w[k].pid = Q[k] /\ w[k].len = Width[Q[k]] /\ w[k].offset = g[k].offset
          /\ k \in 1 .. n
      BY <1>1, <1>5, <1>7, <2>1
    <3>3. w[k].offset = IF k = 1 THEN 0 ELSE w[k - 1].offset + w[k - 1].len
      BY <1>1, <1>7, <2>0, <3>1, <3>2
    <3> QED BY <1>2, <2>0, <3>2, <3>3 DEF Signal, Loose
  <2>2. CASE k = i
    <3>1. /\ k + 1 \in 1 .. n /\ w[k].pid = Q[k] /\ w[k].len = Width[Q[k]]
          /\ w[k].offset = g[k + 1].offset - g[i].len /\ w[k].offset \in Nat
      BY <1>1, <1>5, <1>8, <2>2, <1>0
    <3>2. k + 1 # 1 /\ (k + 1) - 1 = k
      BY <2>0
    <3>3. g[k + 1].offset = g[i].offset + g[i].len
      BY <1>1, <2>2, <3>1, <3>2
    <3>4. w[k].offset = g[i].offset
      BY <1>0, <1>2, <3>1, <3>3
    <3>5. k # 1 => w[k - 1].offset = g[k - 1].offset /\ w[k - 1].len = g[k - 1].len
      <4>1. k # 1 => k - 1 \in 1 .. n - 1 /\ k - 1 < i
        BY <2>0, <2>2
      <4> QED BY <1>7, <4>1
    <3>6. w[k].offset = IF k = 1 THEN 0 ELSE w[k - 1].offset + w[k - 1].len
      BY <1>0, <1>1, <2>2, <3>4, <3>5
    <3> QED BY <2>0, <3>1, <3>6 DEF Signal, Loose
  <2>3. CASE k > i
    <3>1. /\ k + 1 \in 1 .. n /\ w[k].pid = Q[k] /\ w[k].len = Width[Q[k]]
          /\ w[k].offset = g[k + 1].offset - g[i].len /\ w[k].offset \in Nat
      <4>1. ~(k < i)
        BY <1>0, <2>0, <2>3
      <4>2. /\ k + 1 \in 1 .. n /\ w[k].pid = g[k + 1].pid /\ w[k].len = g[k + 1].len
            /\ w[k].offset = g[k + 1].offset - g[i].len /\ w[k].offset \in Nat
        BY <1>8, <4>1
      <4>3. Q[k] = R[k + 1]
        BY <1>5, <4>1
      <4> QED BY <1>1, <4>2, <4>3
    <3>2. k + 1 # 1 /\ (k + 1) - 1 = k /\ k # 1 /\ k \in 1 .. n
      BY <1>0, <2>0, <2>3
    <3>3. g[k + 1].offset = g[k].offset + g[k].len
      BY <1>1, <3>1, <3>2
    <3>4. w[k - 1].offset = g[k].offset - g[i].len /\ w[k - 1].len = g[k].len
      <4>1. k - 1 \in 1 .. n - 1 /\ ~(k - 1 < i) /\ (k - 1) + 1 = k
        BY <1>0, <2>0, <2>3, <3>2
      <4>2. w[k - 1].offset = g[(k - 1) + 1].offset - g[i].len /\ w[k - 1].len = g[(k - 1) + 1].len
        BY <1>8, <4>1
      <4> QED BY <4>1, <4>2
    <3>5. w[k].offset = IF k = 1 THEN 0 ELSE w[k - 1].offset + w[k - 1].len
      BY <1>0, <1>2, <3>1, <3>2, <3>3, <3>4
    <3> QED BY <2>0, <3>1, <3>5 DEF Signal, Loose
  <2> QED BY <1>0, <2>0, <2>1, <2>2, <2>3
<1>10. w \in Seq(Signal)
  <2>1. w = [k \in 1 .. n - 1 |-> w[k]] /\ n - 1 \in Nat
    BY <1>0, <1>4
  <2> QED BY <1>9, <2>1
<1> QED BY <1>4, <1>5, <1>9, <1>10 DEF Stacked, w, Q

-----------------------------------------------------------------------------
(* Sorted sequences: which of some equal elements goes does not matter.     *)
LEMMA GroupedRemoved ==
  ASSUME NEW R \in Seq(Pids), Grouped(R), NEW i \in DOMAIN R
  PROVE  Grouped(RemoveAt(R, i))
<1> DEFINE n == Len(R)
           Q == RemoveAt(R, i)
<1>0. n \in Nat /\ DOMAIN R = 1 .. n /\ i \in 1 .. n
  OBVIOUS
<1>1. DOMAIN Q = 1 .. n - 1 /\ \A k \in 1 .. n - 1 : Q[k] = IF k < i THEN R[k] ELSE R[k + 1]
  BY Removed
<1> HIDE DEF n, Q
<1> SUFFICES ASSUME NEW a \in 1 .. n - 1, NEW c \in 1 .. n - 1, Q[a] = Q[c], NEW b \in a .. c
             PROVE  Q[b] = Q[a]
  BY <1>1 DEF Grouped, Q
<1> DEFINE At(k) == IF k < i THEN k ELSE k + 1
<1>2. \A k \in 1 .. n - 1 : Q[k] = R[At(k)] /\ At(k) \in 1 .. n
  BY <1>0, <1>1
<1>3. b \in 1 .. n - 1
  BY <1>0
<1>4. At(b) \in At(a) .. At(c)
  BY <1>0, <1>3
<1> HIDE DEF At
<1>5. R[At(a)] = R[At(c)]
  BY <1>2
<1>6. R[At(b)] = R[At(a)]
  BY <1>0, <1>2, <1>4, <1>5 DEF Grouped
<1> QED BY <1>2, <1>3, <1>6

LEMMA RemovedSame ==
  ASSUME NEW A \in Seq(Pids), NEW B \in Seq(Pids), NEW p \in Pids, Grouped(A \o <<p>> \o B),
         NEW i \in DOMAIN (A \o <<p>> \o B), (A \o <<p>> \o B)[i] = p
  PROVE  RemoveAt(A \o <<p>> \o B, i) = A \o B
<1> DEFINE R == A \o <<p>> \o B
           n == Len(R)
           m == Len(A)
           Q == RemoveAt(R, i)
<1>1. /\ R \in Seq(Pids) /\ n = m + 1 + Len(B) /\ m \in Nat /\ Len(B) \in Nat /\ n \in Nat
      /\ R[m + 1] = p /\ DOMAIN R = 1 .. n
      /\ \A k \in 1 .. m : R[k] = A[k]
      /\ \A k \in 1 .. Len(B) : R[m + 1 + k] = B[k]
  OBVIOUS
<1>2. /\ Q \in Seq(Pids) /\ Len(Q) = n - 1
      /\ \A k \in 1 .. n - 1 : Q[k] = IF k < i THEN R[k] ELSE R[k + 1]
  BY <1>1, Removed
<1>3. /\ A \o B \in Seq(Pids) /\ Len(A \o B) = m + Len(B)
      /\ \A k \in 1 .. m + Len(B) : (A \o B)[k] = IF k <= m THEN A[k] ELSE B[k - m]
  OBVIOUS
<1>4. Grouped(R) /\ R[i] = p /\ i \in 1 .. n
  BY <1>1
<1> HIDE DEF R, n, m, Q
<1>5. ASSUME NEW k \in 1 .. n - 1 PROVE Q[k] = (A \o B)[k]
  <2>0. k \in 1 .. m + Len(B) /\ n - 1 = m + Len(B) /\ m + 1 \in 1 .. n
    BY <1>1
  <2>1. CASE k <= m /\ k < i
    <3>1. k \in 1 .. m
      BY <1>1, <2>1
    <3> QED BY <1>1, <1>2, <1>3, <2>0, <2>1, <3>1
  <2>2. CASE k <= m /\ ~(k < i)
    <3>1. k \in 1 .. m /\ k \in i .. m + 1 /\ k + 1 \in i .. m + 1
      BY <1>1, <1>4, <2>2
    <3>2. R[k] = p /\ R[k + 1] = p
      BY <1>1, <1>4, <2>0, <3>1 DEF Grouped
    <3> QED BY <1>1, <1>2, <1>3, <2>0, <2>2, <3>1, <3>2
  <2>3. CASE ~(k <= m) /\ ~(k < i)
    <3>1. k - m \in 1 .. Len(B) /\ m + 1 + (k - m) = k + 1
      BY <1>1, <2>0, <2>3
    <3>2. R[k + 1] = B[k - m]
      BY <1>1, <3>1
    <3> QED BY <1>2, <1>3, <2>0, <2>3, <3>2
  <2>4. CASE ~(k <= m) /\ k < i
    <3>1. k - m \in 1 .. Len(B) /\ m + 1 + (k - m) = k + 1
           /\ k \in m + 1 .. i /\ k + 1 \in m + 1 .. i
      BY <1>1, <1>4, <2>0, <2>4
    <3>2. R[k] = p /\ R[k + 1] = p
      <4>1. R[m + 1] = R[i] /\ m + 1 \in DOMAIN R /\ i \in DOMAIN R
        BY <1>1, <1>4, <2>0
      <4>2. \A j \in m + 1 .. i : R[j] = R[m + 1]
        BY <1>4, <4>1 DEF Grouped
      <4> QED BY <1>1, <3>1, <4>2
    <3>3. R[k + 1] = B[k - m]
      BY <1>1, <3>1
    <3> QED BY <1>2, <1>3, <2>0, <2>4, <3>2, <3>3
  <2> QED BY <2>1, <2>2, <2>3, <2>4
<1>6. Len(Q) = Len(A \o B) /\ \A k \in 1 .. Len(Q) : Q[k] = (A \o B)[k]
  BY <1>1, <1>2, <1>3, <1>5
<1>7. Q = A \o B
  BY <1>2, <1>3, <1>6, SeqEqual
<1> QED BY <1>7 DEF R, Q

(* Where the elements have got to when the last signal was defined: only   *)
(* those of that pid stand behind the first of them.                       *)
Trails(R, u) ==
  /\ R \in Seq(Pids) /\ Grouped(R) /\ Range(R) \subseteq Range(u)
  /\ \A i, k \in DOMAIN R : i <= k /\ R[i] = u[Len(u)] => R[k] = u[Len(u)]

LEMMA GroupedFront ==
  ASSUME NEW u \in Seq(Pids), NEW p \in Pids, Grouped(Append(u, p)) PROVE Grouped(u)
<1>1. /\ DOMAIN u = 1 .. Len(u) /\ DOMAIN Append(u, p) = 1 .. Len(u) + 1 /\ Len(u) \in Nat
      /\ \A i \in 1 .. Len(u) : Append(u, p)[i] = u[i]
  OBVIOUS
<1>2. \A i, k \in 1 .. Len(u) : /\ i \in 1 .. Len(u) + 1 /\ k \in 1 .. Len(u) + 1
                                /\ \A j \in i .. k : j \in 1 .. Len(u)
  BY <1>1
<1> QED BY <1>1, <1>2 DEF Grouped

LEMMA TrailsOn ==
  ASSUME NEW u \in Seq(Pids), NEW p \in Pids, Grouped(Append(u, p)), NEW R, Trails(R, u)
  PROVE  Trails(R, Append(u, p)) /\ Trails(Append(R, p), Append(u, p))
<1> DEFINE n == Len(u)
           v == Append(u, p)
           m == Len(R)
           Q == Append(R, p)
<1>1. /\ n \in Nat /\ DOMAIN u = 1 .. n /\ DOMAIN v = 1 .. n + 1 /\ v[n + 1] = p /\ Len(v) = n + 1
      /\ \A i \in 1 .. n : v[i] = u[i]
  OBVIOUS
<1>2. /\ R \in Seq(Pids) /\ Grouped(R) /\ Range(R) \subseteq Range(u)
      /\ \A i, k \in DOMAIN R : i <= k /\ R[i] = u[n] => R[k] = u[n]
  BY DEF Trails
<1>3. /\ m \in Nat /\ DOMAIN R = 1 .. m /\ DOMAIN Q = 1 .. m + 1 /\ Q[m + 1] = p /\ Q \in Seq(Pids)
      /\ \A i \in 1 .. m : Q[i] = R[i]
  BY <1>2
<1>4. Range(v) = Range(u) \cup {p} /\ Range(Q) = Range(R) \cup {p}
  BY <1>2, RangeAppend
<1>0. n \in Nat /\ m \in Nat
  BY <1>1, <1>3
<1> HIDE DEF n, v, m, Q
<1>5. ASSUME NEW i \in 1 .. m, R[i] = p, NEW k \in 1 .. m, i <= k PROVE R[k] = p
  <2>1. PICK j \in 1 .. n : u[j] = p
    <3>1. R[i] \in Range(u)
      BY <1>2, <1>3 DEF Range
    <3> QED BY <1>1, <1>5, <3>1 DEF Range
  <2>2. /\ j \in 1 .. n + 1 /\ n + 1 \in 1 .. n + 1 /\ n \in j .. n + 1 /\ n \in 1 .. n
    BY <1>0
  <2>3. Grouped(v)
    BY DEF v
  <2>4. v[j] = v[n + 1]
    BY <1>1, <2>1, <2>2
  <2>5. v[n] = v[j]
    BY <1>1, <2>2, <2>3, <2>4 DEF Grouped
  <2>6. u[n] = p
    BY <1>1, <2>1, <2>2, <2>5
  <2> QED BY <1>2, <1>3, <1>5, <2>6
<1>6. Trails(R, v)
  <2>1. \A i, k \in DOMAIN R : i <= k /\ R[i] = v[Len(v)] => R[k] = v[Len(v)]
    BY <1>1, <1>3, <1>5
  <2> QED BY <1>2, <1>4, <2>1 DEF Trails
<1>7. ASSUME NEW i \in 1 .. m + 1, Q[i] = p, NEW k \in 1 .. m + 1, i <= k PROVE Q[k] = p
  <2>1. CASE k = m + 1
    BY <1>3, <2>1
  <2>2. CASE k # m + 1
    <3>1. k \in 1 .. m /\ i \in 1 .. m
      BY <1>0, <1>7, <2>2
    <3> QED BY <1>3, <1>5, <1>7, <3>1
  <2> QED BY <2>1, <2>2
<1>8. Grouped(Q)
  <2> SUFFICES ASSUME NEW a \in 1 .. m + 1, NEW c \in 1 .. m + 1, Q[a] = Q[c], NEW b \in a .. c
               PROVE  Q[b] = Q[a]
    BY <1>3 DEF Grouped
  <2>1. CASE c = m + 1
    <3>1. b \in 1 .. m + 1 /\ a <= b
      BY <1>0
    <3> QED BY <1>3, <1>7, <2>1, <3>1
  <2>2. CASE c # m + 1
    <3>1. c \in 1 .. m /\ a <= c /\ b \in 1 .. m
      BY <1>0, <2>2
    <3>2. a \in 1 .. m
      BY <1>0, <3>1
    <3>3. R[a] = R[c]
      BY <1>3, <3>1, <3>2
    <3>4. R[b] = R[a]
      BY <1>2, <1>3, <3>1, <3>2, <3>3 DEF Grouped
    <3> QED BY <1>3, <3>1, <3>2, <3>4
  <2> QED BY <2>1, <2>2
<1>9. Trails(Q, v)
  <2>1. \A i, k \in DOMAIN Q : i <= k /\ Q[i] = v[Len(v)] => Q[k] = v[Len(v)]
    BY <1>1, <1>3, <1>7
  <2> QED BY <1>2, <1>3, <1>4, <1>8, <2>1 DEF Trails
<1> QED BY <1>6, <1>9 DEF v, Q

-----------------------------------------------------------------------------
(* The pids of a slot's records.                                           *)
Part(r, s) == IF r.slot = s THEN <<r.pid>> ELSE <<>>
Of(rs, s) == FlattenSeq([i \in DOMAIN rs |-> Part(rs[i], s)])

LEMMA Parts ==
  ASSUME NEW rs \in Seq(Record), NEW s
  PROVE  [i \in DOMAIN rs |-> Part(rs[i], s)] \in Seq(Seq(Pids)) /\ Of(rs, s) \in Seq(Pids)
<1>1. \A r \in Record : Part(r, s) \in Seq(Pids)
  BY DEF Part, Record
<1>2. DOMAIN rs = 1 .. Len(rs) /\ Len(rs) \in Nat /\ \A i \in DOMAIN rs : rs[i] \in Record
  OBVIOUS
<1>3. [i \in DOMAIN rs |-> Part(rs[i], s)] \in Seq(Seq(Pids))
  BY <1>1, <1>2
<1> QED BY <1>3, Flattened DEF Of

LEMMA OfNone == \A s : Of(<<>>, s) = <<>>
<1> SUFFICES ASSUME NEW s PROVE Of(<<>>, s) = <<>>
  OBVIOUS
<1>1. [i \in DOMAIN <<>> |-> Part(<<>>[i], s)] = <<>>
  OBVIOUS
<1> QED BY <1>1, FlatEmpty DEF Of

LEMMA OfAppend ==
  ASSUME NEW rs \in Seq(Record), NEW r \in Record, NEW s
  PROVE  Of(Append(rs, r), s) = IF r.slot = s THEN Append(Of(rs, s), r.pid) ELSE Of(rs, s)
<1> DEFINE All(u) == [i \in DOMAIN u |-> Part(u[i], s)]
<1>1. All(Append(rs, r)) = Append(All(rs), Part(r, s))
  <2>1. Len(All(rs)) = Len(rs)
    OBVIOUS
  <2> QED BY <2>1
<1>2. All(rs) \in Seq(Seq(Pids))
  BY Parts
<1>3. Part(r, s) \in Seq(Pids)
  BY DEF Part, Record
<1>4. FlattenSeq(Append(All(rs), Part(r, s))) = FlattenSeq(All(rs)) \o Part(r, s)
  BY <1>2, <1>3, FlatAppend
<1>5. Of(Append(rs, r), s) = Of(rs, s) \o Part(r, s)
  BY <1>1, <1>4 DEF Of
<1>6. Of(rs, s) \in Seq(Pids)
  BY Parts
<1>7. CASE r.slot = s
  BY <1>5, <1>6, <1>7 DEF Part
<1>8. CASE r.slot # s
  BY <1>5, <1>6, <1>8 DEF Part
<1> QED BY <1>7, <1>8

LEMMA OfHead ==
  ASSUME NEW rs \in Seq(Record), rs # <<>>, NEW s
  PROVE  Of(rs, s) = Part(Head(rs), s) \o Of(Tail(rs), s)
<1> DEFINE All(u) == [i \in DOMAIN u |-> Part(u[i], s)]
<1>1. Head(rs) \in Record /\ Tail(rs) \in Seq(Record)
  OBVIOUS
<1>2. /\ All(rs) \in Seq(Seq(Pids)) /\ All(Tail(rs)) \in Seq(Seq(Pids))
      /\ Part(Head(rs), s) \in Seq(Pids)
  <2>1. All(rs) \in Seq(Seq(Pids))
    BY Parts
  <2>2. PICK u \in Seq(Record) : u = Tail(rs)
    BY <1>1
  <2>3. [i \in DOMAIN u |-> Part(u[i], s)] \in Seq(Seq(Pids))
    BY Parts
  <2>4. Part(Head(rs), s) \in Seq(Pids)
    BY <1>1 DEF Part, Record
  <2> QED BY <2>1, <2>2, <2>3, <2>4
<1>3. All(rs) = <<Part(Head(rs), s)>> \o All(Tail(rs))
  <2>1. Len(All(rs)) = Len(rs) /\ Len(All(Tail(rs))) = Len(rs) - 1
    OBVIOUS
  <2> QED BY <2>1
<1>4. <<Part(Head(rs), s)>> \in Seq(Seq(Pids))
  BY <1>2
<1> HIDE DEF All
<1>5. FlattenSeq(All(rs)) = FlattenSeq(<<Part(Head(rs), s)>>) \o FlattenSeq(All(Tail(rs)))
  BY <1>2, <1>3, <1>4, FlatConcat
<1>6. FlattenSeq(<<Part(Head(rs), s)>>) = Part(Head(rs), s)
  <2>1. <<Part(Head(rs), s)>> = Append(<<>>, Part(Head(rs), s)) /\ <<>> \in Seq(Seq(Pids))
    OBVIOUS
  <2>2. FlattenSeq(Append(<<>>, Part(Head(rs), s))) = FlattenSeq(<<>>) \o Part(Head(rs), s)
    BY <1>2, <2>1, FlatAppend
  <2>3. <<>> \o Part(Head(rs), s) = Part(Head(rs), s)
    BY <1>2, ConcatEmptySeq
  <2> QED BY <2>1, <2>2, <2>3, FlatEmpty, Zenon
<1> QED BY <1>5, <1>6 DEF Of, All

-----------------------------------------------------------------------------
(* build_defines stacks the records of every slot.                         *)
LEMMA Fits ==
  ASSUME NEW f, NEW n, Fitting(f, n) # {}
  PROVE  FirstFit(f, n) \in Slot /\ f[FirstFit(f, n)] + n <= SlotBytes
<1> DEFINE S == Fitting(f, n)
<1>1. S \in SUBSET Nat
  BY SlotNat DEF Fitting
<1>2. \E x \in S : \A y \in S : x <= y
  <2> HIDE DEF S
  <2>1. S # {}
    BY DEF S
  <2> QED BY <1>1, <2>1, Least
<1>3. FirstFit(f, n) \in S
  BY <1>2 DEF FirstFit
<1> QED BY <1>3 DEF Fitting

Put(set, p, known) ==
  IF p \notin known \/ Fitting(set.fill, Width[p]) = {} THEN set
  ELSE LET s == FirstFit(set.fill, Width[p])
       IN [fill |-> [set.fill EXCEPT ![s] = @ + Width[p]],
           unpack |-> [set.unpack EXCEPT ![s] = Append(@, Packed(p, set.fill[s]))],
           records |-> Append(set.records, [slot |-> s, pid |-> p])]

PutStep(known) == [x \in Sets \X Pids |-> Put(x[1], x[2], known)]

LEMMA PackedSignal ==
  ASSUME NEW p \in Pids, NEW n \in Nat PROVE Packed(p, n) \in Signal /\ Packed(p, n) \in Loose
  BY WidthNat DEF Packed, Signal, Loose

LEMMA PutTyped ==
  ASSUME NEW set \in Sets, NEW p \in Pids, NEW known PROVE Put(set, p, known) \in Sets
<1> SUFFICES ASSUME Fitting(set.fill, Width[p]) # {}, p \in known PROVE Put(set, p, known) \in Sets
  BY DEF Put
<1>0. PICK s : s = FirstFit(set.fill, Width[p])
  OBVIOUS
<1>1. s \in Slot
  BY <1>0, Fits
<1>2. /\ set.fill \in [Slot -> Nat] /\ set.unpack \in [Slot -> Seq(Loose)]
      /\ set.records \in Seq(Record)
  BY DEF Sets
<1>3. Packed(p, set.fill[s]) \in Loose
  BY <1>1, <1>2, PackedSignal
<1>4. [set.fill EXCEPT ![s] = @ + Width[p]] \in [Slot -> Nat]
  BY <1>1, <1>2, WidthNat
<1>5. [set.unpack EXCEPT ![s] = Append(@, Packed(p, set.fill[s]))] \in [Slot -> Seq(Loose)]
  BY <1>1, <1>2, <1>3
<1>6. Append(set.records, [slot |-> s, pid |-> p]) \in Seq(Record)
  BY <1>1, <1>2 DEF Record
<1>7. Put(set, p, known) =
        [fill |-> [set.fill EXCEPT ![s] = @ + Width[p]],
         unpack |-> [set.unpack EXCEPT ![s] = Append(@, Packed(p, set.fill[s]))],
         records |-> Append(set.records, [slot |-> s, pid |-> p])]
  BY <1>0 DEF Put
<1> QED BY <1>4, <1>5, <1>6, <1>7 DEF Sets

LEMMA BuildFold ==
  ASSUME NEW u \in Seq(Pids), NEW known
  PROVE  /\ BuildDefines(u, known) \in Sets
         /\ IsFold(BuildDefines(u, known), PutStep(known), Nothing, u)
<1> DEFINE V == Sets
           Body(h) == [s \in SUBSET DOMAIN u |->
                         IF s = {} THEN Nothing ELSE Put(h[s \ {Max(s)}], u[Max(s)], known)]
           iter == CHOOSE h : h = Body(h)
<1>1. BuildDefines(u, known) = iter[DOMAIN u]
  BY DEF BuildDefines, FoldLeft, MapThenFoldSet, Put
<1>2. PutStep(known) \in [V \X Pids -> V] /\ Nothing \in V
  <2>1. PutStep(known) \in [V \X Pids -> V]
    BY PutTyped DEF PutStep
  <2>2. Nothing \in V
    BY DEF Nothing, Empty, Sets
  <2> QED BY <2>1, <2>2
<1> HIDE DEF V
<1>3. PICK g : Guides(g, V, Pids, PutStep(known), Nothing, u)
  BY <1>2, FoldGiven
<1>4. ASSUME NEW s \in SUBSET DOMAIN u
      PROVE  g[s] = IF s = {} THEN Nothing ELSE Put(g[s \ {Max(s)}], u[Max(s)], known)
  BY <1>3 DEF PutStep, V, Guides
<1>5. g = Body(g)
  BY <1>3, <1>4 DEF Guides
<1>6. PICK h : h = Body(h) /\ BuildDefines(u, known) = h[DOMAIN u]
  BY <1>1, <1>5
<1>7. Follows(h, g, Len(u))
  <2>1. DOMAIN u = 1 .. Len(u)
    OBVIOUS
  <2>2. \A s \in SUBSET DOMAIN u :
          h[s] = IF s = {} THEN Nothing ELSE Put(h[s \ {Max(s)}], u[Max(s)], known)
    BY <1>6
  <2> QED BY <1>4, <2>1, <2>2 DEF Follows
<1>8. IsFold(h[DOMAIN u], PutStep(known), Nothing, u) /\ h[DOMAIN u] \in V
  BY <1>3, <1>7 DEF Guides
<1> QED BY <1>6, <1>8 DEF V

Built(set, u) ==
  /\ set \in Sets
  /\ \A s \in Slot : /\ Stacked(set.unpack[s], Of(set.records, s))
                     /\ set.fill[s] = End(set.unpack[s])
                     /\ Trails(Of(set.records, s), u)

LEMMA PutBuilt ==
  ASSUME NEW set, NEW u \in Seq(Pids), Built(set, u), NEW p \in Pids, Grouped(Append(u, p)),
         NEW known
  PROVE  Built(Put(set, p, known), Append(u, p))
<1>1. Put(set, p, known) \in Sets
  BY PutTyped DEF Built
<1>2. \A R : Trails(R, u) => Trails(R, Append(u, p)) /\ Trails(Append(R, p), Append(u, p))
  BY TrailsOn
<1>3. CASE Put(set, p, known) = set
  BY <1>1, <1>2, <1>3 DEF Built
<1>4. CASE Put(set, p, known) # set
  <2>1. PICK t : t = FirstFit(set.fill, Width[p])
    OBVIOUS
  <2>2. Fitting(set.fill, Width[p]) # {} /\ Put(set, p, known) =
        [fill |-> [set.fill EXCEPT ![t] = @ + Width[p]],
         unpack |-> [set.unpack EXCEPT ![t] = Append(@, Packed(p, set.fill[t]))],
         records |-> Append(set.records, [slot |-> t, pid |-> p])]
    BY <1>4, <2>1 DEF Put
  <2>3. t \in Slot
    BY <2>1, <2>2, Fits
  <2>4. /\ set.fill \in [Slot -> Nat] /\ set.unpack \in [Slot -> Seq(Loose)]
        /\ set.records \in Seq(Record)
    BY DEF Sets, Built
  <2> DEFINE r == [slot |-> t, pid |-> p]
  <2>5. r \in Record /\ r.slot = t /\ r.pid = p
    BY <2>3 DEF Record
  <2> HIDE DEF r
  <2>6. PICK new : new = Put(set, p, known)
    OBVIOUS
  <2>7. /\ new.records = Append(set.records, r)
        /\ \A s \in Slot : new.unpack[s] =
             IF s = t THEN Append(set.unpack[s], Packed(p, set.fill[s])) ELSE set.unpack[s]
        /\ \A s \in Slot : new.fill[s] = IF s = t THEN set.fill[s] + Width[p] ELSE set.fill[s]
    BY <2>2, <2>4, <2>6 DEF r
  <2>8. ASSUME NEW s \in Slot
        PROVE  /\ Stacked(new.unpack[s], Of(new.records, s)) /\ new.fill[s] = End(new.unpack[s])
               /\ Trails(Of(new.records, s), Append(u, p))
    <3>1. /\ Stacked(set.unpack[s], Of(set.records, s)) /\ set.fill[s] = End(set.unpack[s])
          /\ Trails(Of(set.records, s), u)
      BY DEF Built
    <3>2. CASE s # t
      <4>1. Of(new.records, s) = Of(set.records, s)
        BY <2>4, <2>5, <2>7, <3>2, OfAppend
      <4> QED BY <1>2, <2>7, <3>1, <3>2, <4>1
    <3>3. CASE s = t
      <4>1. Of(new.records, s) = Append(Of(set.records, s), p)
        BY <2>4, <2>5, <2>7, <3>3, OfAppend
      <4>2. set.fill[s] \in Nat
        BY <2>4
      <4> DEFINE q == Packed(p, set.fill[s])
      <4>3. q \in Signal /\ q.pid = p /\ q.len = Width[p] /\ q.offset = set.fill[s]
        BY <4>2, PackedSignal DEF Packed
      <4> HIDE DEF q
      <4>4. new.unpack[s] = Append(set.unpack[s], q)
        BY <2>7, <3>3 DEF q
      <4>5. Stacked(new.unpack[s], Of(new.records, s))
        BY <3>1, <4>1, <4>3, <4>4, StackedAppend
      <4>6. set.unpack[s] \in Seq(Loose)
        BY <2>4
      <4>7. End(Append(set.unpack[s], q)) = q.offset + q.len
        BY <4>6 DEF End
      <4> QED BY <1>2, <2>7, <3>1, <3>3, <4>1, <4>3, <4>4, <4>5, <4>7
    <3> QED BY <3>2, <3>3
  <2> QED BY <1>1, <2>6, <2>8 DEF Built
<1> QED BY <1>3, <1>4

LEMMA BuildsStacked ==
  ASSUME NEW u \in Seq(Pids), Grouped(u), NEW known PROVE Built(BuildDefines(u, known), u)
<1> DEFINE T == {v \in Seq(Pids) : Grouped(v) => Built(BuildDefines(v, known), v)}
<1>1. <<>> \in T
  <2>1. <<>> \in Seq(Pids)
    OBVIOUS
  <2>2. BuildDefines(<<>>, known) = Nothing /\ Nothing \in Sets
    BY <2>1, BuildFold, FoldNone
  <2>3. \A s \in Slot : Nothing.unpack[s] = <<>> /\ Nothing.fill[s] = 0 /\ Nothing.records = <<>>
    BY DEF Nothing, Empty
  <2>4. Trails(<<>>, <<>>)
    BY DEF Trails, Grouped, Range
  <2>5. End(<<>>) = 0
    BY DEF End
  <2>6. Built(Nothing, <<>>)
    BY <2>2, <2>3, <2>4, <2>5, StackedNone, OfNone DEF Built
  <2> QED BY <2>1, <2>2, <2>6
<1>2. ASSUME NEW v \in Seq(Pids), NEW p \in Pids, v \in T PROVE Append(v, p) \in T
  <2>1. Append(v, p) \in Seq(Pids)
    OBVIOUS
  <2> SUFFICES ASSUME Grouped(Append(v, p))
               PROVE  Built(BuildDefines(Append(v, p), known), Append(v, p))
    BY <2>1
  <2>2. Built(BuildDefines(v, known), v)
    BY <1>2, GroupedFront
  <2> DEFINE before == BuildDefines(v, known)
             after == BuildDefines(Append(v, p), known)
  <2>3. before \in Sets /\ IsFold(before, PutStep(known), Nothing, v)
    BY BuildFold
  <2>4. IsFold(after, PutStep(known), Nothing, Append(v, p))
    BY <2>1, BuildFold
  <2> HIDE DEF before, after
  <2>5. after = PutStep(known)[<<before, p>>]
    BY <2>3, <2>4, FoldOne
  <2>6. after = Put(before, p, known)
    BY <2>3, <2>5 DEF PutStep
  <2>7. Built(after, Append(v, p))
    BY <2>2, <2>6, PutBuilt DEF before
  <2> QED BY <2>7 DEF after
<1> HIDE DEF T
<1>3. u \in T
  BY <1>1, <1>2, SeqInduct
<1> QED BY <1>3 DEF T

-----------------------------------------------------------------------------
(* What a refused or an accepted define makes of a slot: its signals are   *)
(* stacked in the order of R, and R is what the vehicle has and will have. *)
Fine(g, have, todo, s, wrong) ==
  \E R \in Seq(Pids) : /\ Stacked(g, R) /\ Grouped(R)
                       /\ ~wrong => R = have \o Of(todo, s)

LEMMA FineAcked ==
  ASSUME NEW g, NEW have \in Seq(Pids), NEW todo \in Seq(Record), todo # <<>>, NEW s, NEW wrong,
         Fine(g, have, todo, s, wrong)
  PROVE  Fine(g, IF Head(todo).slot = s THEN Append(have, Head(todo).pid) ELSE have,
              Tail(todo), s, wrong)
<1>1. PICK R \in Seq(Pids) : Stacked(g, R) /\ Grouped(R) /\ (~wrong => R = have \o Of(todo, s))
  BY DEF Fine
<1>2. PICK r \in Record : r = Head(todo)
  OBVIOUS
<1>3. PICK rest \in Seq(Record) : rest = Tail(todo)
  <2>1. Tail(todo) \in Seq(Record)
    OBVIOUS
  <2> QED BY <2>1
<1>4. PICK B \in Seq(Pids) : B = Of(rest, s)
  BY Parts
<1>5. Of(todo, s) = Part(r, s) \o B
  BY <1>2, <1>3, <1>4, OfHead
<1>6. r.pid \in Pids
  BY DEF Record
<1>7. CASE r.slot = s
  <2>1. have \o Of(todo, s) = Append(have, r.pid) \o B
    BY <1>5, <1>6, <1>7 DEF Part
  <2> QED BY <1>1, <1>2, <1>3, <1>4, <1>7, <2>1 DEF Fine
<1>8. CASE r.slot # s
  <2>1. have \o Of(todo, s) = have \o B
    BY <1>5, <1>8 DEF Part
  <2> QED BY <1>1, <1>2, <1>3, <1>4, <1>8, <2>1 DEF Fine
<1> QED BY <1>7, <1>8

LEMMA FineRefused ==
  ASSUME NEW map \in [Slot -> Seq(Loose)], NEW have \in Seq(Pids), NEW todo \in Seq(Record),
         todo # <<>>, NEW s \in Slot, NEW wrong, Fine(map[s], have, todo, s, wrong)
  PROVE  Fine(DropRefused(map, Head(todo))[s], have, Tail(todo), s, wrong)
<1>1. PICK R \in Seq(Pids) :
        Stacked(map[s], R) /\ Grouped(R) /\ (~wrong => R = have \o Of(todo, s))
  BY DEF Fine
<1>2. PICK r \in Record : r = Head(todo)
  OBVIOUS
<1>3. PICK rest \in Seq(Record) : rest = Tail(todo)
  <2>1. Tail(todo) \in Seq(Record)
    OBVIOUS
  <2> QED BY <2>1
<1>4. PICK B \in Seq(Pids) : B = Of(rest, s)
  BY Parts
<1>5. Of(todo, s) = Part(r, s) \o B
  BY <1>2, <1>3, <1>4, OfHead
<1>6. r.pid \in Pids /\ r.slot \in Slot
  BY DEF Record
<1>7. CASE r.slot # s
  <2>1. DropRefused(map, r)[s] = map[s]
    BY <1>6, <1>7 DEF DropRefused
  <2>2. have \o Of(todo, s) = have \o B
    BY <1>5, <1>7 DEF Part
  <2> QED BY <1>1, <1>2, <1>3, <1>4, <2>1, <2>2 DEF Fine
<1>8. CASE r.slot = s
  <2>1. PICK g \in Seq(Loose) : g = map[s]
    OBVIOUS
  <2>2. PICK i : i = Position(g, r.pid)
    OBVIOUS
  <2>3. /\ g \in Seq(Signal) /\ Len(g) = Len(R)
        /\ \A k \in 1 .. Len(R) : g[k].pid = R[k]
    BY <1>1, <2>1 DEF Stacked
  <2>4. have \o Of(todo, s) = have \o <<r.pid>> \o B
    BY <1>4, <1>5, <1>6, <1>8 DEF Part
  <2>5. CASE i = 0
    <3>1. \A k \in 1 .. Len(R) : R[k] # r.pid
      <4>1. \A k \in DOMAIN g : g[k].pid # r.pid
        BY <2>2, <2>5, PositionIs
      <4>2. DOMAIN g = 1 .. Len(R)
        BY <2>3
      <4> QED BY <2>3, <4>1, <4>2
    <3>2. wrong
      <4> SUFFICES ASSUME ~wrong PROVE FALSE
        OBVIOUS
      <4>1. R = have \o <<r.pid>> \o B
        BY <1>1, <2>4
      <4>2. R[Len(have) + 1] = r.pid /\ Len(have) + 1 \in 1 .. Len(R)
        BY <1>6, <4>1
      <4> QED BY <3>1, <4>2
    <3>3. DropRefused(map, r)[s] = map[s]
      BY <1>8, <2>1, <2>2, <2>5 DEF DropRefused
    <3> QED BY <1>1, <1>2, <3>2, <3>3 DEF Fine
  <2>6. CASE i # 0
    <3>1. i \in 1 .. Len(g) /\ i \in DOMAIN R /\ g[i].pid = r.pid /\ R[i] = r.pid
      BY <2>2, <2>3, <2>6, PositionIs
    <3>2. DropRefused(map, r)[s] = Without(g, i)
      BY <1>6, <1>8, <2>1, <2>2, <2>6 DEF DropRefused
    <3>3. Stacked(Without(g, i), RemoveAt(R, i))
      BY <1>1, <2>1, <3>1, WithoutStacked
    <3>4. Grouped(RemoveAt(R, i)) /\ RemoveAt(R, i) \in Seq(Pids)
      BY <1>1, <3>1, GroupedRemoved, Removed
    <3>5. ASSUME ~wrong PROVE RemoveAt(R, i) = have \o B
      <4>1. R = have \o <<r.pid>> \o B
        BY <1>1, <2>4, <3>5
      <4> QED BY <1>1, <1>6, <3>1, <4>1, RemovedSame
    <3> QED BY <1>2, <1>3, <1>4, <3>2, <3>3, <3>4, <3>5 DEF Fine
  <2> QED BY <2>5, <2>6
<1> QED BY <1>7, <1>8

LEMMA FineWrong ==
  ASSUME NEW g, NEW have, NEW todo, NEW s, NEW wrong, Fine(g, have, todo, s, wrong),
         NEW had, NEW left
  PROVE  Fine(g, had, left, s, TRUE)
  BY DEF Fine

-----------------------------------------------------------------------------
(* What a live slot is: its signals sit in the records R that were defined *)
(* for it, and the frame that waits is of the records of some time before. *)
Tracks(g, n, F, R) ==
  /\ R \in Seq(Pids) /\ n = Len(Data(R))
  /\ \A j \in 1 .. Len(g) : Sits(g[j], R)
  /\ \E m \in 0 .. Len(R) : F = SubSeq(R, 1, m)

LEMMA TracksStart ==
  ASSUME NEW g, NEW have, NEW s, Fine(g, have, <<>>, s, FALSE), have \in Seq(Pids)
  PROVE  Tracks(g, Length(g), <<>>, have)
<1>1. PICK R \in Seq(Pids) : Stacked(g, R) /\ R = have \o Of(<<>>, s)
  BY DEF Fine
<1>2. R = have
  BY <1>1, OfNone, ConcatEmptySeq
<1>3. Length(g) = Len(Data(R)) /\ \A i \in 1 .. Len(g) : Sits(g[i], R)
  BY <1>1, StackedSits
<1>4. 0 \in 0 .. Len(R) /\ <<>> = SubSeq(R, 1, 0)
  OBVIOUS
<1> QED BY <1>2, <1>3, <1>4 DEF Tracks

LEMMA TracksRetain ==
  ASSUME NEW g \in Seq(Signal), NEW removes, NEW n, NEW F, NEW R, Tracks(g, n, F, R)
  PROVE  Tracks(Retain(g, removes), n, F, R)
<1>1. \A j \in 1 .. Len(g) : Sits(g[j], R)
  BY DEF Tracks
<1>2. PICK h \in Seq(Signal) : h = Retain(g, removes) /\ Range(h) \subseteq Range(g)
  BY Retained
<1>3. ASSUME NEW j \in 1 .. Len(h) PROVE Sits(h[j], R)
  <2>1. h[j] \in Range(g)
    <3>1. j \in DOMAIN h
      OBVIOUS
    <3>2. h[j] \in Range(h)
      BY <3>1 DEF Range
    <3> QED BY <1>2, <3>2
  <2>2. PICK k \in 1 .. Len(g) : g[k] = h[j]
    BY <2>1 DEF Range
  <2> QED BY <1>1, <2>2
<1> QED BY <1>2, <1>3 DEF Tracks

LEMMA TracksAdd ==
  ASSUME NEW g \in Seq(Signal), NEW n, NEW F, NEW have \in Seq(Pids), NEW p \in Pids,
         Tracks(g, n, F, have)
  PROVE  Tracks(Append(g, Packed(p, n)), n + Width[p], F, Append(have, p))
<1>1. PICK m \in 0 .. Len(have) :
        /\ n = Len(Data(have)) /\ \A j \in 1 .. Len(g) : Sits(g[j], have)
        /\ F = SubSeq(have, 1, m)
  BY DEF Tracks
<1>2. PICK R \in Seq(Pids) : R = Append(have, p)
  <2>1. Append(have, p) \in Seq(Pids)
    OBVIOUS
  <2> QED BY <2>1
<1>3. n + Width[p] = Len(Data(R))
  BY <1>1, <1>2, DataAppend
<1>4. Packed(p, n) \in Signal /\ Sits(Packed(p, n), R)
  <2>1. n \in Nat
    BY <1>1, DataTyped
  <2>2. /\ Packed(p, n).pid = p /\ Packed(p, n).len = Width[p]
        /\ Packed(p, n).offset = Len(Data(have))
    BY <1>1 DEF Packed
  <2>3. Sits(Packed(p, n), Append(have, p))
    BY <2>2, SitsLast
  <2> QED BY <1>2, <2>1, <2>3, PackedSignal
<1>5. R = have \o <<p>>
  BY <1>2
<1>6. ASSUME NEW j \in 1 .. Len(Append(g, Packed(p, n))) PROVE Sits(Append(g, Packed(p, n))[j], R)
  <2>1. CASE j \in 1 .. Len(g)
    <3>1. Append(g, Packed(p, n))[j] = g[j]
      BY <1>4, <2>1
    <3>2. Sits(g[j], have) /\ <<p>> \in Seq(Pids)
      BY <1>1, <2>1
    <3> QED BY <1>5, <3>1, <3>2, SitsLater
  <2>2. CASE j \notin 1 .. Len(g)
    <3>1. Append(g, Packed(p, n))[j] = Packed(p, n)
      BY <1>4, <2>2
    <3> QED BY <1>4, <3>1
  <2> QED BY <2>1, <2>2
<1>7. m \in 0 .. Len(R) /\ F = SubSeq(R, 1, m)
  BY <1>1, <1>2
<1> QED BY <1>2, <1>3, <1>6, <1>7 DEF Tracks

LEMMA TracksFrame ==
  ASSUME NEW g, NEW n, NEW F, NEW R, Tracks(g, n, F, R)
  PROVE  Tracks(g, n, R, R) /\ Tracks(g, n, <<>>, R) /\ n \in Nat
<1>1. R \in Seq(Pids)
  BY DEF Tracks
<1>2. Len(R) \in 0 .. Len(R) /\ R = SubSeq(R, 1, Len(R))
  BY <1>1
<1>3. 0 \in 0 .. Len(R) /\ <<>> = SubSeq(R, 1, 0)
  BY <1>1
<1> QED BY <1>1, <1>2, <1>3, DataTyped DEF Tracks

-----------------------------------------------------------------------------
(* A slice of a frame is the data of its pid, or lies behind the records.  *)
LEMMA FrameIs ==
  ASSUME NEW F \in Seq(Pids)
  PROVE  /\ Len(Frame(F)) = SlotBytes /\ DOMAIN Frame(F) = 1 .. SlotBytes
         /\ \A k \in 1 .. SlotBytes :
              Frame(F)[k] = IF k <= Len(Data(F)) THEN Data(F)[k] ELSE <<NoPid, k>>
<1>1. SlotBytes \in Nat
  BY SlotNat
<1>2. Frame(F) = [k \in 1 .. SlotBytes |-> IF k <= Len(Data(F)) THEN Data(F)[k] ELSE <<NoPid, k>>]
  BY DEF Frame, Data
<1> HIDE DEF Data
<1> QED BY <1>1, <1>2

LEMMA SeqFunction ==
  ASSUME NEW S, NEW u \in Seq(S) PROVE u = [k \in 1 .. Len(u) |-> u[k]]
  OBVIOUS

LEMMA SliceIs ==
  ASSUME NEW D, NEW o \in Nat, NEW n \in Nat, n > 0
  PROVE  SubSeq(D, o + 1, o + n) = [k \in 1 .. n |-> D[o + k]]
<1>0. PICK d : d = SubSeq(D, o + 1, o + n)
  OBVIOUS
<1>1. PICK a \in Int : a = o + 1
  OBVIOUS
<1>2. PICK b \in Int : b = o + n
  OBVIOUS
<1>3. PICK S : S = {D[k] : k \in a .. b}
  OBVIOUS
<1>4. \A i \in a .. b : D[i] \in S
  BY <1>3
<1>5. /\ SubSeq(D, a, b) \in Seq(S)
      /\ Len(SubSeq(D, a, b)) = IF a <= b THEN b - a + 1 ELSE 0
      /\ \A i \in 1 .. b - a + 1 : SubSeq(D, a, b)[i] = D[a + i - 1]
  BY ONLY a \in Int, b \in Int, <1>4, SubSeqProperties
<1>6. a <= b /\ b - a + 1 = n
  BY <1>1, <1>2
<1>7. /\ d \in Seq(S) /\ Len(d) = n
      /\ \A i \in 1 .. n : d[i] = D[a + i - 1]
  BY <1>0, <1>1, <1>2, <1>5, <1>6
<1>8. \A i \in 1 .. n : a + i - 1 = o + i
  BY <1>1
<1>9. \A i \in 1 .. n : d[i] = D[o + i]
  BY <1>7, <1>8
<1>10. d = [k \in 1 .. n |-> d[k]]
  BY <1>7, SeqFunction
<1> QED BY <1>0, <1>9, <1>10

LEMMA BytesApart ==
  ASSUME NEW a \in Seq(Pids \X Nat), NEW b \in Seq(Pids \X Nat), NEW z \in Seq(Pids \X Nat)
  PROVE  \A k \in 1 .. Len(b) : /\ (a \o b \o z)[Len(a) + k] = b[k]
                                /\ Len(a) + k <= Len(a \o b \o z)
  OBVIOUS

LEMMA DataMiddle ==
  ASSUME NEW A \in Seq(Pids), NEW p \in Pids, NEW Z \in Seq(Pids)
  PROVE  \A k \in 1 .. Width[p] :
           /\ Data(A \o <<p>> \o Z)[Len(Data(A)) + k] = Bytes(p)[k]
           /\ Len(Data(A)) + k <= Len(Data(A \o <<p>> \o Z))
<1>1. <<p>> \in Seq(Pids) /\ A \o <<p>> \in Seq(Pids)
  OBVIOUS
<1>2. /\ Data(A \o <<p>> \o Z) = Data(A \o <<p>>) \o Data(Z)
      /\ Data(A \o <<p>>) = Data(A) \o Data(<<p>>)
  BY <1>1, DataConcat
<1>3. Data(A \o <<p>> \o Z) = Data(A) \o Bytes(p) \o Data(Z)
  BY <1>2, DataOne
<1>4. /\ Data(A) \in Seq(Pids \X Nat) /\ Data(Z) \in Seq(Pids \X Nat)
      /\ Bytes(p) \in Seq(Pids \X Nat) /\ Len(Bytes(p)) = Width[p]
  BY DataTyped, BytesAre
<1>5. PICK a \in Seq(Pids \X Nat) : a = Data(A)
  BY <1>4
<1>6. PICK b \in Seq(Pids \X Nat) : b = Bytes(p)
  BY <1>4
<1>7. PICK z \in Seq(Pids \X Nat) : z = Data(Z)
  BY <1>4
<1>8. \A k \in 1 .. Len(b) : /\ (a \o b \o z)[Len(a) + k] = b[k]
                             /\ Len(a) + k <= Len(a \o b \o z)
  BY BytesApart
<1> QED BY <1>3, <1>4, <1>5, <1>6, <1>7, <1>8

LEMMA SliceTrue ==
  ASSUME NEW R \in Seq(Pids), NEW m \in 0 .. Len(R), NEW g \in Signal, Sits(g, R),
         g.offset + g.len <= SlotBytes,
         NEW d, d = SubSeq(Frame(SubSeq(R, 1, m)), g.offset + 1, g.offset + g.len),
         \E k \in DOMAIN d : d[k][1] # NoPid
  PROVE  d = Bytes(g.pid)
<1>1. PICK i \in 1 .. Len(R) :
        g.pid = R[i] /\ g.len = Width[R[i]] /\ g.offset = Len(Data(Before(R, i)))
  BY DEF Sits
<1>2. PICK F \in Seq(Pids) : F = SubSeq(R, 1, m)
  <2>1. SubSeq(R, 1, m) \in Seq(Pids)
    OBVIOUS
  <2> QED BY <2>1
<1>3. PICK A \in Seq(Pids) : A = Before(R, i)
  <2>1. SubSeq(R, 1, i - 1) \in Seq(Pids)
    OBVIOUS
  <2> QED BY <2>1 DEF Before
<1>4. g.offset \in Nat /\ g.len \in Nat /\ g.len > 0 /\ SlotBytes \in Nat
  BY SlotNat DEF Signal
<1>5. PICK D : D = Frame(F)
  OBVIOUS
<1>6. /\ Len(D) = SlotBytes /\ DOMAIN D = 1 .. SlotBytes
      /\ \A k \in 1 .. SlotBytes : D[k] = IF k <= Len(Data(F)) THEN Data(F)[k] ELSE <<NoPid, k>>
  BY <1>5, FrameIs
<1>7. /\ d = [k \in 1 .. g.len |-> d[k]]
      /\ \A k \in 1 .. g.len : d[k] = D[g.offset + k]
      /\ \A k \in 1 .. g.len : g.offset + k \in 1 .. SlotBytes
  <2>1. PICK o : o = g.offset
    OBVIOUS
  <2>2. PICK n : n = g.len
    OBVIOUS
  <2>3. o \in Nat /\ n \in Nat /\ n > 0 /\ o + n <= SlotBytes
    BY <1>4, <2>1, <2>2
  <2>4. d = SubSeq(D, o + 1, o + n)
    BY <1>2, <1>5, <2>1, <2>2
  <2>5. d = [k \in 1 .. n |-> d[k]] /\ \A k \in 1 .. n : d[k] = D[o + k]
    <3>1. \A x, y \in Nat : y > 0 =>
            SubSeq(D, x + 1, x + y) = [k \in 1 .. y |-> D[x + k]]
      BY SliceIs
    <3>2. d = [k \in 1 .. n |-> D[o + k]]
      BY <2>3, <2>4, <3>1, Zenon
    <3> QED BY ONLY <3>2
  <2>6. \A k \in 1 .. n : o + k \in 1 .. SlotBytes
    <3>1. SlotBytes \in Nat
      BY SlotNat
    <3> QED BY ONLY <2>3, <3>1
  <2> QED BY <2>1, <2>2, <2>5, <2>6
<1>8. Len(Data(F)) \in Nat /\ Len(Data(A)) = g.offset
  BY <1>1, <1>3, DataTyped
<1>9. CASE i <= m
  <2>1. PICK Z \in Seq(Pids) : Z = SubSeq(R, i + 1, m)
    <3>1. SubSeq(R, i + 1, m) \in Seq(Pids)
      OBVIOUS
    <3> QED BY <3>1
  <2>2. F = A \o <<R[i]>> \o Z
    BY <1>2, <1>3, <1>9, <2>1 DEF Before
  <2>22. PICK r \in Pids : r = R[i]
    OBVIOUS
  <2>3. \A k \in 1 .. g.len : /\ Data(F)[g.offset + k] = Bytes(r)[k]
                             /\ g.offset + k <= Len(Data(F))
    <3>1. \A k \in 1 .. Width[r] :
            /\ Data(A \o <<r>> \o Z)[Len(Data(A)) + k] = Bytes(r)[k]
            /\ Len(Data(A)) + k <= Len(Data(A \o <<r>> \o Z))
      BY DataMiddle
    <3>2. F = A \o <<r>> \o Z /\ g.len = Width[r]
      BY <1>1, <2>2, <2>22
    <3> QED BY ONLY <1>8, <3>1, <3>2
  <2>4. \A k \in 1 .. g.len : D[g.offset + k] = Bytes(r)[k]
    BY <1>6, <1>7, <2>3
  <2>5. Bytes(r) = [k \in 1 .. g.len |-> Bytes(r)[k]]
    BY <1>1, <2>22 DEF Bytes
  <2> QED BY <1>1, <1>7, <2>22, <2>4, <2>5
<1>10. CASE i > m
  <2>1. PICK Z \in Seq(Pids) : Z = SubSeq(R, m + 1, i - 1)
    <3>1. SubSeq(R, m + 1, i - 1) \in Seq(Pids)
      OBVIOUS
    <3> QED BY <3>1
  <2>2. A = F \o Z
    BY <1>2, <1>3, <1>10, <2>1 DEF Before
  <2>3. Data(A) = Data(F) \o Data(Z)
    BY <2>2, DataConcat
  <2>4. Len(Data(F)) <= Len(Data(A))
    BY <2>3, DataTyped
  <2>5. \A k \in 1 .. g.len : ~(g.offset + k <= Len(Data(F)))
    BY <1>4, <1>8, <2>4
  <2>6. \A k \in 1 .. g.len : D[g.offset + k] = <<NoPid, g.offset + k>>
    <3> SUFFICES ASSUME NEW k \in 1 .. g.len PROVE D[g.offset + k] = <<NoPid, g.offset + k>>
      OBVIOUS
    <3>1. PICK x : x = g.offset + k
      OBVIOUS
    <3>2. x \in 1 .. SlotBytes /\ ~(x <= Len(Data(F)))
      BY <1>7, <2>5, <3>1
    <3>3. D[x] = <<NoPid, x>>
      BY <1>6, <3>2
    <3> QED BY <3>1, <3>3
  <2>7. \A k \in 1 .. g.len : d[k][1] = NoPid
    <3>1. \A k \in 1 .. g.len : d[k] = <<NoPid, g.offset + k>>
      BY <1>7, <2>6
    <3>2. \A x : <<NoPid, x>>[1] = NoPid
      OBVIOUS
    <3> QED BY ONLY <3>1, <3>2
  <2>8. DOMAIN d = 1 .. g.len
    BY <1>7
  <2> QED BY <2>7, <2>8
<1> QED BY <1>9, <1>10

LEMMA TracksTrue ==
  ASSUME NEW g \in Seq(Signal), NEW n, NEW F, NEW R, Tracks(g, n, F, R),
         NEW d \in Decode(g, Frame(F)), \E k \in DOMAIN d[2] : d[2][k][1] # NoPid
  PROVE  d[2] = Bytes(d[1])
<1>1. /\ R \in Seq(Pids) /\ \A j \in 1 .. Len(g) : Sits(g[j], R)
      /\ \E m \in 0 .. Len(R) : F = SubSeq(R, 1, m)
  BY DEF Tracks
<1>2. PICK m \in 0 .. Len(R) : F = SubSeq(R, 1, m)
  BY <1>1
<1>3. F \in Seq(Pids)
  BY <1>1, <1>2
<1>4. PICK j \in 1 .. Len(g) :
        /\ d = <<g[j].pid, SubSeq(Frame(F), g[j].offset + 1, g[j].offset + g[j].len)>>
        /\ g[j].offset + g[j].len <= Len(Frame(F))
  <2>1. DOMAIN g = 1 .. Len(g)
    OBVIOUS
  <2>2. PICK D : D = Frame(F)
    OBVIOUS
  <2>3. d \in Decode(g, D)
    BY <2>2
  <2>4. \E j \in DOMAIN g : /\ g[j].offset + g[j].len <= Len(D)
                            /\ d = <<g[j].pid, SubSeq(D, g[j].offset + 1, g[j].offset + g[j].len)>>
    BY ONLY <2>3, Zenon DEF Decode
  <2> QED BY <2>1, <2>2, <2>4
<1>5. g[j] \in Signal /\ Sits(g[j], R) /\ Len(Frame(F)) = SlotBytes
  <2>1. g[j] \in Signal
    OBVIOUS
  <2>2. Len(Frame(F)) = SlotBytes
    BY <1>3, FrameIs
  <2> QED BY <1>1, <2>1, <2>2
<1>6. d[1] = g[j].pid /\ d[2] = SubSeq(Frame(F), g[j].offset + 1, g[j].offset + g[j].len)
  BY <1>4
<1> QED BY <1>1, <1>2, <1>4, <1>5, <1>6, SliceTrue
-----------------------------------------------------------------------------
(* The invariant.  Passes are what the beat does under transport_op.       *)
Passes == {"break", "signals", "quiet", "add", "rearm"}

Setups == [pc : {"define", "live", "bailed"}, todo : Seq(Record), refused : Seq(Record)]
Ecus == [records : [Slot -> Seq(Pids)], sends : SUBSET Slot]
Beats == [pc : Passes \cup {"none", "arm", "wait", "done"}, adds : SUBSET Pids]
Pendings == [adds : SUBSET Pids, removes : SUBSET Pids]
USE DEF Setups, Ecus, Beats, Pendings

StreamShape ==
  /\ ecu \in Ecus
  /\ unpack \in [Slot -> Seq(Signal)] /\ fill \in [Slot -> Nat]
  /\ frames \in [Slot -> Seq(Pids)] /\ late \in Nat /\ misled \in BOOLEAN
  /\ setup \in Setups
  /\ beat \in Beats
  /\ pending \in Pendings

(* The passes keep out of the worker's way, and leave the monitor first.   *)
PassesHeld ==
  /\ op = "beat" <=> beat.pc \in Passes
  /\ Told
  /\ stop \in {"tear", "done"} => beat.pc \notin Passes
  /\ beat.pc \in Passes \ {"break"} => adapter = "prompt"

(* Until the stream is live nothing is sent and nobody runs.               *)
Idle == setup.pc # "live" => /\ beat.pc = "none" /\ stop = "idle"
                             /\ adapter = "prompt" /\ frames = Empty

(* What the map will be without what was refused so far is stacked, and is *)
(* what the vehicle has and will have, unless it took a refused record.    *)
Kept(map, refused) == FoldLeft(DropRefused, map, refused)
Defining == setup.pc = "define" =>
  \A s \in Slot :
    Fine(Kept(unpack, setup.refused)[s], ecu.records[s], setup.todo, s, misled)

(* A live map's signals sit in what was defined, which the vehicle has     *)
(* until the stop clears it; a frame may still wait after that.            *)
Following == setup.pc = "live" /\ ~misled =>
  \A s \in Slot : \E R \in Seq(Pids) :
    Tracks(unpack[s], fill[s], frames[s], R) /\ (stop # "done" => ecu.records[s] = R)

LateCounted == (late > 0 => misled) /\ \A s \in Slot : setup.pc = "live" /\ unpack[s] # <<>> =>
                                                     fill[s] > 0

(* Outside the passes that define, every slot with a signal is sent.       *)
Sent ==
  /\ stop = "done" \/ setup.pc # "live" => ecu.sends = {}
  /\ setup.pc = "live" /\ stop # "done" /\ beat.pc \notin {"quiet", "add"} =>
       \A s \in Slot : unpack[s] # <<>> => s \in ecu.sends

MapInv == StreamShape /\ Defining /\ Following /\ LateCounted
StreamInv == MapInv /\ PassesHeld /\ Idle /\ Sent

-----------------------------------------------------------------------------
LEMMA KeptTyped ==
  ASSUME StreamShape PROVE Kept(unpack, setup.refused) \in [Slot -> Seq(Loose)]
<1>1. unpack \in [Slot -> Seq(Loose)] /\ setup.refused \in Seq(Record)
  BY SignalLoose DEF StreamShape
<1> QED BY <1>1, DropFold DEF Kept

LEMMA StreamStart == StreamInit => StreamInv
<1> SUFFICES ASSUME StreamInit PROVE StreamInv
  OBVIOUS
<1>1. PICK signals \in Subscribed : LET set == BuildDefines(signals, Known)
        IN unpack = set.unpack /\ setup = [pc |-> "define", todo |-> set.records, refused |-> <<>>]
  BY DEF StreamInit
<1>2. PICK set : set = BuildDefines(signals, Known)
  OBVIOUS
<1>3. signals \in Seq(Pids) /\ Grouped(signals)
  BY ConstantsAssumption
<1>4. Built(set, signals)
  BY <1>2, <1>3, BuildsStacked
<1>5. /\ set \in Sets
      /\ \A s \in Slot : /\ Stacked(set.unpack[s], Of(set.records, s))
                         /\ Trails(Of(set.records, s), signals)
  BY <1>4 DEF Built
<1>6. unpack = set.unpack /\ setup = [pc |-> "define", todo |-> set.records, refused |-> <<>>]
  BY <1>1, <1>2
<1>7. unpack \in [Slot -> Seq(Loose)] /\ set.records \in Seq(Record)
  BY <1>5, <1>6 DEF Sets
<1>8. \A s \in Slot : unpack[s] \in Seq(Signal)
  BY <1>5, <1>6 DEF Stacked
<1>9. unpack \in [Slot -> Seq(Signal)]
  BY <1>7, <1>8
<1>10. Kept(unpack, <<>>) = unpack
  BY <1>7, DropNone DEF Kept
<1>11. ASSUME NEW s \in Slot PROVE Fine(unpack[s], <<>>, set.records, s, misled)
  <2>1. PICK R \in Seq(Pids) : R = Of(set.records, s)
    BY <1>7, Parts
  <2>2. R = <<>> \o Of(set.records, s)
    BY <2>1, ConcatEmptySeq
  <2>3. Stacked(unpack[s], R) /\ Grouped(R)
    BY <1>5, <1>6, <2>1 DEF Trails
  <2> QED BY <2>2, <2>3 DEF Fine
<1>12. ecu = [records |-> Empty, sends |-> {}] /\ Empty \in [Slot -> Seq(Pids)]
  BY DEF StreamInit, Empty
<1>13. Defining
  BY <1>6, <1>10, <1>11, <1>12 DEF Defining, Empty
<1>14. StreamShape
  <2>1. /\ ecu \in Ecus
        /\ fill \in [Slot -> Nat] /\ frames \in [Slot -> Seq(Pids)]
        /\ late \in Nat /\ misled \in BOOLEAN
    <3>1. ecu \in Ecus
      <4>1. {} \in SUBSET Slot
        OBVIOUS
      <4> QED BY ONLY <1>12, <4>1
    <3>2. frames = Empty
      BY DEF StreamInit, Empty
    <3>3. fill \in [Slot -> Nat] /\ late \in Nat /\ misled \in BOOLEAN
      BY DEF StreamInit
    <3> QED BY <1>12, <3>1, <3>2, <3>3
  <2>2. setup \in Setups
    <3>1. <<>> \in Seq(Record)
      OBVIOUS
    <3> QED BY ONLY <1>6, <1>7, <3>1
  <2>3. /\ beat = [pc |-> "none", adds |-> {}] /\ pending = [adds |-> {}, removes |-> {}]
    BY DEF StreamInit
  <2>4. /\ beat \in Beats
        /\ pending \in Pendings
    BY ONLY <2>3
  <2> QED BY <1>9, <2>1, <2>2, <2>4 DEF StreamShape
<1>15. Following /\ LateCounted
  BY <1>6 DEF StreamInit, Following, LateCounted
<1>16. PassesHeld /\ Idle /\ Sent
  BY <1>6, <1>12 DEF StreamInit, PassesHeld, Passes, Told, Idle, Sent, Empty
<1> QED BY <1>13, <1>14, <1>15, <1>16 DEF StreamInv, MapInv

-----------------------------------------------------------------------------
(* What the map part of the invariant looks at, left alone.                *)
LEMMA MapStays ==
  ASSUME MapInv, UNCHANGED <<ecu, unpack, fill, frames, late, setup, misled>>,
         stop = "done" => stop' = "done",
         beat' \in Beats,
         pending' \in Pendings
  PROVE  MapInv'
<1>1. StreamShape'
  BY DEF MapInv, StreamShape
<1>2. Defining'
  BY DEF MapInv, Defining
<1>3. Following' /\ LateCounted'
  BY DEF MapInv, Following, LateCounted
<1> QED BY <1>1, <1>2, <1>3 DEF MapInv

LEMMA AckedKeeps == ASSUME StreamInv, SetupAcked PROVE StreamInv'
<1>1. PICK r \in Record : r = Head(setup.todo)
  BY DEF SetupAcked, StreamInv, MapInv, StreamShape
<1>2. PICK have : have = ecu.records
  OBVIOUS
<1>3. r.slot \in Slot /\ r.pid \in Pids
  BY DEF Record
<1>4. /\ ecu \in Ecus
      /\ have \in [Slot -> Seq(Pids)] /\ setup.todo \in Seq(Record) /\ setup.todo # <<>>
      /\ setup \in Setups
  BY <1>2 DEF SetupAcked, StreamInv, MapInv, StreamShape
<1>5. /\ ecu'.sends = ecu.sends
      /\ ecu'.records = [have EXCEPT ![r.slot] = Append(@, r.pid)]
      /\ ecu' \in Ecus
  <2>1. ecu' = [ecu EXCEPT !.records = [have EXCEPT ![r.slot] = Append(@, r.pid)]]
    BY <1>1, <1>2, <1>4 DEF SetupAcked, Joins
  <2>2. [have EXCEPT ![r.slot] = Append(@, r.pid)] \in [Slot -> Seq(Pids)]
    BY <1>3, <1>4
  <2> QED BY <1>4, <2>1, <2>2
<1>6. PICK rest \in Seq(Record) : rest = Tail(setup.todo)
  <2>1. Tail(setup.todo) \in Seq(Record)
    BY <1>4
  <2> QED BY <2>1
<1>7. /\ setup' = [setup EXCEPT !.todo = rest] /\ setup.pc = "define"
      /\ setup'.todo = rest /\ setup'.refused = setup.refused /\ setup'.pc = "define"
  BY <1>4, <1>6 DEF SetupAcked
<1>8. UNCHANGED <<unpack, fill, frames, late, misled, beat, pending, stop, op, loopStop, adapter>>
  BY DEF SetupAcked, mapVars, flagVars, historyVars
<1>9. StreamShape'
  BY <1>4, <1>5, <1>7, <1>8 DEF StreamInv, MapInv, StreamShape
<1>10. ASSUME NEW s \in Slot
       PROVE  Fine(Kept(unpack, setup.refused)[s], ecu'.records[s], rest, s, misled)
  <2>1. Fine(Kept(unpack, setup.refused)[s], have[s], setup.todo, s, misled)
    BY <1>2, <1>7 DEF StreamInv, MapInv, Defining
  <2>2. have[s] \in Seq(Pids)
    BY <1>4
  <2>3. ecu'.records[s] = IF r.slot = s THEN Append(have[s], r.pid) ELSE have[s]
    BY <1>3, <1>4, <1>5
  <2>4. Fine(Kept(unpack, setup.refused)[s],
             IF r.slot = s THEN Append(have[s], r.pid) ELSE have[s], rest, s, misled)
    BY <1>1, <1>4, <1>6, <2>1, <2>2, FineAcked
  <2> QED BY <2>3, <2>4
<1>11. Defining'
  BY <1>7, <1>8, <1>10 DEF Defining
<1>12. Following' /\ LateCounted' /\ PassesHeld' /\ Idle' /\ Sent'
  BY <1>5, <1>7, <1>8 DEF StreamInv, MapInv, Following, LateCounted, PassesHeld, Told, Idle, Sent
<1> QED BY <1>9, <1>11, <1>12 DEF StreamInv, MapInv

LEMMA RefusedKeeps == ASSUME StreamInv, SetupRefused PROVE StreamInv'
<1>1. PICK r \in Record : r = Head(setup.todo)
  BY DEF SetupRefused, StreamInv, MapInv, StreamShape
<1>2. PICK have : have = ecu.records
  OBVIOUS
<1>3. r.slot \in Slot /\ r.pid \in Pids
  BY DEF Record
<1>4. /\ ecu \in Ecus
      /\ have \in [Slot -> Seq(Pids)] /\ setup.todo \in Seq(Record) /\ setup.todo # <<>>
      /\ setup.refused \in Seq(Record) /\ misled \in BOOLEAN
      /\ setup \in Setups
  BY <1>2 DEF SetupRefused, StreamInv, MapInv, StreamShape
<1>5. /\ ecu'.sends = ecu.sends
      /\ ecu' \in Ecus
      /\ (misled' = misled /\ ecu' = ecu) \/ misled' = TRUE
  <2>1. CASE UNCHANGED <<ecu, misled>>
    BY <1>4, <2>1
  <2>2. CASE Joins(Head(setup.todo)) /\ misled' = TRUE
    <3>1. ecu' = [ecu EXCEPT !.records = [have EXCEPT ![r.slot] = Append(@, r.pid)]]
      BY <1>1, <1>2, <1>4, <2>2 DEF Joins
    <3>2. [have EXCEPT ![r.slot] = Append(@, r.pid)] \in [Slot -> Seq(Pids)]
      BY <1>3, <1>4
    <3> QED BY <1>4, <2>2, <3>1, <3>2
  <2> QED BY <2>1, <2>2 DEF SetupRefused
<1>6. PICK rest \in Seq(Record) : rest = Tail(setup.todo)
  <2>1. Tail(setup.todo) \in Seq(Record)
    BY <1>4
  <2> QED BY <2>1
<1>7. PICK out \in Seq(Record) : out = Append(setup.refused, r)
  <2>1. Append(setup.refused, r) \in Seq(Record)
    BY <1>4
  <2> QED BY <2>1
<1>8. /\ setup' = [setup EXCEPT !.todo = rest, !.refused = out] /\ setup.pc = "define"
      /\ setup'.todo = rest /\ setup'.refused = out /\ setup'.pc = "define"
  BY <1>1, <1>4, <1>6, <1>7 DEF SetupRefused
<1>9. UNCHANGED <<unpack, fill, frames, late, beat, pending, stop, op, loopStop, adapter>>
  BY DEF SetupRefused, mapVars, flagVars, historyVars
<1>10. StreamShape'
  BY <1>4, <1>5, <1>8, <1>9 DEF StreamInv, MapInv, StreamShape
<1>11. PICK map \in [Slot -> Seq(Loose)] : map = Kept(unpack, setup.refused)
  BY KeptTyped DEF StreamInv, MapInv
<1>12. Kept(unpack, out) = DropRefused(map, r)
  <2>1. unpack \in [Slot -> Seq(Loose)]
    BY SignalLoose DEF StreamInv, MapInv, StreamShape
  <2> QED BY <1>4, <1>7, <1>11, <2>1, DropOne DEF Kept
<1>13. ASSUME NEW s \in Slot
       PROVE  Fine(DropRefused(map, r)[s], ecu'.records[s], rest, s, misled')
  <2>1. Fine(map[s], have[s], setup.todo, s, misled)
    BY <1>2, <1>8, <1>11 DEF StreamInv, MapInv, Defining
  <2>2. have[s] \in Seq(Pids)
    BY <1>4
  <2>3. Fine(DropRefused(map, r)[s], have[s], rest, s, misled)
    BY <1>1, <1>4, <1>6, <2>1, <2>2, FineRefused
  <2>4. Fine(DropRefused(map, r)[s], ecu'.records[s], rest, s, TRUE)
    BY <2>3, FineWrong
  <2> QED BY <1>2, <1>5, <2>3, <2>4
<1>14. Defining'
  BY <1>8, <1>9, <1>12, <1>13 DEF Defining
<1>15. LateCounted'
  BY <1>5, <1>8, <1>9 DEF StreamInv, MapInv, LateCounted
<1>16. Following' /\ PassesHeld' /\ Idle' /\ Sent'
  BY <1>5, <1>8, <1>9 DEF StreamInv, MapInv, Following, PassesHeld, Told, Idle, Sent
<1> QED BY <1>10, <1>14, <1>15, <1>16 DEF StreamInv, MapInv

(* A slot with a signal has bytes.                                         *)
LEMMA StackedLength ==
  ASSUME NEW g, NEW R, Stacked(g, R)
  PROVE  g \in Seq(Signal) /\ Length(g) \in Nat /\ (g # <<>> => Length(g) > 0)
<1>1. g \in Seq(Signal)
  BY DEF Stacked
<1>2. Length(g) \in Nat
  BY <1>1, SignalLoose, LengthFold
<1>3. ASSUME g # <<>> PROVE Length(g) > 0
  <2>1. Len(g) \in Nat /\ Len(g) \in 1 .. Len(g) /\ g[Len(g)] \in Signal
    BY <1>1, <1>3
  <2>2. g[Len(g)].offset \in Nat /\ g[Len(g)].len \in Nat /\ g[Len(g)].len > 0
    BY <2>1 DEF Signal
  <2>3. Length(g) = g[Len(g)].offset + g[Len(g)].len
    BY <1>3, StackedSits DEF End
  <2> QED BY <2>2, <2>3
<1> QED BY <1>1, <1>2, <1>3

LEMMA StartsKeeps == ASSUME StreamInv, SetupStarts PROVE StreamInv'
<1>1. PICK map \in [Slot -> Seq(Loose)] : map = Kept(unpack, setup.refused)
  BY KeptTyped DEF StreamInv, MapInv
<1>2. /\ setup.pc = "define" /\ setup.todo = <<>>
      /\ setup \in Setups
      /\ ecu \in Ecus
      /\ beat \in Beats
      /\ <<>> \in Seq(Record)
  BY DEF SetupStarts, StreamInv, MapInv, StreamShape
<1>3. /\ beat.pc = "none" /\ stop = "idle" /\ adapter = "prompt" /\ frames = Empty
      /\ op # "beat" /\ ecu.sends = {} /\ (late > 0 => misled)
  BY <1>2 DEF StreamInv, MapInv, Idle, PassesHeld, Sent, LateCounted, Passes
<1>4. UNCHANGED <<adapter, late, frames, pending, stop, op, loopStop, misled>>
  BY DEF SetupStarts, flagVars, historyVars
<1>5. \A s \in Slot : Fine(map[s], ecu.records[s], <<>>, s, misled)
  BY <1>1, <1>2 DEF StreamInv, MapInv, Defining
<1>6. CASE unpack' = unpack /\ fill' = fill /\ ecu' = ecu /\ beat' = beat
           /\ setup' = [setup EXCEPT !.pc = "bailed", !.refused = <<>>]
  <2>1. setup' \in Setups
        /\ setup'.pc = "bailed"
    BY <1>2, <1>6
  <2>2. StreamShape'
    BY <1>2, <1>4, <1>6, <2>1 DEF StreamInv, MapInv, StreamShape
  <2> QED BY <1>3, <1>4, <1>6, <2>1, <2>2
          DEF StreamInv, MapInv, Defining, Following, LateCounted, PassesHeld, Told, Idle, Sent
<1>7. CASE /\ unpack' = map /\ fill' = FillOf(map)
           /\ ecu' = [ecu EXCEPT !.sends = {s \in Slot : map[s] # <<>>}]
           /\ setup' = [setup EXCEPT !.pc = "live", !.refused = <<>>]
           /\ beat' = [beat EXCEPT !.pc = "arm"]
  <2>1. /\ setup' \in Setups
        /\ setup'.pc = "live"
    BY <1>2, <1>7
  <2>2. /\ ecu'.records = ecu.records /\ ecu'.sends = {s \in Slot : map[s] # <<>>}
        /\ ecu' \in Ecus
    BY <1>2, <1>7
  <2>3. /\ beat' \in Beats
        /\ beat'.pc = "arm"
    BY <1>2, <1>7
  <2>4. \A s \in Slot : fill'[s] = Length(map[s])
    BY <1>7 DEF FillOf, Length
  <2>5. ASSUME NEW s \in Slot
        PROVE  /\ map[s] \in Seq(Signal) /\ fill'[s] \in Nat /\ (map[s] # <<>> => fill'[s] > 0)
               /\ ~misled => Tracks(map[s], fill'[s], <<>>, ecu.records[s])
    <3>1. Fine(map[s], ecu.records[s], <<>>, s, misled) /\ ecu.records[s] \in Seq(Pids)
      BY <1>2, <1>5
    <3>2. PICK R \in Seq(Pids) : Stacked(map[s], R)
      BY <3>1 DEF Fine
    <3>3. ASSUME ~misled PROVE Tracks(map[s], Length(map[s]), <<>>, ecu.records[s])
      <4>1. Fine(map[s], ecu.records[s], <<>>, s, FALSE)
        BY <3>1, <3>3 DEF Fine
      <4> QED BY <3>1, <4>1, TracksStart
    <3> QED BY <2>4, <3>2, <3>3, StackedLength
  <2>6. unpack' \in [Slot -> Seq(Signal)] /\ fill' \in [Slot -> Nat]
    BY <1>7, <2>5 DEF FillOf
  <2>7. StreamShape'
    BY <1>4, <2>1, <2>2, <2>3, <2>6 DEF StreamInv, MapInv, StreamShape
  <2>8. Following'
    <3> SUFFICES ASSUME ~misled, NEW s \in Slot
                 PROVE  \E R \in Seq(Pids) : /\ Tracks(unpack'[s], fill'[s], frames'[s], R)
                                             /\ stop' # "done" => ecu'.records[s] = R
      BY <1>4 DEF Following
    <3>1. frames'[s] = <<>> /\ ecu.records[s] \in Seq(Pids)
      BY <1>2, <1>3, <1>4 DEF Empty
    <3> QED BY <1>7, <2>2, <2>5, <3>1
  <2>9. Defining' /\ LateCounted'
    BY <1>3, <1>4, <1>7, <2>1, <2>5 DEF Defining, LateCounted
  <2>10. PassesHeld' /\ Idle' /\ Sent'
    BY <1>3, <1>4, <1>7, <2>1, <2>2, <2>3 DEF PassesHeld, Passes, Told, Idle, Sent
  <2> QED BY <2>7, <2>8, <2>9, <2>10 DEF StreamInv, MapInv
<1> QED BY <1>1, <1>6, <1>7 DEF SetupStarts, Kept

-----------------------------------------------------------------------------
(* The beat thread.                                                        *)
LEMMA Running == ASSUME StreamInv, beat.pc # "none" PROVE setup.pc = "live"
  BY DEF StreamInv, Idle

LEMMA HostKeeps ==
  ASSUME StreamInv, NEW p \in Pids, StreamAdds(p) \/ StreamRemoves(p) PROVE StreamInv'
<1>1. UNCHANGED <<ecu, adapter, unpack, fill, frames, late, setup, misled, beat,
                  stop, op, loopStop>>
  BY DEF StreamAdds, StreamRemoves, wireVars, mapVars, flagVars, historyVars
<1>2. pending \in Pendings
  BY DEF StreamInv, MapInv, StreamShape
<1>3. pending' \in Pendings
  BY <1>2 DEF StreamAdds, StreamRemoves
<1>4. MapInv'
  <2>1. beat' \in Beats
    BY <1>1 DEF StreamInv, MapInv, StreamShape
  <2> QED BY <1>1, <1>3, <2>1, MapStays DEF StreamInv
<1>5. PassesHeld' /\ Idle' /\ Sent'
  BY <1>1 DEF StreamInv, PassesHeld, Told, Idle, Sent
<1> QED BY <1>4, <1>5 DEF StreamInv

(* A step of the beat that leaves the map and the vehicle alone.           *)
LEMMA PassKeeps ==
  ASSUME StreamInv, BeatArms \/ BeatWaits \/ BeatBreaks \/ BeatRearms PROVE StreamInv'
<1>1. /\ beat \in Beats
      /\ pending \in Pendings
  BY DEF StreamInv, MapInv, StreamShape
<1>2. UNCHANGED <<ecu, unpack, fill, frames, late, setup, misled, stop, pending, loopStop>>
  BY DEF BeatArms, BeatWaits, BeatBreaks, BeatRearms, wireVars, mapVars, flagVars, historyVars
<1>3. beat.pc \in {"arm", "wait", "break", "rearm"}
  BY DEF BeatArms, BeatWaits, BeatBreaks, BeatRearms, BeatAt
<1>4. setup.pc = "live"
  BY <1>3, Running
<1>5. /\ beat' \in Beats
      /\ beat'.pc \in {"wait", "done", "break", "signals"}
  BY <1>1 DEF BeatArms, BeatWaits, BeatBreaks, BeatRearms, Goes, Passes
<1>6. MapInv'
  BY <1>1, <1>2, <1>5, MapStays DEF StreamInv
<1>7. Idle' /\ Sent'
  BY <1>2, <1>3, <1>4, <1>5 DEF StreamInv, Idle, Sent
<1>8. PassesHeld'
  <2>1. CASE BeatArms
    BY <1>1, <1>2, <2>1 DEF BeatArms, BeatAt, Goes, StreamInv, PassesHeld, Passes, Told
  <2>2. CASE BeatWaits
    BY <1>1, <1>2, <2>2 DEF BeatWaits, BeatAt, Goes, StreamInv, PassesHeld, Passes, Told
  <2>3. CASE BeatBreaks
    BY <1>1, <1>2, <2>3 DEF BeatBreaks, BeatAt, Goes, StreamInv, PassesHeld, Passes, Told
  <2>4. CASE BeatRearms
    BY <1>1, <1>2, <2>4 DEF BeatRearms, BeatAt, Goes, StreamInv, PassesHeld, Passes, Told
  <2> QED BY <2>1, <2>2, <2>3, <2>4
<1> QED BY <1>6, <1>7, <1>8 DEF StreamInv

LEMMA TakesKeeps == ASSUME StreamInv, BeatTakesSignals PROVE StreamInv'
<1>1. /\ pending \in Pendings
      /\ unpack \in [Slot -> Seq(Signal)] /\ beat.pc = "signals"
  BY DEF BeatTakesSignals, BeatAt, StreamInv, MapInv, StreamShape
<1>2. UNCHANGED <<ecu, adapter, late, frames, fill, setup, stop, op, loopStop, misled>>
  BY DEF BeatTakesSignals, wireVars, flagVars, historyVars
<1>3. setup.pc = "live"
  BY <1>1, Running
<1>4. /\ beat' \in Beats
      /\ beat'.pc \in {"rearm", "quiet"}
      /\ pending' \in Pendings
  BY <1>1 DEF BeatTakesSignals, Passes
<1>5. PICK removes : removes = pending.removes
  OBVIOUS
<1>6. \A s \in Slot : unpack'[s] = Retain(unpack[s], removes)
  BY <1>5 DEF BeatTakesSignals
<1>7. ASSUME NEW s \in Slot
      PROVE  /\ Retain(unpack[s], removes) \in Seq(Signal)
             /\ Retain(unpack[s], removes) # <<>> => unpack[s] # <<>>
  <2>1. PICK g \in Seq(Signal) : g = unpack[s]
    BY <1>1
  <2>2. PICK h \in Seq(Signal) : h = Retain(g, removes) /\ Range(h) \subseteq Range(g)
    BY Retained
  <2>3. ASSUME h # <<>> PROVE g # <<>>
    <3>1. Len(h) # 0 /\ 1 \in DOMAIN h
      BY <2>3
    <3>2. h[1] \in Range(g)
      BY <2>2, <3>1 DEF Range
    <3>3. DOMAIN g # {}
      BY <3>2 DEF Range
    <3> QED BY <3>3
  <2> QED BY <2>1, <2>2, <2>3
<1>8. unpack' \in [Slot -> Seq(Signal)]
  BY <1>5, <1>7 DEF BeatTakesSignals
<1>9. StreamShape'
  BY <1>2, <1>4, <1>8 DEF StreamInv, MapInv, StreamShape
<1>10. Following'
  <2> SUFFICES ASSUME ~misled, NEW s \in Slot
               PROVE  \E R \in Seq(Pids) : /\ Tracks(unpack'[s], fill'[s], frames'[s], R)
                                           /\ stop' # "done" => ecu'.records[s] = R
    BY <1>2 DEF Following
  <2>1. PICK R \in Seq(Pids) : /\ Tracks(unpack[s], fill[s], frames[s], R)
                               /\ stop # "done" => ecu.records[s] = R
    BY <1>3 DEF StreamInv, MapInv, Following
  <2>2. Tracks(Retain(unpack[s], removes), fill[s], frames[s], R)
    <3>1. unpack[s] \in Seq(Signal)
      BY <1>1
    <3> QED BY <2>1, <3>1, TracksRetain
  <2> QED BY <1>2, <1>6, <2>1, <2>2
<1>11. Defining' /\ LateCounted'
  BY <1>2, <1>3, <1>6, <1>7 DEF StreamInv, MapInv, Defining, LateCounted
<1>12. PassesHeld' /\ Idle' /\ Sent'
  BY <1>1, <1>2, <1>3, <1>4, <1>6, <1>7 DEF StreamInv, PassesHeld, Passes, Told, Idle, Sent
<1> QED BY <1>9, <1>10, <1>11, <1>12 DEF StreamInv, MapInv

(* The vehicle is told to be quiet, and to send again.                     *)
LEMMA SchedulerKeeps == ASSUME StreamInv, BeatQuiets \/ BeatRestarts PROVE StreamInv'
<1>1. /\ beat \in Beats
      /\ ecu \in Ecus
      /\ beat.pc \in {"quiet", "add"}
  BY DEF BeatQuiets, BeatRestarts, BeatAt, StreamInv, MapInv, StreamShape
<1>2. UNCHANGED <<unpack, adapter, late, frames, fill, pending, setup, stop, op, loopStop, misled>>
  BY DEF BeatQuiets, BeatRestarts, mapVars, flagVars, historyVars
<1>3. setup.pc = "live" /\ stop # "done"
  BY <1>1, Running DEF StreamInv, PassesHeld, Passes
<1>4. /\ beat' \in Beats
      /\ beat'.pc \in {"add", "rearm"}
  BY <1>1 DEF BeatQuiets, BeatRestarts, Goes, Passes
<1>5. /\ ecu' \in Ecus
      /\ ecu'.records = ecu.records
      /\ beat'.pc = "rearm" => ecu'.sends = {s \in Slot : fill[s] > 0}
  <2>1. CASE BeatQuiets
    BY <1>1, <2>1 DEF BeatQuiets, Goes
  <2>2. CASE BeatRestarts
    BY <1>1, <2>2 DEF BeatRestarts, Goes
  <2> QED BY <2>1, <2>2
<1>6. StreamShape'
  BY <1>2, <1>4, <1>5 DEF StreamInv, MapInv, StreamShape
<1>7. Defining' /\ LateCounted' /\ Following'
  BY <1>2, <1>3, <1>5 DEF StreamInv, MapInv, Defining, LateCounted, Following
<1>8. PassesHeld' /\ Idle'
  BY <1>1, <1>2, <1>3, <1>4 DEF StreamInv, PassesHeld, Passes, Told, Idle
<1>9. Sent'
  BY <1>2, <1>3, <1>4, <1>5 DEF StreamInv, MapInv, LateCounted, Sent
<1> QED BY <1>6, <1>7, <1>8, <1>9 DEF StreamInv, MapInv

LEMMA ProbeKeeps ==
  ASSUME StreamInv, NEW p \in Pids, BeatProbes(p) \/ BeatRefuses(p) PROVE StreamInv'
<1>1. /\ beat \in Beats
      /\ pending \in Pendings
  BY DEF StreamInv, MapInv, StreamShape
<1>2. UNCHANGED <<ecu, adapter, late, frames, unpack, fill, pending, setup, stop, op, loopStop,
                  misled>>
  BY DEF BeatProbes, BeatRefuses, wireVars, mapVars, flagVars, historyVars
<1>3. /\ beat' \in Beats
      /\ beat'.pc = beat.pc
  BY <1>1 DEF BeatProbes, BeatRefuses, Drops
<1>4. MapInv'
  BY <1>1, <1>2, <1>3, MapStays DEF StreamInv
<1>5. PassesHeld' /\ Idle' /\ Sent'
  BY <1>2, <1>3 DEF StreamInv, PassesHeld, Told, Idle, Sent
<1> QED BY <1>4, <1>5 DEF StreamInv

(* A define changes one slot: both sides of it, or the session is misled.  *)
LEMMA DefineKeeps == ASSUME StreamInv, NEW p \in Pids, BeatDefines(p) PROVE StreamInv'
<1>1. /\ beat \in Beats
      /\ ecu \in Ecus
      /\ unpack \in [Slot -> Seq(Signal)] /\ fill \in [Slot -> Nat] /\ late \in Nat
      /\ misled \in BOOLEAN /\ beat.pc = "add" /\ (late > 0 => misled)
  BY DEF BeatDefines, BeatAt, StreamInv, MapInv, StreamShape, LateCounted
<1>2. UNCHANGED <<adapter, frames, pending, setup, stop, op, loopStop>>
  BY DEF BeatDefines, flagVars
<1>3. setup.pc = "live" /\ stop # "done"
  BY <1>1, Running DEF StreamInv, PassesHeld, Passes
<1>4. /\ beat' \in Beats
      /\ beat'.pc = "add"
  BY <1>1 DEF BeatDefines, Drops
<1>5. PICK s : s = FirstFit(fill, Width[p])
  OBVIOUS
<1>6. s \in Slot
  BY <1>5, Fits DEF BeatDefines
<1>7. PICK g \in Seq(Signal), n \in Nat : g = unpack[s] /\ n = fill[s]
  BY <1>1, <1>6
<1>8. PICK h \in Seq(Signal) : h = Append(g, Packed(p, n))
  <2>1. PICK r \in Signal : r = Packed(p, n)
    BY PackedSignal
  <2>2. Append(g, r) \in Seq(Signal)
    OBVIOUS
  <2> QED BY <2>1, <2>2
<1>9. PICK w \in Nat : w = Width[p] /\ w > 0
  BY WidthNat
<1> DEFINE Grows == unpack' = [unpack EXCEPT ![s] = h] /\ fill' = [fill EXCEPT ![s] = n + w]
           Stays == unpack' = unpack /\ fill' = fill
           Took == ecu' = [ecu EXCEPT !.records = [ecu.records EXCEPT ![s] = Append(@, p)]]
<1>10. /\ ecu'.sends \subseteq ecu.sends
       /\ \/ Took /\ Grows /\ late' = late /\ misled' = misled
          \/ Stays /\ late' = late /\ misled' = misled /\ ecu'.records = ecu.records
          \/ Took /\ Stays /\ late' = late + 1 /\ misled' = TRUE
          \/ Grows /\ late > 0 /\ late' = late - 1 /\ misled' = misled /\ ecu' = ecu
       /\ ecu' \in Ecus
  <2>1. Accepted(p, s) => Grows
    BY <1>5, <1>7, <1>8, <1>9 DEF Accepted
  <2>2. ecu' = [ecu EXCEPT !.records[s] = Append(@, p)] =>
          /\ Took /\ ecu'.sends = ecu.sends
          /\ ecu' \in Ecus
    <3>1. PICK have \in [Slot -> Seq(Pids)] : have = ecu.records
      BY <1>1
    <3>2. [have EXCEPT ![s] = Append(@, p)] \in [Slot -> Seq(Pids)]
      BY <1>6
    <3> QED BY <1>1, <3>1, <3>2
  <2>3. ecu' = [ecu EXCEPT !.sends = {}] =>
          /\ ecu'.sends = {} /\ ecu'.records = ecu.records
          /\ ecu' \in Ecus
    BY <1>1
  <2> HIDE DEF Grows, Took
  <2> QED BY <1>1, <1>5, <2>1, <2>2, <2>3 DEF BeatDefines
<1>11. Grows => /\ unpack' \in [Slot -> Seq(Signal)] /\ fill' \in [Slot -> Nat]
                /\ \A t \in Slot : /\ unpack'[t] = IF t = s THEN h ELSE unpack[t]
                                   /\ fill'[t] = IF t = s THEN n + w ELSE fill[t]
  BY <1>1, <1>6
<1>12. Took => \A t \in Slot : ecu'.records[t] = IF t = s THEN Append(ecu.records[t], p)
                                                          ELSE ecu.records[t]
  BY <1>1, <1>6
<1> HIDE DEF Grows, Took
<1>13. StreamShape'
  <2>1. unpack' \in [Slot -> Seq(Signal)] /\ fill' \in [Slot -> Nat]
    <3>1. CASE Stays
      BY <1>1, <3>1
    <3>2. CASE Grows
      BY <1>11, <3>2
    <3> QED BY <1>10, <3>1, <3>2
  <2>2. late' \in Nat /\ misled' \in BOOLEAN
    <3>1. late' = late \/ late' = late + 1 \/ (late > 0 /\ late' = late - 1)
      BY <1>10, Zenon
    <3>2. misled' = misled \/ misled' = TRUE
      BY <1>10, Zenon
    <3>3. late \in Nat /\ misled \in BOOLEAN
      BY <1>1
    <3>4. late' \in Nat
      BY <3>1, <3>3
    <3>5. misled' \in BOOLEAN
      BY <3>2, <3>3, Zenon
    <3> QED BY <3>4, <3>5
  <2> QED BY <1>2, <1>4, <1>10, <2>1, <2>2 DEF StreamInv, MapInv, StreamShape
<1>14. LateCounted'
  <2>1. late' > 0 => misled'
    BY <1>1, <1>10
  <2>2. ASSUME NEW t \in Slot, unpack'[t] # <<>> PROVE fill'[t] > 0
    <3>1. unpack[t] # <<>> => fill[t] > 0
      BY <1>3 DEF StreamInv, MapInv, LateCounted
    <3>2. CASE Stays
      BY <2>2, <3>1, <3>2
    <3>3. CASE Grows
      BY <1>9, <1>11, <2>2, <3>1, <3>3
    <3> QED BY <1>10, <3>2, <3>3
  <2> QED BY <2>1, <2>2 DEF LateCounted
<1>15. Following'
  <2> SUFFICES ASSUME ~misled', NEW t \in Slot
               PROVE  \E R \in Seq(Pids) : /\ Tracks(unpack'[t], fill'[t], frames[t], R)
                                           /\ stop # "done" => ecu'.records[t] = R
    BY <1>2 DEF Following
  <2>1. ~misled
    BY <1>1, <1>10
  <2>2. Tracks(unpack[t], fill[t], frames[t], ecu.records[t]) /\ ecu.records[t] \in Seq(Pids)
    BY <1>1, <1>3, <2>1 DEF StreamInv, MapInv, Following
  <2>3. CASE Stays /\ ecu'.records = ecu.records
    BY <2>2, <2>3
  <2>4. CASE Took /\ Grows /\ t # s
    BY <1>11, <1>12, <2>2, <2>4
  <2>5. CASE Took /\ Grows /\ t = s
    <3>1. Tracks(g, n, frames[s], ecu.records[s]) /\ ecu.records[s] \in Seq(Pids)
      BY <1>7, <2>2, <2>5
    <3>2. Tracks(h, n + w, frames[s], Append(ecu.records[s], p))
      BY <1>8, <1>9, <3>1, TracksAdd
    <3>3. Append(ecu.records[s], p) \in Seq(Pids)
      BY <3>1
    <3> QED BY <1>6, <1>11, <1>12, <2>5, <3>2, <3>3
  <2> QED BY <1>1, <1>10, <2>1, <2>3, <2>4, <2>5
<1>16. Defining' /\ PassesHeld' /\ Idle'
  BY <1>1, <1>2, <1>3, <1>4 DEF StreamInv, Defining, PassesHeld, Told, Idle
<1>17. Sent'
  BY <1>2, <1>3, <1>4 DEF Sent
<1> QED BY <1>13, <1>14, <1>15, <1>16, <1>17 DEF StreamInv, MapInv

-----------------------------------------------------------------------------
(* The frames, the worker, and every step.                                 *)
LEMMA FramesKeep ==
  ASSUME StreamInv, NEW s \in Slot, EcuSends(s) \/ Decodes(s) PROVE StreamInv'
<1>1. UNCHANGED <<ecu, adapter, late, unpack, fill, pending, setup, beat, stop,
                  op, loopStop, misled>>
  BY DEF EcuSends, Decodes, mapVars, flagVars, historyVars
<1>2. /\ ecu \in Ecus
      /\ frames \in [Slot -> Seq(Pids)]
  BY DEF StreamInv, MapInv, StreamShape
<1>3. /\ \/ frames' = [frames EXCEPT ![s] = ecu.records[s]] /\ stop # "done"
         \/ frames' = [frames EXCEPT ![s] = <<>>]
      /\ setup.pc = "live"
  <2>1. CASE EcuSends(s)
    BY <2>1 DEF EcuSends, StreamInv, Idle, Sent
  <2>2. CASE Decodes(s)
    BY <2>2 DEF Decodes, StreamInv, Idle, Empty
  <2> QED BY <2>1, <2>2
<1>4. frames' \in [Slot -> Seq(Pids)]
  <2>1. ecu.records[s] \in Seq(Pids) /\ <<>> \in Seq(Pids)
    BY <1>2
  <2> QED BY <1>2, <1>3, <2>1
<1>5. StreamShape'
  BY <1>1, <1>4 DEF StreamInv, MapInv, StreamShape
<1>6. Following'
  <2> SUFFICES ASSUME ~misled, NEW t \in Slot
               PROVE  \E R \in Seq(Pids) : /\ Tracks(unpack[t], fill[t], frames'[t], R)
                                           /\ stop # "done" => ecu.records[t] = R
    BY <1>1 DEF Following
  <2>1. PICK R \in Seq(Pids) : /\ Tracks(unpack[t], fill[t], frames[t], R)
                               /\ stop # "done" => ecu.records[t] = R
    BY <1>3 DEF StreamInv, MapInv, Following
  <2>2. Tracks(unpack[t], fill[t], R, R) /\ Tracks(unpack[t], fill[t], <<>>, R)
    BY <2>1, TracksFrame
  <2>3. \/ frames'[t] = frames[t] \/ frames'[t] = <<>>
        \/ frames'[t] = ecu.records[t] /\ stop # "done"
    BY <1>2, <1>3
  <2> QED BY <2>1, <2>2, <2>3
<1>7. Defining' /\ LateCounted' /\ PassesHeld' /\ Sent' /\ Idle'
  BY <1>1, <1>3 DEF StreamInv, MapInv, Defining, LateCounted, PassesHeld, Told, Sent, Idle
<1> QED BY <1>5, <1>6, <1>7 DEF StreamInv, MapInv

LEMMA WorkerKeeps == ASSUME StreamInv, StopBegins \/ StopBreaks PROVE StreamInv'
<1>1. UNCHANGED <<ecu, late, unpack, fill, frames, pending, setup, beat, op, misled>>
  BY DEF StopBegins, StopBreaks, wireVars, mapVars, historyVars
<1>2. /\ beat \in Beats
      /\ pending \in Pendings
  BY DEF StreamInv, MapInv, StreamShape
<1>3. stop \in {"idle", "break"} /\ stop' \in {"break", "tear"} /\ setup.pc = "live"
  BY DEF StopBegins, StopBreaks, StreamInv, Idle
<1>4. MapInv'
  BY <1>1, <1>2, <1>3, MapStays DEF StreamInv
<1>5. PassesHeld'
  <2>1. CASE StopBegins
    BY <1>1, <1>3, <2>1 DEF StopBegins, wireVars, StreamInv, PassesHeld, Told
  <2>2. CASE StopBreaks
    BY <1>1, <1>3, <2>2 DEF StopBreaks, StreamInv, PassesHeld, Told
  <2> QED BY <2>1, <2>2
<1>6. Idle' /\ Sent'
  BY <1>1, <1>3 DEF StreamInv, Idle, Sent
<1> QED BY <1>4, <1>5, <1>6 DEF StreamInv

LEMMA TearsKeeps == ASSUME StreamInv, StopTears PROVE StreamInv'
<1>1. UNCHANGED <<adapter, late, unpack, fill, frames, pending, setup, beat, op, loopStop, misled>>
  BY DEF StopTears, mapVars, flagVars, historyVars
<1>2. /\ stop = "tear" /\ stop' = "done" /\ ecu' = [records |-> Empty, sends |-> {}]
      /\ setup.pc = "live"
  BY DEF StopTears, StreamInv, Idle
<1>3. ecu' \in Ecus /\ ecu'.sends = {}
  <2>1. Empty \in [Slot -> Seq(Pids)] /\ {} \in SUBSET Slot
    BY DEF Empty
  <2> QED BY ONLY <1>2, <2>1
<1>4. StreamShape'
  BY <1>1, <1>3 DEF StreamInv, MapInv, StreamShape
<1>5. Following'
  BY <1>1, <1>2 DEF StreamInv, MapInv, Following
<1>6. Defining' /\ LateCounted' /\ PassesHeld' /\ Idle' /\ Sent'
  BY <1>1, <1>2, <1>3
     DEF StreamInv, MapInv, Defining, LateCounted, PassesHeld, Told, Idle, Sent
<1> QED BY <1>4, <1>5, <1>6 DEF StreamInv, MapInv

LEMMA StreamSteps == StreamInv /\ [StreamNext]_streamVars => StreamInv'
<1> SUFFICES ASSUME StreamInv, [StreamNext]_streamVars PROVE StreamInv'
  OBVIOUS
<1>1. CASE UNCHANGED streamVars
  <2>1. UNCHANGED <<ecu, adapter, unpack, fill, frames, late, setup, misled, beat, pending,
                    stop, op, loopStop>>
    BY <1>1 DEF streamVars, wireVars, mapVars, flagVars, historyVars
  <2>2. MapInv'
    BY <2>1, MapStays DEF StreamInv, MapInv, StreamShape
  <2> QED BY <2>1, <2>2 DEF StreamInv, PassesHeld, Told, Idle, Sent
<1>2. CASE BeatStep
  BY <1>2, PassKeeps, TakesKeeps, SchedulerKeeps, ProbeKeeps, DefineKeeps DEF BeatStep
<1>3. CASE SetupAcked \/ SetupRefused \/ SetupStarts
  BY <1>3, AckedKeeps, RefusedKeeps, StartsKeeps
<1>4. CASE StopBegins \/ StopBreaks \/ StopTears
  BY <1>4, WorkerKeeps, TearsKeeps
<1>5. CASE \E p \in Pids : StreamAdds(p) \/ StreamRemoves(p)
  BY <1>5, HostKeeps
<1>6. CASE \E s \in Slot : EcuSends(s) \/ Decodes(s)
  BY <1>6, FramesKeep
<1> QED BY <1>1, <1>2, <1>3, <1>4, <1>5, <1>6 DEF StreamNext

(* A slot whose frame is taken carries no record's data.                   *)
LEMMA NothingDecoded ==
  ASSUME NEW g \in Seq(Signal), NEW d \in Decode(g, Frame(<<>>)),
         NEW k \in DOMAIN d[2]
  PROVE  d[2][k][1] = NoPid
<1>1. PICK D : D = Frame(<<>>)
  OBVIOUS
<1>2. <<>> \in Seq(Pids) /\ Data(<<>>) = <<>>
  BY DataNone
<1>3. Len(D) = SlotBytes /\ SlotBytes \in Nat
  BY <1>1, <1>2, FrameIs, SlotNat
<1>4. \A i \in 1 .. SlotBytes : D[i] = <<NoPid, i>>
  <2>1. \A i \in 1 .. SlotBytes :
          D[i] = IF i <= Len(Data(<<>>)) THEN Data(<<>>)[i] ELSE <<NoPid, i>>
    BY <1>1, <1>2, FrameIs
  <2>2. \A i \in 1 .. SlotBytes : ~(i <= Len(Data(<<>>)))
    BY <1>2
  <2> QED BY <2>1, <2>2
<1>5. PICK j \in DOMAIN g : /\ g[j].offset + g[j].len <= SlotBytes
                           /\ d = <<g[j].pid, SubSeq(D, g[j].offset + 1, g[j].offset + g[j].len)>>
  <2>1. d \in Decode(g, D)
    BY <1>1
  <2>2. \E j \in DOMAIN g : /\ g[j].offset + g[j].len <= Len(D)
                            /\ d = <<g[j].pid, SubSeq(D, g[j].offset + 1, g[j].offset + g[j].len)>>
    BY ONLY <2>1, Zenon DEF Decode
  <2> QED BY <1>3, <2>2
<1>6. g[j] \in Signal
  OBVIOUS
<1>7. PICK o \in Nat : o = g[j].offset
  BY <1>6 DEF Signal
<1>8. PICK n \in Nat : n = g[j].len /\ n > 0
  BY <1>6 DEF Signal
<1>9. d[2] = SubSeq(D, o + 1, o + n) /\ o + n <= SlotBytes
  BY <1>5, <1>7, <1>8
<1>10. SubSeq(D, o + 1, o + n) = [i \in 1 .. n |-> D[o + i]]
  <2>1. \A x, y \in Nat : y > 0 =>
          SubSeq(D, x + 1, x + y) = [i \in 1 .. y |-> D[x + i]]
    BY SliceIs
  <2> QED BY <1>8, <2>1, Zenon
<1>11. k \in 1 .. n /\ d[2][k] = D[o + k]
  BY <1>9, <1>10
<1>12. o + k \in 1 .. SlotBytes
  BY ONLY o \in Nat, n \in Nat, <1>3, <1>9, <1>11
<1>13. d[2][k] = <<NoPid, o + k>>
  BY <1>4, <1>11, <1>12
<1>14. \A x : <<NoPid, x>>[1] = NoPid
  OBVIOUS
<1> QED BY ONLY <1>13, <1>14

LEMMA SlicesFollow == StreamInv => DecodesTrue
<1> SUFFICES ASSUME StreamInv, ~misled, NEW s \in Slot,
                    NEW d \in Decode(unpack[s], Frame(frames[s])),
                    \E k \in DOMAIN d[2] : d[2][k][1] # NoPid
             PROVE  d[2] = Bytes(d[1])
  BY DEF DecodesTrue
<1>1. unpack[s] \in Seq(Signal)
  BY DEF StreamInv, MapInv, StreamShape
<1>2. PICK n, R : Tracks(unpack[s], n, frames[s], R) \/ frames[s] = <<>>
  BY DEF StreamInv, MapInv, Idle, Following, Empty
<1>3. CASE Tracks(unpack[s], n, frames[s], R)
  BY <1>1, <1>3, TracksTrue
<1>4. CASE frames[s] = <<>>
  BY <1>1, <1>4, NothingDecoded
<1> QED BY <1>2, <1>3, <1>4

(* A value delivered for a pid is its data or what lies behind the records *)
(* of an older frame: the decode map follows the vehicle's records through *)
(* refused defines, removals and adds, for the frames still waiting too.   *)
THEOREM SlicesTrue == StreamSpec => []DecodesTrue
<1> QED BY StreamStart, StreamSteps, SlicesFollow, PTL DEF StreamSpec

(* Whenever the session listens, the vehicle sends every slot that carries *)
(* a signal of the map: no pass of the beat leaves the schedule dead.      *)
THEOREM BroadcastKept == StreamSpec => []BroadcastBack
<1>1. StreamInv => BroadcastBack
  BY DEF StreamInv, PassesHeld, Passes, Idle, Sent, BroadcastBack
<1> QED BY <1>1, StreamStart, StreamSteps, PTL DEF StreamSpec
=============================================================================
