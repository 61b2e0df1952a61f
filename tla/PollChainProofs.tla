--------------------------- MODULE PollChainProofs --------------------------
(***************************************************************************)
(* The polling chain for any subscriptions, PIDs, headers, callers, queue  *)
(* sizes and plugins: its types, that the flag never outlives it, that a   *)
(* targeted poll finds the adapter at its header, and that a mark in       *)
(* flight is backed by a wire.  Then what its batches carry (Batches):     *)
(* that what is cut out of a shared reply is right.                        *)
(***************************************************************************)
EXTENDS PollChain, Batches, FoldLemmas, FiniteSetTheorems, TLAPS

(* A callback that switches or sends has picked something, and one that is *)
(* about to raise the flag has queued its wire, unless it was wiped since. *)
Picked == cb.pc \in {"switch", "send"} => cb.pids # {}
Raised == cb.pc = "alive" => pending # <<>> \/ lost.chain

Inv == TypeOK /\ Picked /\ Raised /\ FlagHasChain

-----------------------------------------------------------------------------
(* What the queue does.                                                    *)
LEMMA PollIsWire ==
  ASSUME TypeOK, NEW ps \in SUBSET Pid, ps # {} PROVE Poll(ps) \in Wire
<1>1. (CHOOSE p \in ps : TRUE) \in Pid
  OBVIOUS
<1> QED BY <1>1 DEF Poll, Wire, Kinds, TypeOK, Plan

LEMMA WiresAreWires ==
  /\ KickWire \in Wire /\ OneShot \in Wire
  /\ \A h \in Header : Switch(h) \in Wire
  BY DEF KickWire, OneShot, Switch, Wire, Kinds

LEMMA QueueGives ==
  ASSUME TypeOK, NEW w \in Wire, Queue(w)
  PROVE  /\ pending' \in Seq(Wire) /\ Len(pending') <= plan.queue
         /\ pending' # <<>>
         /\ lost' \in [chain : BOOLEAN, pids : SUBSET Pid] /\ ~lost'.chain
<1>1. w.pids \subseteq Pid
  BY DEF Wire
<1>2. plan.queue \in Nat \ {0} /\ pending \in Seq(Wire) /\ Len(pending) <= plan.queue
  BY DEF TypeOK, Plan
<1>3. pending' \in Seq(Wire) /\ Len(pending') <= plan.queue /\ pending' # <<>>
  <2>1. CASE Len(pending) < plan.queue
    BY <1>2, <2>1 DEF Queue
  <2>2. CASE ~(Len(pending) < plan.queue)
    BY <1>2, <2>2 DEF Queue
  <2> QED BY <2>1, <2>2
<1>4. lost.pids \subseteq Pid
  BY DEF TypeOK
<1> QED BY <1>1, <1>3, <1>4 DEF Queue

LEMMA WipeGives ==
  ASSUME TypeOK, NEW kept \in Seq(Wire), Len(kept) <= Len(pending), Wipe(kept)
  PROVE  /\ pending' \in Seq(Wire) /\ Len(pending') <= plan.queue
         /\ lost' \in [chain : BOOLEAN, pids : SUBSET Pid]
         /\ lost.chain => lost'.chain
         /\ pending # <<>> => pending' # <<>> \/ lost'.chain
         /\ desync' \in BOOLEAN
<1>1. pending \in Seq(Wire) /\ Len(pending) <= plan.queue /\ plan.queue \in Nat
  BY DEF TypeOK, Plan
<1>2. pending' = kept /\ Len(kept) \in Nat
  BY DEF Wipe
<1>3. \A w \in Elements(pending) : w.pids \subseteq Pid
  <2>1. \A i \in DOMAIN pending : pending[i] \in Wire
    BY <1>1
  <2> QED BY <2>1 DEF Elements, Wire
<1>4. /\ lost.pids \subseteq Pid /\ lost.chain \in BOOLEAN /\ desync \in BOOLEAN
  BY DEF TypeOK
<1>5. UNION {w.pids : w \in Elements(pending) \ Elements(kept)} \subseteq Pid
  BY <1>3
<1>6. lost' \in [chain : BOOLEAN, pids : SUBSET Pid]
  BY <1>4, <1>5 DEF Wipe
<1>7. lost'.chain = (lost.chain \/ (kept = <<>> /\ pending # <<>>))
  BY DEF Wipe
<1>8. desync' \in BOOLEAN
  BY <1>4 DEF Wipe
<1> QED BY <1>1, <1>2, <1>6, <1>7, <1>8

(* No subscription and no PID is made up.                                  *)
LEMMA PickSetsType == ASSUME TypeOK PROVE PickSets \subseteq (SUBSET Pid) \ {{}}
<1>1. Owned \subseteq Pid
  BY PollAssumption DEF Owned, Active
<1> QED BY <1>1 DEF PickSets, Eligible

-----------------------------------------------------------------------------
LEMMA InitInv == Init => Inv
<1> SUFFICES ASSUME Init PROVE Inv
  OBVIOUS
<1>1. plan \in Plan
  BY PollAssumption DEF Init
<1>2. Len(pending) <= plan.queue
  BY <1>1 DEF Init, Plan
<1>3. /\ lost \in [chain : BOOLEAN, pids : SUBSET Pid]
      /\ caller \in [Caller -> [pc : {"off", "kick", "claim", "clear", "queue"}, todo : SUBSET Sub]]
  BY DEF Init
<1>4. /\ state \in [Sub -> {"Active", "Paused", "HostPaused"}]
      /\ cb \in [pc : {"idle", "complete", "error", "halt", "pick", "switch", "send",
                      "alive", "look", "dead"}, pids : SUBSET Pid]
  BY DEF Init, Idle
<1>5. pending \in Seq(Wire)
  BY DEF Init
<1>6. TypeOK
  BY <1>1, <1>2, <1>3, <1>4, <1>5 DEF Init, TypeOK
<1> QED BY <1>6 DEF Init, Inv, Picked, Raised, FlagHasChain, Idle

(* The steps of the callback: its program counter and PIDs, and whatever   *)
(* it changes besides.                                                     *)
LEMMA CompleteInv ==
  ASSUME Inv, NEW error \in BOOLEAN, Complete(error) PROVE Inv'
<1>1. pending \in Seq(Wire) /\ pending # <<>>
  BY DEF Inv, TypeOK, Complete
<1>2. Head(pending) \in Wire /\ Tail(pending) \in Seq(Wire) /\ Len(Tail(pending)) <= Len(pending)
  BY <1>1
<1>3. Head(pending).pids \subseteq Pid /\ Head(pending).ctrl \in Header \cup {NoHeader}
  BY <1>2 DEF Wire
<1>4. pending' = Tail(pending) /\ Len(pending') <= plan.queue
  BY <1>1, <1>2 DEF Complete, Inv, TypeOK, Plan
<1>5. /\ cb' \in [pc : {"complete", "error"}, pids : SUBSET Pid]
      /\ members' \subseteq SUBSET Pid
  BY <1>3 DEF Complete, Inv, TypeOK
<1>6. header' \in Header \cup {NoHeader} /\ desync' \in BOOLEAN
  <2>1. CASE Head(pending).kind = "ATSH"
    BY <1>3, <2>1 DEF Complete, Inv, TypeOK
  <2>2. CASE Head(pending).kind # "ATSH"
    BY <2>2 DEF Complete, Inv, TypeOK
  <2> QED BY <2>1, <2>2
<1>7. TypeOK'
  BY <1>2, <1>4, <1>5, <1>6 DEF Complete, Inv, TypeOK
<1> QED BY <1>5, <1>7 DEF Inv, Picked, Raised, FlagHasChain, Token

LEMMA CallbackInv == ASSUME Inv, Callback PROVE Inv'
<1> USE DEF Inv
<1>1. CASE CompleteMembers
  BY <1>1 DEF CompleteMembers, TypeOK, Picked, Raised, FlagHasChain, Token
<1>2. CASE CompleteError
  <2>1. CASE PausesAll
    BY <1>2, <2>1 DEF CompleteError, TypeOK, Picked, Raised, FlagHasChain, Token
  <2>2. CASE ~PausesAll
    BY <1>2, <2>2 DEF CompleteError, TypeOK, Picked, Raised, FlagHasChain, Token
  <2> QED BY <2>1, <2>2
<1>3. CASE ChainDies
  BY <1>3 DEF ChainDies, TypeOK, Picked, Raised, FlagHasChain, Idle
<1>4. CASE Pick
  <2>1. CASE \E ps \in PickSets : /\ in_flight' = in_flight \cup ps
                                  /\ cb' = [pc |-> "switch", pids |-> ps]
    <3>1. PICK ps \in PickSets : /\ in_flight' = in_flight \cup ps
                                 /\ cb' = [pc |-> "switch", pids |-> ps]
      BY <2>1
    <3>2. ps \in SUBSET Pid /\ ps # {}
      BY <3>1, PickSetsType
    <3> QED BY <1>4, <3>1, <3>2 DEF Pick, TypeOK, Picked, Raised, FlagHasChain, Token
  <2>2. CASE cb' = [cb EXCEPT !.pc = "look"] /\ UNCHANGED in_flight
    BY <1>4, <2>2 DEF Pick, TypeOK, Picked, Raised, FlagHasChain, Token
  <2> QED BY <1>4, <2>1, <2>2 DEF Pick
<1>5. CASE SwitchController
  <2>1. cb' = [cb EXCEPT !.pc = "send"] /\ cb.pc = "switch" /\ cb.pids # {}
    BY <1>5 DEF SwitchController, Picked
  <2>2. cb' \in [pc : {"send"}, pids : SUBSET Pid] /\ cb'.pc = "send" /\ cb'.pids # {}
    BY <2>1 DEF TypeOK
  <2>3. CASE Poll(cb.pids).ctrl # NoHeader /\ Poll(cb.pids).ctrl # current
    <3>1. cb.pids \in SUBSET Pid
      BY DEF TypeOK
    <3>2. Poll(cb.pids).ctrl \in Header
      BY <2>1, <2>3, <3>1, PollIsWire DEF Wire
    <3>3. Queue(Switch(Poll(cb.pids).ctrl)) /\ current' \in Header /\ desync' \in BOOLEAN
      BY <1>5, <2>3, <3>2 DEF SwitchController, TypeOK
    <3>4. /\ pending' \in Seq(Wire) /\ Len(pending') <= plan.queue
          /\ lost' \in [chain : BOOLEAN, pids : SUBSET Pid]
      BY <3>2, <3>3, WiresAreWires, QueueGives
    <3>5. TypeOK'
      BY <1>5, <2>2, <3>3, <3>4 DEF SwitchController, TypeOK
    <3> QED BY <2>2, <3>5 DEF Picked, Raised, FlagHasChain, Token
  <2>4. CASE ~(Poll(cb.pids).ctrl # NoHeader /\ Poll(cb.pids).ctrl # current)
    <3>1. UNCHANGED <<pending, lost, current, desync>>
      BY <1>5, <2>4 DEF SwitchController
    <3>2. TypeOK'
      BY <1>5, <2>2, <3>1 DEF SwitchController, TypeOK
    <3> QED BY <2>2, <3>2 DEF Picked, Raised, FlagHasChain, Token
  <2> QED BY <2>3, <2>4
<1>6. CASE SendWire
  <2>1. cb.pids \in SUBSET Pid /\ cb.pids # {}
    BY <1>6 DEF SendWire, TypeOK, Picked
  <2>2. Queue(Poll(cb.pids)) /\ Poll(cb.pids) \in Wire
    BY <1>6, <2>1, PollIsWire DEF SendWire
  <2>3. /\ pending' \in Seq(Wire) /\ Len(pending') <= plan.queue /\ pending' # <<>>
        /\ lost' \in [chain : BOOLEAN, pids : SUBSET Pid]
    BY <2>2, QueueGives
  <2>4. TypeOK'
    BY <1>6, <2>1, <2>3 DEF SendWire, TypeOK
  <2> QED BY <1>6, <2>3, <2>4 DEF SendWire, Picked, Raised, FlagHasChain, Token
<1>7. CASE ChainLives
  <2>1. TypeOK' /\ Picked' /\ Raised'
    BY <1>7 DEF ChainLives, TypeOK, Picked, Raised, Idle
  <2>2. FlagHasChain'
    BY <1>7 DEF ChainLives, Raised, FlagHasChain, Token
  <2> QED BY <2>1, <2>2
<1>8. CASE LookForWork
  <2>1. TypeOK' /\ Picked' /\ Raised'
    BY <1>8 DEF LookForWork, TypeOK, Picked, Raised, Idle
  <2>2. FlagHasChain'
    BY <1>8 DEF LookForWork, FlagHasChain, Token, TypeOK
  <2> QED BY <2>1, <2>2
<1> QED BY <1>1, <1>2, <1>3, <1>4, <1>5, <1>6, <1>7, <1>8 DEF Callback

(* The calls of the API.  Only a claim raises the flag, and its caller is  *)
(* then the chain until its wire is queued.                                *)
LEMMA KickNextType ==
  ASSUME TypeOK, NEW c \in Caller, NEW todo \in SUBSET Sub, KickNext(c, todo)
  PROVE  /\ caller' \in [Caller -> [pc : {"off", "kick", "claim", "clear", "queue"},
                                    todo : SUBSET Sub]]
         /\ \A d \in Caller \ {c} : caller'[d] = caller[d]
  BY DEF KickNext, TypeOK

LEMMA CallerInv ==
  ASSUME Inv, NEW c \in Caller,
         \/ \E s \in Sub : Start(c, s) \/ Kick(c, s)
         \/ Claim(c) \/ ClearInFlight(c) \/ QueueKick(c) \/ AcquisitionResumes(c)
  PROVE  Inv'
<1> USE DEF Inv
<1>0. caller \in [Caller -> [pc : {"off", "kick", "claim", "clear", "queue"}, todo : SUBSET Sub]]
  BY DEF TypeOK
<1>1. ASSUME NEW s \in Sub, Start(c, s) PROVE Inv'
  <2>1. /\ caller' \in [Caller -> [pc : {"off", "kick", "claim", "clear", "queue"}, todo : SUBSET Sub]]
        /\ \A d \in Caller : caller[d].pc \in {"clear", "queue"} => caller'[d] = caller[d]
    BY <1>0, <1>1 DEF Start
  <2>2. TypeOK'
    BY <1>1, <2>1 DEF Start, callerOnly, TypeOK
  <2> QED BY <1>1, <2>1, <2>2 DEF Start, callerOnly, Picked, Raised, FlagHasChain, Token
<1>2. ASSUME NEW s \in Sub, Kick(c, s) PROVE Inv'
  <2>1. /\ caller' \in [Caller -> [pc : {"off", "kick", "claim", "clear", "queue"}, todo : SUBSET Sub]]
        /\ \A d \in Caller : caller[d].pc \in {"clear", "queue"} => caller'[d] = caller[d]
    BY <1>0, <1>2 DEF Kick, KickNext
  <2>2. TypeOK'
    BY <1>2, <2>1 DEF Kick, callerOnly, TypeOK
  <2> QED BY <1>2, <2>1, <2>2 DEF Kick, callerOnly, Picked, Raised, FlagHasChain, Token
<1>3. CASE Claim(c)
  <2>1. caller' \in [Caller -> [pc : {"off", "kick", "claim", "clear", "queue"}, todo : SUBSET Sub]]
    BY <1>0, <1>3 DEF Claim, KickNext
  <2>2. TypeOK' /\ Picked' /\ Raised'
    BY <1>3, <2>1 DEF Claim, callerOnly, TypeOK, Picked, Raised
  <2>3. FlagHasChain'
    <3>1. CASE chain_alive
      <4>1. \A d \in Caller : caller[d].pc \in {"clear", "queue"} => caller'[d] = caller[d]
        BY <1>0, <1>3, <3>1 DEF Claim, KickNext
      <4> QED BY <1>3, <3>1, <4>1 DEF Claim, callerOnly, FlagHasChain, Token
    <3>2. CASE ~chain_alive
      <4>1. caller'[c].pc = "clear"
        BY <1>0, <1>3, <3>2 DEF Claim
      <4> QED BY <4>1 DEF FlagHasChain, Token
    <3> QED BY <3>1, <3>2
  <2> QED BY <2>2, <2>3
<1>4. CASE ClearInFlight(c)
  <2>1. /\ caller' \in [Caller -> [pc : {"off", "kick", "claim", "clear", "queue"}, todo : SUBSET Sub]]
        /\ caller'[c].pc = "queue"
    BY <1>0, <1>4 DEF ClearInFlight
  <2>2. TypeOK'
    BY <1>4, <2>1 DEF ClearInFlight, callerOnly, TypeOK
  <2> QED BY <1>4, <2>1, <2>2 DEF ClearInFlight, callerOnly, Picked, Raised, FlagHasChain, Token
<1>5. CASE QueueKick(c)
  <2>1. caller' \in [Caller -> [pc : {"off", "kick", "claim", "clear", "queue"}, todo : SUBSET Sub]]
    BY <1>0, <1>5 DEF QueueKick, KickNext
  <2>2. /\ pending' \in Seq(Wire) /\ Len(pending') <= plan.queue /\ pending' # <<>>
        /\ lost' \in [chain : BOOLEAN, pids : SUBSET Pid]
    BY <1>5, WiresAreWires, QueueGives DEF QueueKick
  <2>3. TypeOK'
    BY <1>5, <2>1, <2>2 DEF QueueKick, callerOnly, TypeOK
  <2> QED BY <1>5, <2>2, <2>3 DEF QueueKick, callerOnly, Picked, Raised, FlagHasChain, Token
<1>6. CASE AcquisitionResumes(c)
  <2>1. /\ caller' \in [Caller -> [pc : {"off", "kick", "claim", "clear", "queue"}, todo : SUBSET Sub]]
        /\ \A d \in Caller : caller[d].pc \in {"clear", "queue"} => caller'[d] = caller[d]
    BY <1>0, <1>6 DEF AcquisitionResumes, TypeOK
  <2>2. TypeOK'
    BY <1>6, <2>1 DEF AcquisitionResumes, TypeOK
  <2> QED BY <1>6, <2>1, <2>2 DEF AcquisitionResumes, Picked, Raised, FlagHasChain, Token
<1> QED BY <1>1, <1>2, <1>3, <1>4, <1>5, <1>6

(* What befalls the chain: wiped wires excuse the flag they leave behind.  *)
LEMMA DisturbanceInv ==
  ASSUME Inv,
         \/ \E s \in Sub : Pause(s)
         \/ AcquisitionPauses \/ QueueOneShot \/ ClearQueue
         \/ AbortFlag \/ AbortWires \/ AdapterReset
  PROVE  Inv'
<1> USE DEF Inv
<1>0. /\ plan \in Plan /\ pending \in Seq(Wire)
  BY DEF TypeOK
<1>1. ASSUME NEW op, Disturb(op) PROVE plan' \in Plan /\ plan'.queue = plan.queue
  BY <1>0, <1>1 DEF Disturb, Plan
<1>2. ASSUME NEW s \in Sub, Pause(s) PROVE Inv'
  BY <1>2 DEF Pause, callerOnly, TypeOK, Picked, Raised, FlagHasChain, Token
<1>3. CASE AcquisitionPauses
  <2>1. TypeOK'
    BY <1>3 DEF AcquisitionPauses, TypeOK, Active
  <2> QED BY <1>3, <2>1 DEF AcquisitionPauses, Picked, Raised, FlagHasChain, Token
<1>4. CASE QueueOneShot
  <2>1. /\ pending' \in Seq(Wire) /\ Len(pending') <= plan.queue /\ pending' # <<>>
        /\ lost' \in [chain : BOOLEAN, pids : SUBSET Pid]
    BY <1>4, WiresAreWires, QueueGives DEF QueueOneShot
  <2>2. plan' \in Plan /\ plan'.queue = plan.queue
    BY <1>0, <1>4 DEF QueueOneShot, Plan
  <2>3. TypeOK'
    BY <1>4, <2>1, <2>2 DEF QueueOneShot, TypeOK
  <2> QED BY <1>4, <2>1, <2>3 DEF QueueOneShot, Picked, Raised, FlagHasChain, Token
<1>5. CASE ClearQueue
  <2>1. plan' \in Plan /\ plan'.queue = plan.queue
    BY <1>1, <1>5 DEF ClearQueue
  <2>2. pending # <<>> /\ <<>> \in Seq(Wire) /\ <<Head(pending)>> \in Seq(Wire)
        /\ Len(<<>>) <= Len(pending) /\ Len(<<Head(pending)>>) <= Len(pending)
    BY <1>0, <1>5 DEF ClearQueue
  <2>3. /\ pending' \in Seq(Wire) /\ Len(pending') <= plan.queue
        /\ lost' \in [chain : BOOLEAN, pids : SUBSET Pid]
        /\ pending' # <<>> \/ lost'.chain
        /\ desync' \in BOOLEAN
    <3>1. CASE Wipe(<<>>)
      BY <2>2, <3>1, WipeGives
    <3>2. CASE Wipe(<<Head(pending)>>)
      BY <2>2, <3>2, WipeGives
    <3> QED BY <1>5, <3>1, <3>2 DEF ClearQueue
  <2>4. TypeOK'
    BY <1>5, <2>1, <2>3 DEF ClearQueue, TypeOK
  <2> QED BY <1>5, <2>3, <2>4 DEF ClearQueue, Picked, Raised, FlagHasChain, Token
<1>6. CASE AbortFlag
  <2>1. plan' \in Plan /\ plan'.queue = plan.queue
    BY <1>1, <1>6 DEF AbortFlag
  <2>2. TypeOK'
    BY <1>6, <2>1 DEF AbortFlag, TypeOK
  <2> QED BY <1>6, <2>2 DEF AbortFlag, Picked, Raised, FlagHasChain
<1>7. CASE AbortWires
  <2>1. /\ pending' \in Seq(Wire) /\ Len(pending') <= plan.queue
        /\ lost' \in [chain : BOOLEAN, pids : SUBSET Pid]
        /\ lost.chain => lost'.chain
        /\ pending # <<>> => pending' # <<>> \/ lost'.chain
        /\ desync' \in BOOLEAN
    <3>1. <<>> \in Seq(Wire) /\ Len(<<>>) <= Len(pending)
      BY <1>0
    <3> QED BY <1>7, <3>1, WipeGives DEF AbortWires
  <2>2. TypeOK'
    BY <1>7, <2>1 DEF AbortWires, TypeOK
  <2> QED BY <1>7, <2>1, <2>2 DEF AbortWires, Picked, Raised, FlagHasChain, Token
<1>8. CASE AdapterReset
  <2>1. plan' \in Plan /\ plan'.queue = plan.queue
    BY <1>1, <1>8 DEF AdapterReset
  <2>2. TypeOK'
    BY <1>8, <2>1 DEF AdapterReset, TypeOK
  <2> QED BY <1>8, <2>2 DEF AdapterReset, Picked, Raised, FlagHasChain, Token
<1> QED BY <1>2, <1>3, <1>4, <1>5, <1>6, <1>7, <1>8

LEMMA NextInv == Inv /\ [Next]_vars => Inv'
<1> SUFFICES ASSUME Inv, [Next]_vars PROVE Inv'
  OBVIOUS
<1>1. CASE UNCHANGED vars
  BY <1>1 DEF vars, Inv, TypeOK, Picked, Raised, FlagHasChain, Token
<1>2. CASE Next
  BY <1>2, CompleteInv, CallbackInv, CallerInv, DisturbanceInv DEF Next, Kicker
<1> QED BY <1>1, <1>2

(* Types, and the bound of the queue.                                      *)
THEOREM TypeCorrect == Spec => []TypeOK
<1>1. Inv => TypeOK
  BY DEF Inv
<1> QED BY <1>1, InitInv, NextInv, PTL DEF Spec

(* The flag says alive only over a chain, or one whose wires were wiped:   *)
(* so a kick that finds it down may start a chain, and one that finds it   *)
(* up need not.                                                            *)
THEOREM FlagBacked == Spec => []FlagHasChain
<1>1. Inv => FlagHasChain
  BY DEF Inv
<1> QED BY <1>1, InitInv, NextInv, PTL DEF Spec

-----------------------------------------------------------------------------
(* The header a poll goes out under.  InForce(q, hd, i, h): by the time the  *)
(* i-th wire of q is sent, the wires before it have left the adapter at h, *)
(* if it is at hd now.                                                     *)
Switches(q, i) == q[i].kind = "ATSH"
InForce(q, hd, i, h) ==
  \/ hd = h /\ \A j \in 1 .. i - 1 : ~Switches(q, j)
  \/ \E j \in 1 .. i - 1 : /\ Switches(q, j) /\ q[j].ctrl = h
                           /\ \A k \in j + 1 .. i - 1 : ~Switches(q, k)

Targeted(w) == w.kind = "poll" /\ w.ctrl # NoHeader

(* Every targeted poll in the queue finds its header, the last wire leaves *)
(* the adapter where the session believes it to be, and a pick whose       *)
(* switch was queued is about to be sent there.                            *)
PollsFind == \A i \in DOMAIN pending :
               Targeted(pending[i]) => InForce(pending, header, i, pending[i].ctrl)
Believed == current # NoHeader => InForce(pending, header, Len(pending) + 1, current)
PickFinds == cb.pc = "send" => Poll(cb.pids).ctrl \in {NoHeader, current}

Tracked == ~desync => PollsFind /\ Believed /\ PickFinds

LEMMA ForceGrows ==
  ASSUME NEW q \in Seq(Wire), NEW w \in Wire, NEW hd, NEW h, NEW i \in 1 .. Len(q) + 1,
         InForce(q, hd, i, h)
  PROVE  InForce(Append(q, w), hd, i, h)
<1>1. \A j \in 1 .. i - 1 : j \in 1 .. Len(q) /\ Append(q, w)[j] = q[j]
  OBVIOUS
<1> QED BY <1>1 DEF InForce, Switches

LEMMA ForcePasses ==
  ASSUME NEW q \in Seq(Wire), NEW n \in 1 .. Len(q), NEW hd, NEW h,
         ~Switches(q, n), InForce(q, hd, n, h)
  PROVE  InForce(q, hd, n + 1, h)
  BY DEF InForce

LEMMA ForceSets ==
  ASSUME NEW q \in Seq(Wire), NEW n \in 1 .. Len(q), NEW hd, Switches(q, n)
  PROVE  InForce(q, hd, n + 1, q[n].ctrl)
  BY DEF InForce

(* The head leaves: if it was a switch, the adapter is where it says.      *)
LEMMA ForceShrinks ==
  ASSUME NEW q \in Seq(Wire), q # <<>>, NEW i \in 1 .. Len(q), NEW hd, NEW h,
         InForce(q, hd, i + 1, h)
  PROVE  InForce(Tail(q), IF Switches(q, 1) THEN q[1].ctrl ELSE hd, i, h)
<1>1. \A j \in 1 .. i - 1 : Tail(q)[j] = q[j + 1] /\ j + 1 \in 1 .. i
  OBVIOUS
<1>2. CASE hd = h /\ \A j \in 1 .. i : ~Switches(q, j)
  BY <1>1, <1>2 DEF InForce, Switches
<1>3. CASE \E j \in 1 .. i : /\ Switches(q, j) /\ q[j].ctrl = h
                             /\ \A k \in j + 1 .. i : ~Switches(q, k)
  <2>1. PICK j \in 1 .. i : /\ Switches(q, j) /\ q[j].ctrl = h
                            /\ \A k \in j + 1 .. i : ~Switches(q, k)
    BY <1>3
  <2>2. CASE j = 1
    BY <1>1, <2>1, <2>2 DEF InForce, Switches
  <2>3. CASE j # 1
    <3>1. j - 1 \in 1 .. i - 1 /\ Tail(q)[j - 1] = q[j]
      BY <1>1, <2>3
    <3>2. \A k \in (j - 1) + 1 .. i - 1 : k + 1 \in j + 1 .. i /\ Tail(q)[k] = q[k + 1]
      BY <1>1, <2>3
    <3> QED BY <2>1, <3>1, <3>2 DEF InForce, Switches
  <2> QED BY <2>2, <2>3
<1> QED BY <1>2, <1>3 DEF InForce

(* A wire that is queued: a switch is believed, a poll is believed under   *)
(* its header, and the rest changes nothing.                               *)
LEMMA QueueTracks ==
  ASSUME TypeOK, PollsFind, Believed, NEW w \in Wire, Queue(w), header' = header,
         IF w.kind = "ATSH" THEN current' = w.ctrl /\ Len(pending) < plan.queue
         ELSE current' = current /\ (Targeted(w) => w.ctrl = current)
  PROVE  PollsFind' /\ Believed'
<1> DEFINE n == Len(pending) + 1
<1>1. pending \in Seq(Wire) /\ n \in Nat \ {0}
  BY DEF TypeOK
<1>2. CASE Len(pending) < plan.queue
  <2>1. /\ pending' = Append(pending, w) /\ pending' \in Seq(Wire) /\ Len(pending') = n
        /\ pending'[n] = w /\ n \in 1 .. Len(pending')
        /\ \A i \in DOMAIN pending : pending'[i] = pending[i] /\ i \in 1 .. Len(pending) + 1
        /\ DOMAIN pending' = DOMAIN pending \cup {n}
    BY <1>1, <1>2 DEF Queue
  <2>2. \A i \in DOMAIN pending : Targeted(pending'[i]) =>
          InForce(pending', header', i, pending'[i].ctrl)
    <3> SUFFICES ASSUME NEW i \in DOMAIN pending, Targeted(pending[i])
                 PROVE  InForce(pending', header, i, pending[i].ctrl)
      BY <2>1
    <3>1. InForce(pending, header, i, pending[i].ctrl) /\ i \in 1 .. Len(pending) + 1
      BY <2>1 DEF PollsFind
    <3> QED BY <1>1, <2>1, <3>1, ForceGrows
  <2>3. current # NoHeader => InForce(pending', header, n, current)
    <3>1. ASSUME current # NoHeader PROVE InForce(pending', header, n, current)
      <4>1. InForce(pending, header, n, current) /\ n \in 1 .. Len(pending) + 1
        BY <1>1, <3>1 DEF Believed
      <4> QED BY <1>1, <2>1, <4>1, ForceGrows
    <3> QED BY <3>1
  <2>4. Targeted(w) => InForce(pending', header, n, w.ctrl)
    BY <2>3 DEF Targeted
  <2>5. current' # NoHeader => InForce(pending', header, n + 1, current')
    <3>1. CASE w.kind = "ATSH"
      <4>1. Switches(pending', n)
        BY <2>1, <3>1 DEF Switches
      <4>2. InForce(pending', header, n + 1, pending'[n].ctrl)
        BY <2>1, <4>1, ForceSets
      <4> QED BY <2>1, <3>1, <4>2
    <3>2. CASE w.kind # "ATSH"
      <4>1. ~Switches(pending', n)
        BY <2>1, <3>2 DEF Switches
      <4> QED BY <2>1, <2>3, <3>2, <4>1, ForcePasses
    <3> QED BY <3>1, <3>2
  <2>6. PollsFind'
    BY <2>1, <2>2, <2>4 DEF PollsFind
  <2> QED BY <2>1, <2>5, <2>6 DEF Believed
<1>3. CASE ~(Len(pending) < plan.queue)
  BY <1>3 DEF Queue, PollsFind, Believed
<1> QED BY <1>2, <1>3

(* A wipe that spares every switch: what is left of the queue holds no     *)
(* other switch than its head.                                             *)
LEMMA WipeTracks ==
  ASSUME TypeOK, PollsFind, Believed, NEW kept, Wipe(kept), ~desync',
         kept = <<>> \/ (pending # <<>> /\ kept = <<Head(pending)>>),
         header' = header, current' = current
  PROVE  PollsFind' /\ Believed'
<1>1. pending \in Seq(Wire) /\ pending' = kept
  BY DEF TypeOK, Wipe
<1>2. \A j \in DOMAIN pending : Switches(pending, j) => pending[j] \in Elements(kept)
  BY DEF Wipe, Elements, Switches
<1>3. CASE kept = <<>>
  <2>1. \A j \in DOMAIN pending : ~Switches(pending, j)
    BY <1>2, <1>3 DEF Elements
  <2>2. current # NoHeader => header = current
    BY <1>1, <2>1 DEF Believed, InForce
  <2> QED BY <1>1, <1>3, <2>2 DEF PollsFind, Believed, InForce
<1>4. CASE pending # <<>> /\ kept = <<Head(pending)>>
  <2>1. /\ 1 \in DOMAIN pending /\ kept[1] = pending[1] /\ DOMAIN kept = {1} /\ Len(kept) = 1
        /\ Elements(kept) = {pending[1]} /\ kept \in Seq(Wire)
    BY <1>1, <1>4 DEF Elements
  <2>2. PollsFind'
    <3>1. Targeted(pending[1]) => header = pending[1].ctrl
      BY <2>1 DEF PollsFind, InForce
    <3> QED BY <1>1, <2>1, <3>1 DEF PollsFind, InForce
  <2>3. current # NoHeader => InForce(kept, header, 2, current)
    <3> SUFFICES ASSUME current # NoHeader PROVE InForce(kept, header, 2, current)
      OBVIOUS
    <3>1. InForce(pending, header, Len(pending) + 1, current)
      BY DEF Believed
    <3>2. \A j \in 1 .. Len(pending) : Switches(pending, j) => pending[j] = pending[1]
      BY <1>1, <1>2, <2>1
    <3>3. CASE Switches(pending, 1)
      <4>1. pending[1].ctrl = current
        BY <1>1, <2>1, <3>1, <3>2, <3>3 DEF InForce
      <4>2. Switches(kept, 1)
        BY <2>1, <3>3 DEF Switches
      <4> QED BY <2>1, <4>1, <4>2 DEF InForce
    <3>4. CASE ~Switches(pending, 1)
      <4>1. \A j \in 1 .. Len(pending) : ~Switches(pending, j)
        BY <3>2, <3>4 DEF Switches
      <4>2. header = current
        BY <1>1, <3>1, <4>1 DEF InForce
      <4>3. ~Switches(kept, 1)
        BY <2>1, <3>4 DEF Switches
      <4> QED BY <2>1, <4>2, <4>3 DEF InForce
    <3> QED BY <3>3, <3>4
  <2> QED BY <1>1, <2>1, <2>2, <2>3 DEF Believed
<1> QED BY <1>3, <1>4

(* The head wire leaves.                                                   *)
LEMMA CompleteTracks ==
  ASSUME Inv, Tracked, NEW error \in BOOLEAN, Complete(error) PROVE Tracked'
<1> SUFFICES ASSUME ~desync' PROVE PollsFind' /\ Believed' /\ PickFinds'
  BY DEF Tracked
<1> DEFINE left == IF Switches(pending, 1) THEN pending[1].ctrl ELSE header
<1>1. /\ pending \in Seq(Wire) /\ pending # <<>> /\ Head(pending) = pending[1]
      /\ pending' = Tail(pending) /\ 1 \in DOMAIN pending
  BY DEF Inv, TypeOK, Complete
<1>2. ~desync /\ header' = left /\ current' = current
  BY <1>1 DEF Complete, Switches, Inv, TypeOK
<1>3. PollsFind /\ Believed
  BY <1>2 DEF Tracked
<1>4. /\ Len(pending') = Len(pending) - 1 /\ Len(pending) \in Nat \ {0}
      /\ \A i \in DOMAIN pending' : /\ i \in 1 .. Len(pending) /\ i + 1 \in DOMAIN pending
                                    /\ pending'[i] = pending[i + 1]
  BY <1>1
<1>5. PollsFind'
  <2> SUFFICES ASSUME NEW i \in DOMAIN pending', Targeted(pending[i + 1])
               PROVE  InForce(pending', left, i, pending[i + 1].ctrl)
    BY <1>2, <1>4 DEF PollsFind
  <2>1. InForce(pending, header, i + 1, pending[i + 1].ctrl)
    BY <1>3, <1>4 DEF PollsFind
  <2> QED BY <1>1, <1>4, <2>1, ForceShrinks
<1>6. Believed'
  <2> SUFFICES ASSUME current # NoHeader
               PROVE  InForce(pending', left, Len(pending), current)
    BY <1>2, <1>4 DEF Believed
  <2>1. InForce(pending, header, Len(pending) + 1, current) /\ Len(pending) \in 1 .. Len(pending)
    BY <1>3, <1>4 DEF Believed
  <2> QED BY <1>1, <2>1, ForceShrinks
<1>7. PickFinds'
  BY DEF Complete, PickFinds, Inv, TypeOK
<1> QED BY <1>5, <1>6, <1>7

(* Where a PID is polled never changes.                                    *)
LEMMA SamePoll ==
  ASSUME plan'.target = plan.target, cb' = cb PROVE (Poll(cb.pids).ctrl)' = Poll(cb.pids).ctrl
  BY DEF Poll

(* Steps that touch neither the queue nor the headers, and pick no wire.   *)
LEMMA AsideTracks ==
  ASSUME Inv, Tracked, UNCHANGED <<pending, header, current, plan, desync>>,
         cb' = cb \/ cb'.pc # "send"
  PROVE  Tracked'
<1>1. ~desync => PollsFind' /\ Believed'
  BY DEF Tracked, PollsFind, Believed
<1>2. ~desync => PickFinds'
  BY DEF Tracked, PickFinds, Poll
<1> QED BY <1>1, <1>2 DEF Tracked

LEMMA CallbackTracks == ASSUME Inv, Tracked, Callback PROVE Tracked'
<1>0. cb \in [pc : {"idle", "complete", "error", "halt", "pick", "switch", "send",
                    "alive", "look", "dead"}, pids : SUBSET Pid]
  BY DEF Inv, TypeOK
<1>1. CASE CompleteMembers
  BY <1>1, AsideTracks DEF CompleteMembers
<1>2. CASE CompleteError
  BY <1>2, AsideTracks DEF CompleteError
<1>3. CASE ChainDies
  BY <1>3, AsideTracks DEF ChainDies, Idle
<1>4. CASE Pick
  <2>1. cb'.pc # "send"
    BY <1>0, <1>4 DEF Pick
  <2> QED BY <1>4, <2>1, AsideTracks DEF Pick
<1>5. CASE SwitchController
  <2> SUFFICES ASSUME ~desync' PROVE PollsFind' /\ Believed' /\ PickFinds'
    BY DEF Tracked
  <2> DEFINE h == Poll(cb.pids).ctrl
  <2>1. /\ cb' = [cb EXCEPT !.pc = "send"] /\ cb'.pids = cb.pids /\ plan' = plan
        /\ header' = header /\ cb.pids \in SUBSET Pid /\ cb.pids # {}
    BY <1>0, <1>5 DEF SwitchController, Inv, Picked
  <2>2. h \in Header \cup {NoHeader}
    BY <2>1, PollIsWire DEF Inv, Wire
  <2>3. CASE h # NoHeader /\ h # current
    <3>1. /\ Queue(Switch(h)) /\ current' = h /\ desync' = (desync \/ Len(pending) = plan.queue)
      BY <1>5, <2>3 DEF SwitchController
    <3>2. ~desync /\ Len(pending) < plan.queue
      <4>1. ~desync /\ Len(pending) # plan.queue
        BY <3>1
      <4>2. Len(pending) <= plan.queue /\ Len(pending) \in Nat /\ plan.queue \in Nat
        BY DEF Inv, TypeOK, Plan
      <4> QED BY <4>1, <4>2
    <3>3. Switch(h) \in Wire /\ Switch(h).kind = "ATSH" /\ Switch(h).ctrl = h
      BY <2>2, <2>3, WiresAreWires DEF Switch
    <3>4. PollsFind' /\ Believed'
      BY <2>1, <3>1, <3>2, <3>3, QueueTracks DEF Inv, Tracked
    <3>5. PickFinds'
      BY <2>1, <3>1 DEF PickFinds, Poll
    <3> QED BY <3>4, <3>5
  <2>4. CASE ~(h # NoHeader /\ h # current)
    <3>1. UNCHANGED <<pending, lost, current, desync>>
      BY <1>5, <2>4 DEF SwitchController
    <3>2. PollsFind' /\ Believed'
      BY <2>1, <3>1 DEF Tracked, PollsFind, Believed
    <3>3. PickFinds'
      BY <2>1, <2>4, <3>1 DEF PickFinds, Poll
    <3> QED BY <3>2, <3>3
  <2> QED BY <2>3, <2>4
<1>6. CASE SendWire
  <2> SUFFICES ASSUME ~desync' PROVE PollsFind' /\ Believed' /\ PickFinds'
    BY DEF Tracked
  <2> DEFINE w == Poll(cb.pids)
  <2>1. cb.pids \in SUBSET Pid /\ cb.pids # {} /\ cb.pc = "send"
    BY <1>0, <1>6 DEF SendWire, Inv, Picked
  <2>2. /\ Queue(w) /\ w \in Wire /\ w.kind = "poll" /\ ~desync
        /\ header' = header /\ current' = current /\ cb'.pc = "alive"
    BY <1>6, <2>1, PollIsWire DEF SendWire, Inv, Poll
  <2>3. Targeted(w) => w.ctrl = current
    BY <2>1, <2>2 DEF Tracked, PickFinds, Targeted
  <2>4. PollsFind' /\ Believed'
    <3> HIDE DEF w
    <3> QED BY <2>2, <2>3, QueueTracks DEF Inv, Tracked
  <2> QED BY <2>2, <2>4 DEF PickFinds
<1>7. CASE ChainLives
  BY <1>7, AsideTracks DEF ChainLives, Idle
<1>8. CASE LookForWork
  <2>1. cb'.pc # "send"
    BY <1>0, <1>8 DEF LookForWork, Idle
  <2> QED BY <1>8, <2>1, AsideTracks DEF LookForWork
<1> QED BY <1>1, <1>2, <1>3, <1>4, <1>5, <1>6, <1>7, <1>8 DEF Callback

(* Other wires: the kick of a caller, somebody's one-shot.                 *)
LEMMA OtherWireTracks ==
  ASSUME Inv, Tracked, NEW w \in {KickWire, OneShot}, Queue(w),
         UNCHANGED <<header, current, cb, desync>>, plan'.target = plan.target
  PROVE  Tracked'
<1>1. w \in Wire /\ w.kind \notin {"ATSH", "poll"}
  BY WiresAreWires DEF KickWire, OneShot
<1>2. ~desync => PollsFind' /\ Believed'
  BY <1>1, QueueTracks DEF Inv, Tracked, Targeted
<1>3. ~desync => PickFinds'
  BY SamePoll DEF Tracked, PickFinds
<1> QED BY <1>2, <1>3 DEF Tracked

LEMMA DisturbanceTracks ==
  ASSUME Inv, Tracked,
         \/ \E s \in Sub : Pause(s)
         \/ AcquisitionPauses \/ QueueOneShot \/ ClearQueue
         \/ AbortFlag \/ AbortWires \/ AdapterReset
  PROVE  Tracked'
<1>0. plan \in Plan
  BY DEF Inv, TypeOK
<1>1. ASSUME NEW op, Disturb(op) PROVE plan'.target = plan.target
  BY <1>0, <1>1 DEF Disturb, Plan
<1>2. ASSUME NEW s \in Sub, Pause(s) PROVE Tracked'
  BY <1>2, AsideTracks DEF Pause, callerOnly
<1>3. CASE AcquisitionPauses
  BY <1>3, AsideTracks DEF AcquisitionPauses
<1>4. CASE QueueOneShot
  <2>1. plan'.target = plan.target
    BY <1>0, <1>4 DEF QueueOneShot, Plan
  <2> QED BY <1>4, <2>1, OtherWireTracks DEF QueueOneShot
<1>5. ASSUME NEW kept, kept = <<>> \/ (pending # <<>> /\ kept = <<Head(pending)>>),
             Wipe(kept), UNCHANGED <<header, current, cb>>, plan'.target = plan.target
      PROVE  Tracked'
  <2> SUFFICES ASSUME ~desync' PROVE PollsFind' /\ Believed' /\ PickFinds'
    BY DEF Tracked
  <2>1. ~desync
    BY <1>5 DEF Wipe
  <2>2. PollsFind' /\ Believed'
    BY <1>5, <2>1, WipeTracks DEF Inv, Tracked
  <2>3. PickFinds'
    BY <1>5, <2>1, SamePoll DEF Tracked, PickFinds
  <2> QED BY <2>2, <2>3
<1>6. CASE ClearQueue
  <2>1. plan'.target = plan.target /\ UNCHANGED <<header, current, cb>> /\ pending # <<>>
    BY <1>1, <1>6 DEF ClearQueue
  <2>2. CASE Wipe(<<>>)
    BY <1>5, <2>1, <2>2
  <2>3. CASE Wipe(<<Head(pending)>>)
    BY <1>5, <2>1, <2>3
  <2> QED BY <1>6, <2>2, <2>3 DEF ClearQueue
<1>7. CASE AbortFlag
  <2>1. plan'.target = plan.target /\ UNCHANGED <<pending, header, current, cb, desync>>
    BY <1>1, <1>7 DEF AbortFlag
  <2>2. ~desync => PollsFind' /\ Believed'
    BY <2>1 DEF Tracked, PollsFind, Believed
  <2>3. ~desync => PickFinds'
    BY <2>1, SamePoll DEF Tracked, PickFinds
  <2> QED BY <2>1, <2>2, <2>3 DEF Tracked
<1>8. CASE AbortWires
  <2>1. Wipe(<<>>) /\ plan' = plan /\ UNCHANGED <<header, current, cb>>
    BY <1>8 DEF AbortWires
  <2> QED BY <1>5, <2>1
<1>9. CASE AdapterReset
  BY <1>9 DEF AdapterReset, Tracked
<1> QED BY <1>2, <1>3, <1>4, <1>6, <1>7, <1>8, <1>9

LEMMA CallerTracks ==
  ASSUME Inv, Tracked, NEW c \in Caller,
         \/ \E s \in Sub : Start(c, s) \/ Kick(c, s)
         \/ Claim(c) \/ ClearInFlight(c) \/ QueueKick(c) \/ AcquisitionResumes(c)
  PROVE  Tracked'
<1>1. CASE QueueKick(c)
  BY <1>1, OtherWireTracks DEF QueueKick, callerOnly
<1>2. CASE ~QueueKick(c)
  <2>1. UNCHANGED <<pending, header, current, plan, desync, cb>>
    BY <1>2 DEF Start, Kick, Claim, ClearInFlight, AcquisitionResumes, callerOnly
  <2> QED BY <2>1, AsideTracks
<1> QED BY <1>1, <1>2

LEMMA InitTracks == Init => Tracked
  BY DEF Init, Tracked, PollsFind, Believed, PickFinds, Idle

LEMMA NextTracks == Inv /\ Tracked /\ [Next]_vars => Tracked'
<1> SUFFICES ASSUME Inv, Tracked, [Next]_vars PROVE Tracked'
  OBVIOUS
<1>1. CASE UNCHANGED vars
  BY <1>1, AsideTracks DEF vars
<1>2. CASE Next
  BY <1>2, CompleteTracks, CallbackTracks, CallerTracks, DisturbanceTracks DEF Next, Kicker
<1> QED BY <1>1, <1>2

(* A poll goes out under its own header, as long as every switch reaches   *)
(* the adapter and is obeyed, and nothing resets the adapter.              *)
THEOREM HeadersHold == Spec => []HeaderTracked
<1>1. Inv /\ Tracked => HeaderTracked
  <2> SUFFICES ASSUME Inv, Tracked, pending # <<>>, Targeted(Head(pending)), ~desync
               PROVE  header = Head(pending).ctrl
    BY DEF HeaderTracked, Targeted
  <2>1. 1 \in DOMAIN pending /\ Head(pending) = pending[1]
    BY DEF Inv, TypeOK
  <2>2. InForce(pending, header, 1, pending[1].ctrl)
    BY <2>1 DEF Tracked, PollsFind
  <2> QED BY <2>1, <2>2 DEF InForce
<1> QED BY <1>1, InitInv, NextInv, InitTracks, NextTracks, PTL DEF Spec

-----------------------------------------------------------------------------
(* A wire whose completion will name its PIDs.  A mark that is not in the  *)
(* callback's hands is on such a wire: a second wire of the same chunk is  *)
(* no longer registered once the first completed, but then that completion *)
(* clears the marks, or they were set again for a wire registered again.   *)
Registered(w) == w.pids \in members \/ Cardinality(w.pids) <= 1
OnWire(p) == \E i \in DOMAIN pending : p \in pending[i].pids /\ Registered(pending[i])
Backed == \A p \in in_flight \ lost.pids : p \in cb.pids \/ OnWire(p)
HandsFree == cb.pc \notin {"complete", "error", "switch", "send"} => cb.pids = {}

Held == Backed /\ HandsFree

(* Queueing keeps every mark backed and backs those of the wire.           *)
LEMMA QueueBacks ==
  ASSUME TypeOK, NEW w \in Wire, Queue(w), members \subseteq members',
         w.pids \in members' \/ Cardinality(w.pids) <= 1
  PROVE  /\ \A p \in Pid : OnWire(p) => OnWire(p)'
         /\ \A p \in w.pids \ lost'.pids : OnWire(p)'
         /\ lost.pids \subseteq lost'.pids
<1>1. pending \in Seq(Wire)
  BY DEF TypeOK
<1>2. CASE Len(pending) < plan.queue
  <2>1. /\ pending' = Append(pending, w) /\ lost'.pids = lost.pids
        /\ \A i \in DOMAIN pending : i \in DOMAIN pending' /\ pending'[i] = pending[i]
        /\ Len(pending) + 1 \in DOMAIN pending' /\ pending'[Len(pending) + 1] = w
    BY <1>1, <1>2 DEF Queue
  <2> QED BY <2>1 DEF OnWire, Registered
<1>3. CASE ~(Len(pending) < plan.queue)
  <2>1. pending' = pending /\ lost'.pids = lost.pids \cup w.pids
    BY <1>3 DEF Queue
  <2> QED BY <2>1 DEF OnWire, Registered
<1> QED BY <1>2, <1>3

(* A wipe writes off the marks of the wires it takes.                      *)
LEMMA WipeBacks ==
  ASSUME TypeOK, NEW kept, Wipe(kept), members' = members
  PROVE  /\ \A p \in Pid \ lost'.pids : OnWire(p) => OnWire(p)'
         /\ lost.pids \subseteq lost'.pids
<1>1. pending' = kept /\ lost'.pids =
        lost.pids \cup UNION {w.pids : w \in Elements(pending) \ Elements(kept)}
  BY DEF Wipe
<1>2. ASSUME NEW p \in Pid \ lost'.pids, OnWire(p) PROVE OnWire(p)'
  <2>1. PICK i \in DOMAIN pending : p \in pending[i].pids /\ Registered(pending[i])
    BY <1>2 DEF OnWire
  <2>2. pending[i] \in Elements(kept)
    BY <1>1, <2>1 DEF Elements
  <2>3. PICK j \in DOMAIN kept : kept[j] = pending[i]
    BY <2>2 DEF Elements
  <2> QED BY <1>1, <2>1, <2>3 DEF OnWire, Registered
<1> QED BY <1>1, <1>2

(* The head's completion takes the marks of its wire in hand.              *)
LEMMA CompleteBacks ==
  ASSUME Inv, Held, NEW error \in BOOLEAN, Complete(error) PROVE Held'
<1> DEFINE w == Head(pending)
<1>1. /\ pending \in Seq(Wire) /\ pending # <<>> /\ w = pending[1]
      /\ pending' = Tail(pending) /\ cb.pids = {}
      /\ UNCHANGED <<in_flight, lost>> /\ members' = members \ {w.pids}
      /\ cb'.pc \in {"complete", "error"}
      /\ cb'.pids = IF Registered(w) THEN w.pids ELSE {}
  BY DEF Inv, TypeOK, Complete, Held, HandsFree, Registered
<1>2. ASSUME NEW p \in in_flight \ lost.pids PROVE p \in cb'.pids \/ OnWire(p)'
  <2>1. PICK i \in DOMAIN pending : p \in pending[i].pids /\ Registered(pending[i])
    BY <1>1 DEF Held, Backed, OnWire
  <2>2. CASE pending[i].pids = w.pids
    BY <1>1, <2>1, <2>2 DEF Registered
  <2>3. CASE pending[i].pids # w.pids
    <3>1. i # 1 /\ i - 1 \in DOMAIN pending' /\ pending'[i - 1] = pending[i]
      BY <1>1, <2>3
    <3>2. pending[i].pids \in members' \/ Cardinality(pending[i].pids) <= 1
      BY <1>1, <2>1, <2>3 DEF Registered
    <3> QED BY <2>1, <3>1, <3>2 DEF OnWire, Registered
  <2> QED BY <2>2, <2>3
<1> QED BY <1>1, <1>2 DEF Held, Backed, HandsFree

LEMMA CallbackBacks == ASSUME Inv, Held, Callback PROVE Held'
<1>0. cb \in [pc : {"idle", "complete", "error", "halt", "pick", "switch", "send",
                    "alive", "look", "dead"}, pids : SUBSET Pid]
  BY DEF Inv, TypeOK
<1>1. CASE CompleteMembers
  BY <1>1 DEF CompleteMembers, Held, Backed, HandsFree, OnWire, Registered
<1>2. CASE CompleteError
  BY <1>2 DEF CompleteError, Held, Backed, HandsFree, OnWire, Registered
<1>3. CASE ChainDies
  BY <1>3 DEF ChainDies, Idle, Held, Backed, HandsFree, OnWire, Registered
<1>4. CASE Pick
  <2>1. UNCHANGED <<pending, members, lost>> /\ cb.pids = {}
    BY <1>4 DEF Pick, Held, HandsFree
  <2>2. CASE \E ps \in PickSets : in_flight' = in_flight \cup ps
                                  /\ cb' = [pc |-> "switch", pids |-> ps]
    BY <2>1, <2>2 DEF Held, Backed, HandsFree, OnWire, Registered
  <2>3. CASE cb' = [cb EXCEPT !.pc = "look"] /\ UNCHANGED in_flight
    BY <1>0, <2>1, <2>3 DEF Held, Backed, HandsFree, OnWire, Registered
  <2> QED BY <1>4, <2>2, <2>3 DEF Pick
<1>5. CASE SwitchController
  <2> DEFINE h == Poll(cb.pids).ctrl
  <2>1. /\ cb'.pids = cb.pids /\ cb'.pc = "send" /\ UNCHANGED <<members, in_flight>>
        /\ cb.pids \in SUBSET Pid /\ cb.pids # {}
    BY <1>0, <1>5 DEF SwitchController, Inv, Picked
  <2>2. CASE UNCHANGED <<pending, lost>>
    BY <2>1, <2>2 DEF Held, Backed, HandsFree, OnWire, Registered
  <2>3. CASE h # NoHeader /\ Queue(Switch(h))
    <3>1. h \in Header
      BY <2>1, <2>3, PollIsWire DEF Inv, Wire
    <3>2. Switch(h) \in Wire /\ Switch(h).pids = {}
      BY <3>1, WiresAreWires DEF Switch
    <3>3. Cardinality(Switch(h).pids) <= 1
      BY <3>2, FS_EmptySet
    <3> HIDE DEF h
    <3>4. (\A p \in Pid : OnWire(p) => OnWire(p)') /\ lost.pids \subseteq lost'.pids
      BY <2>1, <2>3, <3>2, <3>3, QueueBacks DEF Inv
    <3> QED BY <2>1, <3>4 DEF Held, Backed, HandsFree, Inv, TypeOK
  <2> QED BY <1>5, <2>2, <2>3 DEF SwitchController
<1>6. CASE SendWire
  <2> DEFINE w == Poll(cb.pids)
  <2>1. /\ cb.pids \in SUBSET Pid /\ cb.pids # {} /\ Queue(w) /\ w.pids = cb.pids
        /\ members' = members \cup {cb.pids} /\ in_flight' = in_flight
        /\ cb' = [pc |-> "alive", pids |-> {}]
    BY <1>0, <1>6 DEF SendWire, Inv, Picked, Poll
  <2>2. w \in Wire
    BY <2>1, PollIsWire DEF Inv
  <2> HIDE DEF w
  <2>3. /\ \A p \in Pid : OnWire(p) => OnWire(p)'
        /\ \A p \in cb.pids \ lost'.pids : OnWire(p)'
        /\ lost.pids \subseteq lost'.pids
    BY <2>1, <2>2, QueueBacks DEF Inv
  <2> QED BY <2>1, <2>3 DEF Held, Backed, HandsFree, Inv, TypeOK
<1>7. CASE ChainLives
  BY <1>7 DEF ChainLives, Idle, Held, Backed, HandsFree, OnWire, Registered
<1>8. CASE LookForWork
  BY <1>0, <1>8 DEF LookForWork, Idle, Held, Backed, HandsFree, OnWire, Registered
<1> QED BY <1>1, <1>2, <1>3, <1>4, <1>5, <1>6, <1>7, <1>8 DEF Callback

(* Steps outside the callback: the marks may be cleared, wires without     *)
(* PIDs queued, and wires wiped.                                           *)
LEMMA OutsideBacks ==
  ASSUME Inv, Held, UNCHANGED <<cb, members>>, in_flight' \subseteq in_flight,
         \/ UNCHANGED <<pending, lost>>
         \/ \E w \in {KickWire, OneShot} : Queue(w)
         \/ \E kept : Wipe(kept)
  PROVE  Held'
<1>1. CASE UNCHANGED <<pending, lost>>
  BY <1>1 DEF Held, Backed, HandsFree, OnWire, Registered
<1>2. ASSUME NEW w \in {KickWire, OneShot}, Queue(w) PROVE Held'
  <2>1. w \in Wire /\ w.pids = {}
    BY WiresAreWires DEF KickWire, OneShot
  <2>2. (\A p \in Pid : OnWire(p) => OnWire(p)') /\ lost.pids \subseteq lost'.pids
    BY <1>2, <2>1, FS_EmptySet, QueueBacks DEF Inv
  <2> QED BY <2>2 DEF Held, Backed, HandsFree, Inv, TypeOK
<1>3. ASSUME NEW kept, Wipe(kept) PROVE Held'
  <2>1. /\ \A p \in Pid \ lost'.pids : OnWire(p) => OnWire(p)'
        /\ lost.pids \subseteq lost'.pids
    BY <1>3, WipeBacks DEF Inv
  <2> QED BY <2>1 DEF Held, Backed, HandsFree, Inv, TypeOK
<1> QED BY <1>1, <1>2, <1>3

LEMMA NextBacks == Inv /\ Held /\ [Next]_vars => Held'
<1> SUFFICES ASSUME Inv, Held, [Next]_vars PROVE Held'
  OBVIOUS
<1>1. CASE UNCHANGED vars
  BY <1>1, OutsideBacks DEF vars
<1>2. ASSUME NEW c \in Caller,
             \/ Kicker(c) \/ AcquisitionResumes(c) \/ \E s \in Sub : Start(c, s)
      PROVE  Held'
  BY <1>2, OutsideBacks DEF Kicker, Kick, Claim, ClearInFlight, QueueKick, AcquisitionResumes,
     Start, callerOnly
<1>3. CASE \/ \E s \in Sub : Pause(s)
           \/ AcquisitionPauses \/ QueueOneShot \/ ClearQueue
           \/ AbortFlag \/ AbortWires \/ AdapterReset
  BY <1>3, OutsideBacks DEF Pause, AcquisitionPauses, QueueOneShot, ClearQueue, AbortFlag,
     AbortWires, AdapterReset, callerOnly
<1> QED BY <1>1, <1>2, <1>3, CompleteBacks, CallbackBacks DEF Next

(* A PID marked in flight is on a wire or in the callback's hands, unless  *)
(* its wire was wiped or refused: no mark takes a PID out of the polling   *)
(* for good.                                                               *)
THEOREM MarksBacked == Spec => []InFlightBacked
<1>1. Init => Held
  BY DEF Init, Idle, Held, Backed, HandsFree
<1>2. Inv /\ Held => InFlightBacked
  BY DEF Held, Backed, OnWire, InFlightBacked, Elements, Inv, TypeOK
<1> QED BY <1>1, <1>2, InitInv, NextInv, NextBacks, PTL DEF Spec

-----------------------------------------------------------------------------
(* What is left of a sequence when only the elements of a set are kept.    *)
OnlyStep(E, S) ==
  [x \in Seq(E \cap S) \X E |-> IF x[2] \in S THEN Append(x[1], x[2]) ELSE x[1]]

LEMMA OnlyFold ==
  ASSUME NEW E, NEW S, NEW s \in Seq(E)
  PROVE  Only(s, S) \in Seq(E \cap S) /\ IsFold(Only(s, S), OnlyStep(E, S), <<>>, s)
<1> DEFINE V == Seq(E \cap S)
           Body(h) == [t \in SUBSET DOMAIN s |->
                         IF t = {} THEN <<>>
                         ELSE IF s[Max(t)] \in S THEN Append(h[t \ {Max(t)}], s[Max(t)])
                              ELSE h[t \ {Max(t)}]]
           iter == CHOOSE h : h = Body(h)
<1>1. Only(s, S) = iter[DOMAIN s]
  BY DEF Only, FoldLeft, MapThenFoldSet
<1>2. OnlyStep(E, S) \in [V \X E -> V] /\ <<>> \in V
  BY DEF OnlyStep
<1> HIDE DEF V
<1>3. PICK g : Guides(g, V, E, OnlyStep(E, S), <<>>, s)
  BY <1>2, FoldGiven
<1>4. ASSUME NEW t \in SUBSET DOMAIN s
      PROVE  g[t] = IF t = {} THEN <<>>
                    ELSE IF s[Max(t)] \in S THEN Append(g[t \ {Max(t)}], s[Max(t)])
                         ELSE g[t \ {Max(t)}]
  BY <1>3 DEF OnlyStep, V, Guides
<1>5. g = Body(g)
  BY <1>3, <1>4 DEF Guides
<1>6. PICK h : h = Body(h) /\ Only(s, S) = h[DOMAIN s]
  BY <1>1, <1>5
<1>7. Follows(h, g, Len(s))
  <2>1. DOMAIN s = 1 .. Len(s)
    OBVIOUS
  <2>2. \A t \in SUBSET DOMAIN s :
          h[t] = IF t = {} THEN <<>>
                 ELSE IF s[Max(t)] \in S THEN Append(h[t \ {Max(t)}], s[Max(t)])
                      ELSE h[t \ {Max(t)}]
    BY <1>6
  <2> QED BY <1>4, <2>1, <2>2 DEF Follows
<1>8. IsFold(h[DOMAIN s], OnlyStep(E, S), <<>>, s) /\ h[DOMAIN s] \in V
  BY <1>3, <1>7 DEF Guides
<1> QED BY <1>6, <1>8 DEF V

LEMMA OnlyNone == \A S : Only(<<>>, S) = <<>>
<1> SUFFICES ASSUME NEW S PROVE Only(<<>>, S) = <<>>
  OBVIOUS
<1>1. <<>> \in Seq({})
  OBVIOUS
<1>2. IsFold(Only(<<>>, S), OnlyStep({}, S), <<>>, <<>>)
  BY <1>1, OnlyFold
<1> QED BY <1>2, FoldNone

LEMMA OnlyAppend ==
  ASSUME NEW E, NEW S, NEW s \in Seq(E), NEW x \in E
  PROVE  Only(Append(s, x), S) = IF x \in S THEN Append(Only(s, S), x) ELSE Only(s, S)
<1>1. Append(s, x) \in Seq(E)
  OBVIOUS
<1>2. Only(s, S) \in Seq(E \cap S) /\ IsFold(Only(s, S), OnlyStep(E, S), <<>>, s)
  BY OnlyFold
<1>3. IsFold(Only(Append(s, x), S), OnlyStep(E, S), <<>>, Append(s, x))
  BY <1>1, OnlyFold
<1>4. Only(Append(s, x), S) = OnlyStep(E, S)[<<Only(s, S), x>>]
  BY <1>2, <1>3, FoldOne
<1> QED BY <1>2, <1>4 DEF OnlyStep

(* Of the positions 1 to n: what is kept of them is all, or fewer, and it  *)
(* begins with the first if that is kept.                                  *)
Positions(n) == [i \in 1 .. n |-> i]

KeptOf(n, S) ==
  /\ Only(Positions(n), S) \in Seq((1 .. n) \cap S)
  /\ Len(Only(Positions(n), S)) <= n
  /\ Len(Only(Positions(n), S)) = n => Only(Positions(n), S) = Positions(n)
  /\ n >= 1 /\ 1 \in S => Only(Positions(n), S) # <<>> /\ Only(Positions(n), S)[1] = 1

LEMMA KeptPositions == \A S : \A n \in Nat : KeptOf(n, S)
<1> SUFFICES ASSUME NEW S PROVE \A n \in Nat : KeptOf(n, S)
  OBVIOUS
<1> DEFINE T == {n \in Nat : KeptOf(n, S)}
<1>1. 0 \in T
  <2>1. Positions(0) = <<>>
    BY DEF Positions
  <2>2. Only(Positions(0), S) = <<>>
    BY <2>1, OnlyNone
  <2>3. <<>> \in Seq((1 .. 0) \cap S) /\ Len(<<>>) = 0
    OBVIOUS
  <2>4. KeptOf(0, S)
    <3>1. PICK k : k = Only(Positions(0), S)
      OBVIOUS
    <3>2. k = <<>> /\ k = Positions(0)
      BY <2>1, <2>2, <3>1
    <3>3. k \in Seq((1 .. 0) \cap S) /\ Len(k) <= 0
      BY <2>3, <3>2
    <3> QED BY <3>1, <3>2, <3>3 DEF KeptOf
  <2> QED BY <2>4
<1>2. ASSUME NEW n \in Nat, n \in T PROVE n + 1 \in T
  <2> DEFINE k == Only(Positions(n), S)
             j == Only(Positions(n + 1), S)
  <2>1. Positions(n) \in Seq(1 .. n) /\ Positions(n) \in Seq(Nat)
        /\ Positions(n + 1) \in Seq(1 .. n + 1) /\ Len(Positions(n)) = n
        /\ Positions(n + 1) = Append(Positions(n), n + 1)
    BY DEF Positions
  <2>2. j = IF n + 1 \in S THEN Append(k, n + 1) ELSE k
    <3>1. Only(Append(Positions(n), n + 1), S)
            = IF n + 1 \in S THEN Append(Only(Positions(n), S), n + 1) ELSE Only(Positions(n), S)
      <4>1. n + 1 \in Nat
        OBVIOUS
      <4>2. \A s \in Seq(Nat), x \in Nat :
              Only(Append(s, x), S) = IF x \in S THEN Append(Only(s, S), x) ELSE Only(s, S)
        BY OnlyAppend
      <4> QED BY <2>1, <4>1, <4>2
    <3> QED BY <2>1, <3>1
  <2>3. j \in Seq((1 .. n + 1) \cap S)
    BY <2>1, OnlyFold
  <2>4. /\ k \in Seq((1 .. n) \cap S) /\ Len(k) <= n /\ (Len(k) = n => k = Positions(n))
        /\ n >= 1 /\ 1 \in S => k # <<>> /\ k[1] = 1
    BY <1>2 DEF KeptOf
  <2> HIDE DEF k, j
  <2>5. Len(j) <= n + 1 /\ (Len(j) = n + 1 => j = Positions(n + 1))
    <3>1. Len(k) \in Nat /\ Len(Append(k, n + 1)) = Len(k) + 1
      BY <2>4
    <3>2. CASE n + 1 \in S
      <4>1. j = Append(k, n + 1) /\ Len(j) = Len(k) + 1
        BY <2>2, <3>1, <3>2
      <4>2. Len(k) = n => j = Positions(n + 1)
        BY <2>1, <2>4, <4>1
      <4> QED BY <2>4, <3>1, <4>1, <4>2
    <3>3. CASE n + 1 \notin S
      BY <2>2, <2>4, <3>1, <3>3
    <3> QED BY <3>2, <3>3
  <2>6. ASSUME 1 \in S PROVE j # <<>> /\ j[1] = 1
    <3>1. CASE n >= 1
      BY <2>2, <2>4, <2>6, <3>1
    <3>2. CASE n = 0
      <4>1. k = <<>>
        BY <2>4, <3>2
      <4> QED BY <2>2, <2>6, <3>2, <4>1
    <3> QED BY <3>1, <3>2
  <2> QED BY <2>3, <2>5, <2>6 DEF KeptOf, j
<1> HIDE DEF T
<1>3. \A n \in Nat : n \in T
  BY <1>1, <1>2, Induct
<1> QED BY <1>3 DEF T

-----------------------------------------------------------------------------
(* Frames.                                                                 *)
LEMMA MinTwo == \A a, b \in Int : Min({a, b}) = IF a <= b THEN a ELSE b
  BY DEF Min

LEMMA MaxTwo == \A a, b \in Int : Max({a, b}) = IF a >= b THEN a ELSE b
  BY DEF Max

LEMMA UpToIs ==
  ASSUME NEW E, NEW bytes \in Seq(E), NEW n \in Nat
  PROVE  UpTo(n, bytes) = IF n <= Len(bytes) THEN SubSeq(bytes, 1, n) ELSE bytes
<1>1. Len(bytes) \in Int /\ n \in Int
  OBVIOUS
<1>2. Min({n, Len(bytes)}) = IF n <= Len(bytes) THEN n ELSE Len(bytes)
  BY <1>1, MinTwo
<1>3. SubSeq(bytes, 1, Len(bytes)) = bytes
  OBVIOUS
<1> QED BY <1>2, <1>3 DEF UpTo

LEMMA Function == ASSUME NEW E, NEW n \in Nat, NEW f \in [1 .. n -> E]
                  PROVE  f \in Seq(E) /\ Len(f) = n
  OBVIOUS

LEMMA Joint ==
  ASSUME NEW E, NEW f \in Seq(E), NEW b \in Seq(E)
  PROVE  /\ f \o b \in Seq(E) /\ Len(f \o b) = Len(f) + Len(b) /\ Len(f) \in Nat /\ Len(b) \in Nat
         /\ \A k \in 1 .. Len(f) : (f \o b)[k] = f[k]
         /\ \A k \in 1 .. Len(b) : (f \o b)[Len(f) + k] = b[k]
<1>1. f \o b \in Seq(E) /\ Len(f \o b) = Len(f) + Len(b) /\ Len(f) \in Nat /\ Len(b) \in Nat
  OBVIOUS
<1>2. \A k \in 1 .. Len(f) : (f \o b)[k] = f[k]
  OBVIOUS
<1>3. \A k \in 1 .. Len(b) : (f \o b)[Len(f) + k] = b[k]
  OBVIOUS
<1> QED BY <1>1, <1>2, <1>3

LEMMA Prefixed ==
  ASSUME NEW E, NEW x \in E, NEW b \in Seq(E)
  PROVE  /\ <<x>> \o b \in Seq(E) /\ Len(<<x>> \o b) = 1 + Len(b) /\ Len(b) \in Nat
         /\ (<<x>> \o b)[1] = x /\ \A i \in 1 .. Len(b) : (<<x>> \o b)[1 + i] = b[i]
<1>1. <<x>> \in Seq(E) /\ Len(<<x>>) = 1 /\ <<x>>[1] = x
  OBVIOUS
<1>2. /\ <<x>> \o b \in Seq(E) /\ Len(<<x>> \o b) = Len(<<x>>) + Len(b) /\ Len(b) \in Nat
      /\ \A k \in 1 .. Len(<<x>>) : (<<x>> \o b)[k] = <<x>>[k]
      /\ \A k \in 1 .. Len(b) : (<<x>> \o b)[Len(<<x>>) + k] = b[k]
  BY ONLY <1>1, b \in Seq(E), Joint
<1>3. PICK t : t = <<x>> \o b
  OBVIOUS
<1>4. t[1] = x /\ \A i \in 1 .. Len(b) : t[1 + i] = b[i]
  <2>1. 1 \in 1 .. Len(<<x>>)
    BY <1>1
  <2> QED BY <1>1, <1>2, <1>3, <2>1
<1> QED BY <1>1, <1>2, <1>3, <1>4

LEMMA Equal ==
  ASSUME NEW E, NEW u \in Seq(E), NEW v \in Seq(E), Len(u) = Len(v),
         \A i \in 1 .. Len(u) : u[i] = v[i]
  PROVE  u = v
  OBVIOUS

LEMMA Wider == ASSUME NEW D, NEW E, \A x \in D : x \in E, NEW s \in Seq(D) PROVE s \in Seq(E)
<1>1. \A i \in 1 .. Len(s) : s[i] \in E
  OBVIOUS
<1>2. s \in [1 .. Len(s) -> E] /\ Len(s) \in Nat
  BY <1>1
<1> QED BY <1>2

(* What one frame more adds to the bytes that were joined.                 *)
Seven(E) == {b \in Seq(E) : Len(b) = 7}
Short(E) == {b \in Seq(E) : Len(b) <= 7}

LEMMA ShortOnes ==
  ASSUME NEW E
  PROVE  /\ \A b \in Seq(E) : Len(b) <= 7 => b \in Short(E)
         /\ \A b \in Seven(E) : b \in Short(E) /\ b \in Seq(E)
         /\ \A b \in Short(E) : b \in Seq(E)
<1>1. \A b \in Seq(E) : Len(b) <= 7 => b \in Short(E)
  BY DEF Short
<1>2. \A b \in Seven(E) : b \in Seq(E) /\ Len(b) = 7
  BY DEF Seven
<1>3. \A b \in Short(E) : b \in Seq(E)
  BY DEF Short
<1>4. ASSUME NEW b \in Seven(E) PROVE b \in Short(E)
  <2>1. b \in Seq(E) /\ Len(b) = 7
    BY <1>2
  <2>2. \A m \in Nat : m = 7 => m <= 7
    OBVIOUS
  <2>3. Len(b) <= 7
    BY <2>1, <2>2
  <2> QED BY <1>1, <2>1, <2>3
<1> QED BY <1>1, <1>2, <1>3, <1>4

JoinsTo(bs) ==
  /\ Len(FlattenSeq(bs)) = 7 * Len(bs)
  /\ \A i \in 1 .. Len(bs), k \in 1 .. 7 : FlattenSeq(bs)[7 * (i - 1) + k] = bs[i][k]

LEMMA SevensJoin == ASSUME NEW E, NEW bs \in Seq(Seven(E)) PROVE JoinsTo(bs)
<1> DEFINE T == {t \in Seq(Seven(E)) : JoinsTo(t)}
<1>1. <<>> \in T
  BY FlatEmpty DEF JoinsTo
<1>2. ASSUME NEW t \in Seq(Seven(E)), NEW b \in Seven(E), t \in T PROVE Append(t, b) \in T
  <2> DEFINE u == Append(t, b)
             f == FlattenSeq(t)
             g == FlattenSeq(u)
             n == Len(t)
  <2>1. t \in Seq(Seq(E)) /\ b \in Seq(E) /\ Len(b) = 7
    BY DEF Seven
  <2>2. g = f \o b /\ f \in Seq(E)
    BY <2>1, FlatAppend, Flattened
  <2>3. n \in Nat /\ Len(u) = n + 1 /\ u[n + 1] = b /\ \A i \in 1 .. n : u[i] = t[i]
    OBVIOUS
  <2>4. Len(f) = 7 * n /\ \A i \in 1 .. n, k \in 1 .. 7 : f[7 * (i - 1) + k] = t[i][k]
    BY <1>2 DEF JoinsTo
  <2>5. u \in Seq(Seven(E))
    OBVIOUS
  <2> HIDE DEF u, f, g, n
  <2>6. /\ Len(g) = 7 * n + 7 /\ \A k \in 1 .. 7 * n : g[k] = f[k]
        /\ \A k \in 1 .. 7 : g[7 * n + k] = b[k]
    <3>1. /\ Len(g) = Len(f) + Len(b) /\ Len(f) \in Nat
          /\ \A k \in 1 .. Len(f) : g[k] = f[k]
          /\ \A k \in 1 .. Len(b) : g[Len(f) + k] = b[k]
      <4>1. f \in Seq(E) /\ b \in Seq(E)
        BY <2>1, <2>2
      <4>2. /\ Len(f \o b) = Len(f) + Len(b) /\ Len(f) \in Nat
            /\ \A k \in 1 .. Len(f) : (f \o b)[k] = f[k]
            /\ \A k \in 1 .. Len(b) : (f \o b)[Len(f) + k] = b[k]
        BY ONLY <4>1, Joint
      <4> QED BY ONLY <2>2, <4>2
    <3> QED BY <2>1, <2>4, <3>1
  <2>7. ASSUME NEW i \in 1 .. n + 1, NEW k \in 1 .. 7 PROVE g[7 * (i - 1) + k] = u[i][k]
    <3>1. CASE i <= n
      <4>1. i \in 1 .. n /\ 7 * (i - 1) + k \in 1 .. 7 * n
        BY <2>3, <3>1
      <4>2. g[7 * (i - 1) + k] = f[7 * (i - 1) + k]
        BY ONLY <2>6, <4>1
      <4>3. f[7 * (i - 1) + k] = t[i][k]
        BY ONLY <2>4, <4>1, k \in 1 .. 7
      <4>4. t[i] = u[i]
        BY ONLY <2>3, <4>1
      <4> QED BY ONLY <4>2, <4>3, <4>4
    <3>2. CASE i = n + 1
      <4>1. 7 * (i - 1) + k = 7 * n + k
        BY <2>3, <3>2
      <4> QED BY <2>3, <2>6, <3>2, <4>1
    <3> QED BY <2>3, <3>1, <3>2
  <2>8. JoinsTo(u)
    BY <2>3, <2>6, <2>7 DEF JoinsTo, g
  <2> QED BY <2>5, <2>8 DEF u
<1> HIDE DEF T
<1>3. bs \in T
  BY <1>1, <1>2, SeqInduct
<1> QED BY <1>3 DEF T

LEMMA ShortsJoin ==
  ASSUME NEW E, NEW bs \in Seq(Short(E)) PROVE Len(FlattenSeq(bs)) <= 7 * Len(bs)
<1> DEFINE T == {t \in Seq(Short(E)) : Len(FlattenSeq(t)) <= 7 * Len(t)}
<1>1. <<>> \in T
  BY FlatEmpty
<1>2. ASSUME NEW t \in Seq(Short(E)), NEW b \in Short(E), t \in T PROVE Append(t, b) \in T
  <2>1. t \in Seq(Seq(E)) /\ b \in Seq(E) /\ Len(b) <= 7
    BY DEF Short
  <2>2. FlattenSeq(Append(t, b)) = FlattenSeq(t) \o b /\ FlattenSeq(t) \in Seq(E)
    BY <2>1, FlatAppend, Flattened
  <2>3. Len(FlattenSeq(t)) <= 7 * Len(t)
    BY <1>2
  <2>4. Len(FlattenSeq(Append(t, b))) = Len(FlattenSeq(t)) + Len(b)
    BY <2>1, <2>2
  <2>5. Append(t, b) \in Seq(Short(E)) /\ Len(Append(t, b)) = Len(t) + 1 /\ Len(t) \in Nat
    OBVIOUS
  <2>6. Len(FlattenSeq(t)) \in Nat /\ Len(b) \in Nat
    BY <2>1, <2>2
  <2>7. Len(FlattenSeq(Append(t, b))) <= 7 * Len(Append(t, b))
    BY <2>1, <2>3, <2>4, <2>5, <2>6
  <2> QED BY <2>5, <2>7
<1> HIDE DEF T
<1>3. bs \in T
  BY <1>1, <1>2, SeqInduct
<1> QED BY <1>3 DEF T

LEMMA FirstJoins ==
  ASSUME NEW E, NEW f \in Seq(E), NEW bs \in Seq(Seq(E))
  PROVE  FlattenSeq(<<f>> \o bs) = f \o FlattenSeq(bs)
<1>1. <<>> \in Seq(Seq(E)) /\ Append(<<>>, f) = <<f>> /\ <<f>> \in Seq(Seq(E))
  OBVIOUS
<1>2. FlattenSeq(Append(<<>>, f)) = FlattenSeq(<<>>) \o f
  BY <1>1, FlatAppend
<1>3. FlattenSeq(<<f>>) = <<>> \o f
  BY <1>1, <1>2, FlatEmpty, Zenon
<1>4. <<>> \o f = f
  OBVIOUS
<1>5. FlattenSeq(<<f>> \o bs) = FlattenSeq(<<f>>) \o FlattenSeq(bs)
  BY <1>1, FlatConcat
<1> QED BY <1>3, <1>4, <1>5, Zenon

(* The frames of a payload: the first carries six bytes of it, the i-th    *)
(* after that the next seven, the last one padded.                         *)
Bare == Byte(car.pads, <<>>)
First(payload) == [pci |-> "first", total |-> Len(payload), bytes |-> SubSeq(payload, 1, 6)]

Carries(line, payload, i, E) ==
  /\ line.pci = "next" /\ line.bytes \in Seven(E)
  /\ \A k \in 1 .. 7 : 7 * i - 1 + k <= Len(payload) => line.bytes[k] = payload[7 * i - 1 + k]

LEMMA PadIs ==
  ASSUME NEW E, Bare \in E, NEW b \in Seq(E)
  PROVE  PadTo(7, b) \in Seven(E) /\ \A k \in 1 .. 7 : k <= Len(b) => PadTo(7, b)[k] = b[k]
<1>1. \A k \in 1 .. 7 : PadTo(7, b)[k] = IF k <= Len(b) THEN b[k] ELSE Bare
  BY DEF PadTo, Bare
<1>2. \A k \in 1 .. 7 : k <= Len(b) => b[k] \in E
  OBVIOUS
<1>3. PadTo(7, b) = [k \in 1 .. 7 |-> PadTo(7, b)[k]]
  BY DEF PadTo
<1>4. \A k \in 1 .. 7 : PadTo(7, b)[k] \in E
  BY <1>1, <1>2
<1>5. PadTo(7, b) \in [1 .. 7 -> E]
  BY <1>3, <1>4
<1>6. PadTo(7, b) \in Seq(E) /\ Len(PadTo(7, b)) = 7
  <2>1. 7 \in Nat
    OBVIOUS
  <2> QED BY <1>5, <2>1, Function
<1> QED BY <1>1, <1>6 DEF Seven

LEMMA SingleFrame ==
  ASSUME NEW E, Bare \in E, NEW payload \in Seq(E), payload # <<>>, Len(payload) <= 7
  PROVE  /\ Frames(payload) = <<[pci |-> "single", total |-> Len(payload),
                                 bytes |-> PadTo(7, payload)]>>
         /\ StripPci(Frames(payload)[1]) = payload
<1> DEFINE line == [pci |-> "single", total |-> Len(payload), bytes |-> PadTo(7, payload)]
<1>1. Frames(payload) = <<line>>
  BY DEF Frames
<1>2. /\ PadTo(7, payload) \in Seq(E) /\ Len(PadTo(7, payload)) = 7
      /\ \A k \in 1 .. 7 : k <= Len(payload) => PadTo(7, payload)[k] = payload[k]
  BY PadIs DEF Seven
<1>3. Len(payload) \in Nat
  OBVIOUS
<1>4. UpTo(Len(payload), PadTo(7, payload)) = SubSeq(PadTo(7, payload), 1, Len(payload))
  BY <1>2, <1>3, UpToIs
<1>5. SubSeq(PadTo(7, payload), 1, Len(payload)) = payload
  BY <1>2, <1>3
<1>6. StripPci(line) = UpTo(Len(payload), PadTo(7, payload))
  BY DEF StripPci
<1> QED BY <1>1, <1>4, <1>5, <1>6

LEMMA FurtherFrames ==
  ASSUME NEW E, Bare \in E, NEW payload \in Seq(E), Len(payload) > 7
  PROVE  \E rest : /\ Frames(payload) = <<First(payload)>> \o rest
                   /\ rest \in Seq([pci : {"next"}, total : {0}, bytes : Seven(E)])
                   /\ 6 + 7 * Len(rest) >= Len(payload) /\ 6 + 7 * (Len(rest) - 1) < Len(payload)
                   /\ \A i \in 1 .. Len(rest) : Carries(rest[i], payload, i, E)
<1> DEFINE L == Len(payload)
           tail == SubSeq(payload, 7, L)
           n == (Len(tail) + 7 - 1) \div 7
           pieces == Pieces(tail, 7)
           rest == [i \in DOMAIN pieces |->
                      [pci |-> "next", total |-> 0, bytes |-> PadTo(7, pieces[i])]]
<1>1. L \in Nat /\ L > 7 /\ tail \in Seq(E) /\ Len(tail) = L - 6
      /\ \A k \in 1 .. L - 6 : tail[k] = payload[6 + k]
  OBVIOUS
<1>2. Frames(payload) = <<First(payload)>> \o rest
  <2>1. payload # <<>> /\ ~(Len(payload) <= 7)
    BY <1>1
  <2> QED BY <2>1 DEF Frames, First
<1>3. pieces = [i \in 1 .. n |-> SubSeq(tail, (i - 1) * 7 + 1, Min({i * 7, Len(tail)}))]
  BY DEF Pieces
<1> HIDE DEF L, tail, pieces
<1>4. n \in Nat /\ 7 * n >= L - 6 /\ 7 * (n - 1) < L - 6
  BY <1>1
<1>5. ASSUME NEW i \in 1 .. n
      PROVE  /\ pieces[i] \in Seq(E)
             /\ \A k \in 1 .. 7 : 7 * i - 1 + k <= L =>
                  k <= Len(pieces[i]) /\ pieces[i][k] = payload[7 * i - 1 + k]
  <2> DEFINE a == (i - 1) * 7 + 1
             b == Min({i * 7, Len(tail)})
  <2>0. i \in Nat /\ i >= 1 /\ a \in Nat /\ a >= 1 /\ n \in Nat
    BY <1>4
  <2>1. b = IF i * 7 <= L - 6 THEN i * 7 ELSE L - 6
    BY <1>1, <2>0, MinTwo
  <2>2. pieces[i] = SubSeq(tail, a, b)
    BY <1>3
  <2>3. i * 7 <= n * 7
    BY <1>4
  <2>4. b \in Nat /\ b <= L - 6
    BY <1>1, <2>0, <2>1
  <2> HIDE DEF b, n
  <2>5. /\ pieces[i] \in Seq(E)
        /\ \A k \in 1 .. 7 : a + k - 1 <= b =>
             k <= Len(pieces[i]) /\ pieces[i][k] = tail[a + k - 1]
    BY <1>1, <2>0, <2>2, <2>4
  <2>6. ASSUME NEW k \in 1 .. 7, 7 * i - 1 + k <= L
        PROVE  k <= Len(pieces[i]) /\ pieces[i][k] = payload[7 * i - 1 + k]
    <3>1. a + k - 1 = 7 * i - 7 + k /\ 7 * i - 7 + k <= L - 6 /\ 7 * i - 7 + k <= i * 7
      BY <1>1, <2>0, <2>6
    <3>2. a + k - 1 <= b /\ a + k - 1 \in 1 .. L - 6
      BY <1>1, <2>0, <2>1, <3>1
    <3>3. tail[a + k - 1] = payload[6 + (a + k - 1)]
      BY <1>1, <3>2
    <3>4. 6 + (a + k - 1) = 7 * i - 1 + k
      BY <2>0
    <3> QED BY <2>5, <3>2, <3>3, <3>4
  <2> QED BY <2>5, <2>6
<1>6. DOMAIN pieces = 1 .. n /\ DOMAIN rest = 1 .. n
  BY <1>3
<1>7. ASSUME NEW i \in 1 .. n
      PROVE  /\ rest[i] \in [pci : {"next"}, total : {0}, bytes : Seven(E)]
             /\ Carries(rest[i], payload, i, E)
  <2>1. rest[i] = [pci |-> "next", total |-> 0, bytes |-> PadTo(7, pieces[i])]
    BY <1>6
  <2>2. /\ PadTo(7, pieces[i]) \in Seven(E)
        /\ \A k \in 1 .. 7 : k <= Len(pieces[i]) => PadTo(7, pieces[i])[k] = pieces[i][k]
    BY <1>5, PadIs
  <2>3. \A k \in 1 .. 7 : 7 * i - 1 + k <= L =>
          PadTo(7, pieces[i])[k] = payload[7 * i - 1 + k]
    BY <1>5, <2>2
  <2>4. PICK b : b = PadTo(7, pieces[i])
    OBVIOUS
  <2>5. rest[i] = [pci |-> "next", total |-> 0, bytes |-> b] /\ b \in Seven(E)
    BY <2>1, <2>2, <2>4
  <2>6. rest[i].bytes = b /\ rest[i].pci = "next"
    BY <2>5
  <2>7. rest[i] \in [pci : {"next"}, total : {0}, bytes : Seven(E)]
    BY <2>5
  <2>8. Carries(rest[i], payload, i, E)
    BY <2>3, <2>4, <2>5, <2>6 DEF Carries, L
  <2> QED BY <2>7, <2>8
<1>8. rest \in Seq([pci : {"next"}, total : {0}, bytes : Seven(E)]) /\ Len(rest) = n
  <2>1. rest = [i \in 1 .. n |-> rest[i]]
    BY <1>6
  <2>2. \A i \in 1 .. n : rest[i] \in [pci : {"next"}, total : {0}, bytes : Seven(E)]
    BY <1>7
  <2> HIDE DEF rest, n
  <2>3. rest \in [1 .. n -> [pci : {"next"}, total : {0}, bytes : Seven(E)]]
    BY <2>1, <2>2
  <2> QED BY <1>4, <2>3, Function
<1> HIDE DEF rest, n
<1>9. 6 + 7 * n >= Len(payload) /\ 6 + 7 * (n - 1) < Len(payload)
  BY <1>1, <1>4 DEF L
<1> QED BY <1>2, <1>7, <1>8, <1>9

-----------------------------------------------------------------------------
(* What is reassembled from some of the frames of a payload: nothing, the  *)
(* payload, or a frame that is taken for data with its PCI byte in front.  *)
Received(all, S) ==
  LET kept == Only(Positions(Len(all)), S) IN [i \in DOMAIN kept |-> all[kept[i]]]

Garbled(bytes) == bytes # <<>> /\ bytes[1].as = "pci" /\ \E E : bytes \in Seq(E)

LEMMA Garbles ==
  ASSUME NEW E, NEW line, line.bytes \in Seq(E), line.pci # "single"
  PROVE  Garbled(StripPci(line))
<1> DEFINE b == Byte("pci", <<>>)
<1>1. StripPci(line) = <<b>> \o line.bytes
  BY DEF StripPci
<1>2. b.as = "pci"
  BY DEF Byte
<1>3. line.bytes \in Seq(E \cup {b}) /\ <<b>> \in Seq(E \cup {b})
  OBVIOUS
<1> HIDE DEF b
<1>4. PICK t : t = line.bytes
  OBVIOUS
<1>5. <<b>> \o t # <<>> /\ (<<b>> \o t)[1] = b /\ <<b>> \o t \in Seq(E \cup {b})
  BY <1>3, <1>4
<1> QED BY <1>1, <1>2, <1>4, <1>5 DEF Garbled

LEMMA ReceivedOne ==
  ASSUME NEW E, Bare \in E, NEW payload \in Seq(E), payload # <<>>, Len(payload) <= 7, NEW S,
         Received(Frames(payload), S) # <<>>
  PROVE  Assembled(Received(Frames(payload), S)) = payload
<1> DEFINE F == Frames(payload)
           kept == Only(Positions(Len(F)), S)
           lines == Received(F, S)
<1>1. Len(F) = 1 /\ StripPci(F[1]) = payload
  BY SingleFrame
<1> HIDE DEF F
<1>2. KeptOf(1, S)
  BY KeptPositions
<1>3. kept \in Seq((1 .. 1) \cap S) /\ Len(kept) <= 1
  BY <1>1, <1>2 DEF KeptOf
<1>4. lines = [i \in DOMAIN kept |-> F[kept[i]]]
  BY DEF Received
<1> HIDE DEF kept
<1>5. kept # <<>>
  BY <1>4 DEF F
<1>6. Len(kept) = 1 /\ kept[1] = 1 /\ DOMAIN kept = 1 .. 1
  <2>1. Len(kept) \in Nat /\ Len(kept) # 0 /\ DOMAIN kept = 1 .. Len(kept)
    BY <1>3, <1>5
  <2>2. Len(kept) = 1
    BY <1>3, <2>1
  <2>3. kept \in Seq((1 .. 1) \cap S) /\ 1 \in 1 .. Len(kept)
    BY ONLY <1>3, <2>2
  <2>4. kept[1] \in (1 .. 1) \cap S
    BY ONLY <2>3, ElementOfSeq
  <2> QED BY <2>1, <2>2, <2>4
<1>7. Len(lines) = 1 /\ lines[1] = F[1]
  BY <1>4, <1>6
<1> HIDE DEF lines
<1>8. ~(Len(lines) > 1)
  BY <1>7
<1>9. Assembled(lines) = StripPci(lines[1])
  BY <1>8 DEF Assembled
<1> QED BY <1>1, <1>7, <1>9 DEF lines, F

(* All the frames of a longer payload.                                     *)
LEMMA AllJoin ==
  ASSUME NEW E, NEW payload \in Seq(E), Len(payload) > 7, NEW bs \in Seq(Seven(E)),
         6 + 7 * Len(bs) >= Len(payload),
         \A i \in 1 .. Len(bs), k \in 1 .. 7 :
           7 * i - 1 + k <= Len(payload) => bs[i][k] = payload[7 * i - 1 + k],
         NEW joined, joined = FlattenSeq(<<SubSeq(payload, 1, 6)>> \o bs)
  PROVE  /\ joined \in Seq(E) /\ Len(joined) >= Len(payload)
         /\ SubSeq(joined, 1, Len(payload)) = payload
<1> DEFINE L == Len(payload)
           f == SubSeq(payload, 1, 6)
           t == FlattenSeq(bs)
<1>1. L \in Nat /\ f \in Seq(E) /\ Len(f) = 6 /\ \A k \in 1 .. 6 : f[k] = payload[k]
  OBVIOUS
<1>2. bs \in Seq(Seq(E))
  BY DEF Seven
<1>3. joined = f \o t /\ t \in Seq(E)
  BY <1>1, <1>2, FirstJoins, Flattened
<1>4. /\ Len(t) = 7 * Len(bs)
      /\ \A i \in 1 .. Len(bs), k \in 1 .. 7 : t[7 * (i - 1) + k] = bs[i][k]
  BY SevensJoin DEF JoinsTo
<1> HIDE DEF L, f, t
<1>5. /\ joined \in Seq(E) /\ Len(joined) = 6 + Len(t) /\ \A k \in 1 .. 6 : joined[k] = f[k]
      /\ \A k \in 1 .. Len(t) : joined[6 + k] = t[k]
  <2>1. /\ f \o t \in Seq(E) /\ Len(f \o t) = Len(f) + Len(t)
        /\ \A k \in 1 .. Len(f) : (f \o t)[k] = f[k]
        /\ \A k \in 1 .. Len(t) : (f \o t)[Len(f) + k] = t[k]
    <3>1. f \in Seq(E) /\ t \in Seq(E)
      BY <1>1, <1>3
    <3> QED BY ONLY <3>1, Joint
  <2> QED BY ONLY <1>1, <1>3, <2>1
<1>6. Len(bs) \in Nat
  OBVIOUS
<1>7. Len(joined) >= L
  BY <1>4, <1>5, <1>6 DEF L
<1>8. ASSUME NEW k \in 1 .. L PROVE joined[k] = payload[k]
  <2>1. CASE k <= 6
    <3>1. k \in 1 .. 6
      BY ONLY <1>1, <2>1, k \in 1 .. L
    <3>2. joined[k] = f[k] /\ f[k] = payload[k]
      BY ONLY <1>1, <1>5, <3>1
    <3> QED BY ONLY <3>2
  <2>2. CASE k > 6
    <3> DEFINE i == (k - 7) \div 7 + 1
               r == ((k - 7) % 7) + 1
    <3>1. i \in Nat /\ i >= 1 /\ r \in 1 .. 7 /\ 7 * i - 1 + r = k
      <4>1. k - 7 \in Nat
        BY <1>1, <2>2
      <4> QED BY ONLY <4>1
    <3> HIDE DEF i, r
    <3>2. i <= Len(bs)
      BY <1>1, <1>6, <3>1 DEF L
    <3>3. i \in 1 .. Len(bs) /\ 7 * (i - 1) + r = k - 6 /\ k - 6 \in 1 .. Len(t)
      <4>1. k \in Nat /\ k > 6 /\ Len(t) = 7 * Len(bs)
        BY <1>1, <1>4, <2>2
      <4> QED BY ONLY <1>6, <3>1, <3>2, <4>1
    <3>4. bs[i][r] = payload[k]
      <4>1. 7 * i - 1 + r <= Len(payload)
        BY <1>1, <3>1 DEF L
      <4>2. bs[i][r] = payload[7 * i - 1 + r]
        BY <3>1, <3>3, <4>1
      <4> QED BY <3>1, <4>2
    <3>5. t[k - 6] = bs[i][r]
      BY <1>4, <3>1, <3>3
    <3>6. joined[6 + (k - 6)] = t[k - 6]
      BY <1>5, <3>3
    <3>7. 6 + (k - 6) = k
      BY <1>1
    <3> QED BY <3>4, <3>5, <3>6, <3>7
  <2> QED BY <1>1, <2>1, <2>2
<1>9. SubSeq(joined, 1, L) \in Seq(E) /\ Len(SubSeq(joined, 1, L)) = L
      /\ \A k \in 1 .. L : SubSeq(joined, 1, L)[k] = joined[k]
  <2>1. L \in Int /\ 1 \in Int /\ \A i \in 1 .. L : joined[i] \in E
    BY <1>1, <1>5, <1>7
  <2>2. /\ SubSeq(joined, 1, L) \in Seq(E)
        /\ Len(SubSeq(joined, 1, L)) = IF 1 <= L THEN L - 1 + 1 ELSE 0
        /\ \A i \in 1 .. L - 1 + 1 : SubSeq(joined, 1, L)[i] = joined[1 + i - 1]
    BY ONLY <2>1, SubSeqProperties
  <2>3. L - 1 + 1 = L /\ \A i \in 1 .. L : 1 + i - 1 = i
    BY ONLY <2>1
  <2>4. L >= 1
    BY <1>1 DEF L
  <2> QED BY ONLY <2>2, <2>3, <2>4
<1>10. SubSeq(joined, 1, L) = payload
  <2>1. PICK u : u = SubSeq(joined, 1, L)
    OBVIOUS
  <2>2. u \in Seq(E) /\ Len(u) = Len(payload) /\ \A k \in 1 .. Len(payload) : u[k] = payload[k]
    BY <1>8, <1>9, <2>1 DEF L
  <2>3. u = payload
    BY <2>2
  <2> QED BY <2>1, <2>3
<1> QED BY <1>5, <1>7, <1>10 DEF L

LEMMA ReceivedMany ==
  ASSUME NEW E, Bare \in E, NEW payload \in Seq(E), Len(payload) > 7, NEW S,
         Received(Frames(payload), S) # <<>>
  PROVE  \/ Assembled(Received(Frames(payload), S)) \in {<<>>, payload}
         \/ Garbled(Assembled(Received(Frames(payload), S)))
<1> DEFINE F == Frames(payload)
           n == Len(F)
           kept == Only(Positions(n), S)
           lines == Received(F, S)
           L == Len(payload)
           f == SubSeq(payload, 1, 6)
<1>1. PICK rest : /\ F = <<First(payload)>> \o rest
                  /\ rest \in Seq([pci : {"next"}, total : {0}, bytes : Seven(E)])
                  /\ 6 + 7 * Len(rest) >= L /\ 6 + 7 * (Len(rest) - 1) < L
                  /\ \A i \in 1 .. Len(rest) : Carries(rest[i], payload, i, E)
  BY FurtherFrames
<1>2. L \in Nat /\ f \in Seq(E) /\ Len(f) = 6 /\ Len(rest) \in Nat
  BY <1>1
<1>3. /\ n = 1 + Len(rest) /\ n \in Nat /\ F[1] = First(payload)
      /\ \A i \in 1 .. Len(rest) : F[1 + i] = rest[i]
  <2>1. PICK R : rest \in Seq(R) /\ First(payload) \in R
    <3> DEFINE R == [pci : {"next"}, total : {0}, bytes : Seven(E)] \cup {First(payload)}
    <3>1. \A x \in [pci : {"next"}, total : {0}, bytes : Seven(E)] : x \in R
      OBVIOUS
    <3>2. First(payload) \in R
      OBVIOUS
    <3> HIDE DEF R
    <3>3. rest \in Seq(R)
      BY <1>1, <3>1, Wider
    <3> QED BY <3>2, <3>3
  <2>2. PICK x : x = First(payload)
    OBVIOUS
  <2>3. /\ Len(<<x>> \o rest) = 1 + Len(rest) /\ Len(rest) \in Nat
        /\ (<<x>> \o rest)[1] = x /\ \A i \in 1 .. Len(rest) : (<<x>> \o rest)[1 + i] = rest[i]
    BY <2>1, <2>2, Prefixed
  <2>4. F = <<x>> \o rest
    BY <1>1, <2>2
  <2> HIDE DEF F
  <2>5. n = 1 + Len(rest) /\ n \in Nat
    BY <2>3, <2>4
  <2> QED BY <2>2, <2>3, <2>4, <2>5
<1> HIDE DEF F, n, L, f
<1>4. /\ First(payload).pci = "first" /\ First(payload).total = L /\ First(payload).bytes = f
  BY DEF First, L, f
<1>5. ASSUME NEW i \in 1 .. n
      PROVE  /\ F[i].bytes \in Short(E) /\ F[i].pci # "single"
             /\ F[i].pci = "first" => i = 1
             /\ i # 1 => F[i] = rest[i - 1] /\ F[i].bytes \in Seven(E)
  <2>1. CASE i = 1
    <3>1. F[i].bytes = f /\ F[i].pci = "first"
      BY <1>3, <1>4, <2>1
    <3>2. f \in Short(E)
      <4>1. f \in Seq(E) /\ Len(f) <= 7
        BY <1>2
      <4> QED BY <4>1, ShortOnes
    <3> QED BY <2>1, <3>1, <3>2
  <2>2. CASE i # 1
    <3>1. i - 1 \in 1 .. Len(rest) /\ 1 + (i - 1) = i
      BY <1>2, <1>3, <2>2
    <3>2. F[i] = rest[i - 1]
      BY <1>3, <3>1
    <3>3. F[i].pci = "next" /\ F[i].bytes \in Seven(E)
      BY <1>1, <3>1, <3>2 DEF Carries
    <3>4. F[i].bytes \in Short(E)
      BY <3>3, ShortOnes
    <3> QED BY <2>2, <3>2, <3>3, <3>4
  <2> QED BY <2>1, <2>2
<1>6. /\ kept \in Seq((1 .. n) \cap S) /\ Len(kept) <= n /\ (Len(kept) = n => kept = Positions(n))
      /\ n >= 1 /\ 1 \in S => kept # <<>> /\ kept[1] = 1
  <2>1. KeptOf(n, S)
    BY <1>3, KeptPositions
  <2> QED BY <2>1 DEF KeptOf
<1>7. lines = [i \in DOMAIN kept |-> F[kept[i]]] /\ lines # <<>>
  BY DEF Received, F, n
<1> HIDE DEF kept, lines
<1>8. /\ DOMAIN kept = 1 .. Len(kept) /\ Len(kept) \in Nat /\ Len(lines) = Len(kept)
      /\ DOMAIN lines = 1 .. Len(lines) /\ \A i \in 1 .. Len(lines) : lines[i] = F[kept[i]]
  BY <1>6, <1>7
<1>9. \A i \in 1 .. Len(lines) : kept[i] \in 1 .. n
  BY <1>6, <1>8
<1>10. Len(lines) >= 1
  BY <1>7, <1>8
<1>11. CASE ~(Len(lines) > 1 /\ lines[1].pci = "first")
  <2>1. Assembled(lines) = StripPci(lines[1])
    BY <1>11 DEF Assembled
  <2>2. lines[1].bytes \in Seq(E) /\ lines[1].pci # "single"
    BY <1>5, <1>8, <1>9, <1>10 DEF Short
  <2>3. Garbled(Assembled(lines))
    BY <2>1, <2>2, Garbles
  <2> QED BY <2>3 DEF lines, F
<1>12. CASE Len(lines) > 1 /\ lines[1].pci = "first"
  <2> DEFINE bs == [i \in DOMAIN lines |-> lines[i].bytes]
             bt == [i \in 1 .. Len(lines) - 1 |-> lines[i + 1].bytes]
             joined == FlattenSeq(bs)
  <2>1. Assembled(lines) = IF Len(joined) < lines[1].total THEN <<>>
                           ELSE UpTo(lines[1].total, joined)
    BY <1>12 DEF Assembled
  <2>2. kept[1] = 1 /\ lines[1] = First(payload) /\ lines[1].bytes = f
    BY <1>3, <1>4, <1>5, <1>8, <1>9, <1>10, <1>12
  <2>3. lines[1].total = L
    BY <1>4, <2>2
  <2>4. \A i \in 1 .. Len(lines) - 1 : i + 1 \in 1 .. Len(lines) /\ lines[i + 1].bytes \in Short(E)
    <3>1. ASSUME NEW i \in 1 .. Len(lines) - 1
          PROVE  i + 1 \in 1 .. Len(lines) /\ lines[i + 1].bytes \in Short(E)
      <4>1. i + 1 \in 1 .. Len(lines)
        BY ONLY <1>8, i \in 1 .. Len(lines) - 1
      <4>2. lines[i + 1] = F[kept[i + 1]] /\ kept[i + 1] \in 1 .. n
        BY ONLY <1>8, <1>9, <4>1
      <4> QED BY <1>5, <4>1, <4>2
    <3> QED BY ONLY <3>1
  <2>5. bt \in Seq(Short(E)) /\ Len(bt) = Len(lines) - 1
    <3>1. Len(lines) - 1 \in Nat /\ bt \in [1 .. Len(lines) - 1 -> Short(E)]
      BY <1>8, <1>12, <2>4
    <3> HIDE DEF bt
    <3> QED BY <3>1, Function
  <2>6. bt \in Seq(Seq(E))
    BY <2>5 DEF Short
  <2>7. bs = <<f>> \o bt
    <3>1. bs \in Seq(Seq(E)) /\ Len(bs) = Len(lines)
      <4>1. \A i \in DOMAIN lines : lines[i].bytes \in Seq(E)
        BY <1>5, <1>8, <1>9 DEF Short
      <4>2. bs \in [1 .. Len(lines) -> Seq(E)] /\ Len(lines) \in Nat
        BY <1>8, <4>1
      <4> HIDE DEF bs
      <4> QED BY <4>2, Function
    <3>3. /\ <<f>> \o bt \in Seq(Seq(E)) /\ Len(<<f>> \o bt) = 1 + Len(bt)
          /\ (<<f>> \o bt)[1] = f
          /\ \A i \in 1 .. Len(bt) : (<<f>> \o bt)[1 + i] = bt[i]
      <4> HIDE DEF bt
      <4>1. f \in Seq(E)
        BY <1>2
      <4>2. \A x \in Seq(E), b \in Seq(Seq(E)) :
              /\ <<x>> \o b \in Seq(Seq(E)) /\ Len(<<x>> \o b) = 1 + Len(b)
              /\ (<<x>> \o b)[1] = x
              /\ \A i \in 1 .. Len(b) : (<<x>> \o b)[1 + i] = b[i]
        BY ONLY Prefixed
      <4> QED BY ONLY <4>1, <2>6, <4>2
    <3>4. \A i \in 1 .. Len(lines) : bs[i] = (<<f>> \o bt)[i]
      <4> SUFFICES ASSUME NEW i \in 1 .. Len(lines) PROVE bs[i] = (<<f>> \o bt)[i]
        OBVIOUS
      <4>1. CASE i = 1
        BY <1>8, <2>2, <3>3, <4>1
      <4>2. CASE i # 1
        <5>1. i - 1 \in 1 .. Len(bt) /\ 1 + (i - 1) = i /\ (i - 1) + 1 = i
          BY <1>8, <2>5, <4>2
        <5>2. bt[i - 1] = lines[i].bytes /\ bs[i] = lines[i].bytes
          BY <1>8, <2>5, <5>1
        <5> QED BY <3>3, <5>1, <5>2
      <4> QED BY <4>1, <4>2
    <3> HIDE DEF bs, bt
    <3>5. Len(<<f>> \o bt) = Len(lines)
      <4>1. Len(lines) \in Nat /\ Len(bt) = Len(lines) - 1 /\ Len(<<f>> \o bt) = 1 + Len(bt)
        BY <1>8, <2>5, <3>3
      <4>2. PICK m : m = Len(<<f>> \o bt)
        OBVIOUS
      <4>3. m = Len(lines)
        BY ONLY <4>1, <4>2
      <4> QED BY <4>2, <4>3
    <3>6. Len(bs) = Len(<<f>> \o bt) /\ \A i \in 1 .. Len(bs) : bs[i] = (<<f>> \o bt)[i]
      BY ONLY <3>1, <3>4, <3>5
    <3> QED BY ONLY <3>1, <3>3, <3>6, Equal
  <2>8. joined = f \o FlattenSeq(bt) /\ FlattenSeq(bt) \in Seq(E)
    BY <1>2, <2>6, <2>7, FirstJoins, Flattened
  <2>9. Len(FlattenSeq(bt)) <= 7 * Len(bt)
    BY <2>5, ShortsJoin
  <2> HIDE DEF bs, bt, joined
  <2>10. Len(joined) = 6 + Len(FlattenSeq(bt)) /\ Len(FlattenSeq(bt)) \in Nat
    <3>1. PICK t : t = FlattenSeq(bt)
      OBVIOUS
    <3>2. t \in Seq(E) /\ f \in Seq(E) /\ joined = f \o t
      BY <1>2, <2>8, <3>1
    <3>3. Len(f \o t) = Len(f) + Len(t) /\ Len(t) \in Nat
      BY ONLY <3>2, Joint
    <3> QED BY <1>2, <3>1, <3>2, <3>3
  <2>11. CASE Len(kept) # n
    <3>1. Len(joined) < L
      <4>1. Len(bt) <= Len(rest) - 1 /\ Len(bt) \in Int
        <5>1. Len(kept) <= n /\ n = 1 + Len(rest) /\ Len(lines) = Len(kept)
          BY <1>3, <1>6, <1>8
        <5>2. Len(bt) = Len(kept) - 1 /\ Len(kept) \in Nat
          BY <1>8, <2>5
        <5> QED BY ONLY <1>2, <2>11, <5>1, <5>2
      <4> QED BY <1>1, <1>2, <2>9, <2>10, <4>1
    <3>2. Assembled(lines) = <<>>
      BY <2>1, <2>3, <3>1
    <3> QED BY <3>2 DEF lines, F
  <2>12. CASE Len(kept) = n
    <3>1. \A i \in 1 .. n : kept[i] = i
      BY <1>6, <2>12 DEF Positions
    <3>2. Len(bt) = Len(rest)
      BY <1>2, <1>3, <1>8, <2>5, <2>12
    <3>3. ASSUME NEW i \in 1 .. Len(rest) PROVE bt[i] = rest[i].bytes
      <4>1. i + 1 \in 1 .. n /\ i \in 1 .. Len(lines) - 1 /\ i + 1 \in 1 .. Len(lines)
            /\ (i + 1) - 1 = i /\ i + 1 # 1
        BY <1>2, <1>3, <1>8, <2>12
      <4>2. lines[i + 1] = F[i + 1]
        BY <1>8, <3>1, <4>1
      <4>3. F[i + 1] = rest[i]
        BY <1>5, <4>1
      <4> QED BY <4>1, <4>2, <4>3 DEF bt
    <3>4. bt \in Seq(Seven(E))
      <4>1. \A i \in 1 .. Len(rest) : bt[i] \in Seven(E)
        BY <1>1, <3>3 DEF Carries
      <4>2. bt = [i \in 1 .. Len(rest) |-> bt[i]]
        BY <2>5, <3>2
      <4>3. bt \in [1 .. Len(rest) -> Seven(E)]
        BY <4>1, <4>2
      <4> QED BY <1>2, <4>3, Function
    <3>5. \A i \in 1 .. Len(bt), k \in 1 .. 7 :
            7 * i - 1 + k <= L => bt[i][k] = payload[7 * i - 1 + k]
      BY <1>1, <3>2, <3>3 DEF Carries, L
    <3>6. /\ joined \in Seq(E) /\ Len(joined) >= L /\ SubSeq(joined, 1, L) = payload
      <4>1. 6 + 7 * Len(bt) >= L
        BY <1>1, <3>2
      <4>2. joined = FlattenSeq(<<f>> \o bt)
        BY <2>7 DEF joined
      <4> QED BY <3>4, <3>5, <4>1, <4>2, AllJoin DEF L, f
    <3>7. UpTo(L, joined) = payload
      BY <1>2, <3>6, UpToIs
    <3>8. ~(Len(joined) < L)
      BY <1>2, <2>10, <3>6
    <3>9. Assembled(lines) = payload
      BY <2>1, <2>3, <3>7, <3>8
    <3> QED BY <3>9 DEF lines, F
  <2> QED BY <2>11, <2>12
<1> QED BY <1>11, <1>12

-----------------------------------------------------------------------------
(* Cutting up.  CutAt is what Slices does at one place of the bytes, given *)
(* what the places behind it come to.                                      *)
Adding(rest, p, data) ==
  IF \E g \in rest.got : g.pid = p THEN [ok |-> FALSE, got |-> {}]
  ELSE [rest EXCEPT !.got = @ \cup {[pid |-> p, data |-> data]}]

CutFor(from, bytes, start, end, p) ==
  IF end > Len(bytes) + 1 THEN [ok |-> FALSE, got |-> {}]
  ELSE Adding(from[end], p, SubSeq(bytes, start, end - 1))

CutOf(from, bytes, i, p) ==
  CutFor(from, bytes, i + Len(Echo(p)), i + Len(Echo(p)) + lengths[p], p)

CutAt(from, bytes, i, asked) ==
  LET here == {p \in asked : EchoAt(bytes, i, p)} IN
  IF i > Len(bytes) \/ bytes[i].as = "00" THEN [ok |-> TRUE, got |-> {}]
  ELSE IF here = {} THEN [ok |-> FALSE, got |-> {}]
  ELSE CutOf(from, bytes, i, CHOOSE q \in here : TRUE)

LEMMA CutAhead ==
  ASSUME lengths \in [Pids -> Nat], NEW bytes, Len(bytes) \in Nat, NEW asked \in SUBSET Pids,
         NEW i \in Nat, NEW f, NEW g, \A j \in i + 1 .. Len(bytes) + 1 : f[j] = g[j]
  PROVE  CutAt(f, bytes, i, asked) = CutAt(g, bytes, i, asked)
<1> DEFINE here == {q \in asked : EchoAt(bytes, i, q)}
           p == CHOOSE q \in here : TRUE
           end == i + Len(Echo(p)) + lengths[p]
<1>1. ASSUME here # {}, ~(end > Len(bytes) + 1) PROVE f[end] = g[end]
  <2>1. p \in Pids
    BY <1>1
  <2> HIDE DEF p
  <2>2. Len(Echo(p)) \in Nat /\ Len(Echo(p)) >= 1
    BY DEF Echo
  <2>3. lengths[p] \in Nat
    BY <2>1
  <2>4. end \in i + 1 .. Len(bytes) + 1
    BY <1>1, <2>2, <2>3
  <2> QED BY <2>4
<1>2. CASE here = {}
  BY <1>2 DEF CutAt
<1>3. CASE here # {} /\ end > Len(bytes) + 1
  <2>1. CutOf(f, bytes, i, p) = CutOf(g, bytes, i, p)
    BY <1>3 DEF CutOf, CutFor
  <2> QED BY <2>1 DEF CutAt
<1>4. CASE here # {} /\ ~(end > Len(bytes) + 1)
  <2>1. f[end] = g[end]
    BY <1>1, <1>4
  <2>2. CutOf(f, bytes, i, p) = CutOf(g, bytes, i, p)
    BY <2>1 DEF CutOf, CutFor
  <2> QED BY <2>2 DEF CutAt
<1> QED BY <1>2, <1>3, <1>4

LEMMA CutExists ==
  ASSUME lengths \in [Pids -> Nat], NEW bytes, Len(bytes) \in Nat, NEW asked \in SUBSET Pids
  PROVE  \E f : f = [i \in 2 .. Len(bytes) + 1 |-> CutAt(f, bytes, i, asked)]
<1> DEFINE L == Len(bytes)
           Cuts(f, n) == \A i \in L + 2 - n .. L + 1 : i \in Nat => f[i] = CutAt(f, bytes, i, asked)
           U == {n \in Nat : n <= L + 1 => \E f : Cuts(f, n)}
<1>1. 0 \in U
  <2>1. Cuts(<<>>, 0)
    OBVIOUS
  <2> QED BY <2>1
<1>2. ASSUME NEW n \in Nat, n \in U PROVE n + 1 \in U
  <2> SUFFICES ASSUME n + 1 <= L + 1 PROVE \E f : Cuts(f, n + 1)
    OBVIOUS
  <2>1. PICK f : Cuts(f, n)
    BY <1>2
  <2> DEFINE m == L + 1 - n
             g == [i \in 0 .. L + 1 |-> IF i = m THEN CutAt(f, bytes, m, asked) ELSE f[i]]
  <2>2. m \in Nat /\ m <= L + 1 /\ L \in Nat
    OBVIOUS
  <2>3. ASSUME NEW i \in m .. L + 1 PROVE g[i] = CutAt(g, bytes, i, asked)
    <3>1. i \in Nat /\ i >= m /\ i \in 0 .. L + 1
      BY <2>2
    <3>2. ASSUME NEW j \in i + 1 .. L + 1 PROVE f[j] = g[j]
      BY <2>2, <3>1
    <3>3. CutAt(f, bytes, i, asked) = CutAt(g, bytes, i, asked)
      <4>1. L \in Nat /\ \A j \in i + 1 .. L + 1 : f[j] = g[j]
        BY <2>2, <3>2
      <4> HIDE DEF m, g
      <4> QED BY <3>1, <4>1, CutAhead
    <3>4. i # m => f[i] = CutAt(f, bytes, i, asked)
      BY <2>1, <2>2, <3>1
    <3> QED BY <3>1, <3>3, <3>4
  <2>4. L + 2 - (n + 1) = m
    OBVIOUS
  <2> HIDE DEF m, g
  <2>5. Cuts(g, n + 1)
    BY <2>3, <2>4
  <2> QED BY <2>5
<1> HIDE DEF U
<1>3. \A n \in Nat : n \in U
  BY <1>1, <1>2, Induct
<1>4. PICK f : Cuts(f, L + 1)
  BY <1>3 DEF U
<1> DEFINE h == [i \in 2 .. L + 1 |-> f[i]]
<1>5. ASSUME NEW i \in 2 .. L + 1 PROVE h[i] = CutAt(h, bytes, i, asked)
  <2>1. i \in Nat /\ i \in L + 2 - (L + 1) .. L + 1
    OBVIOUS
  <2>2. \A j \in i + 1 .. L + 1 : f[j] = h[j]
    BY <2>1
  <2>3. CutAt(f, bytes, i, asked) = CutAt(h, bytes, i, asked)
    BY <2>1, <2>2, CutAhead
  <2> QED BY <1>4, <2>1, <2>3
<1>6. h = [i \in 2 .. L + 1 |-> CutAt(h, bytes, i, asked)]
  BY <1>5
<1> QED BY <1>6

(* What Slices comes to is read off a function that cuts at every place.   *)
Cutting(f, bytes, asked) ==
  \A i \in 2 .. Len(bytes) + 1 : f[i] = CutAt(f, bytes, i, asked)

LEMMA SlicesAre ==
  ASSUME lengths \in [Pids -> Nat], NEW bytes, Len(bytes) \in Nat, NEW asked \in SUBSET Pids
  PROVE  \E f : /\ Cutting(f, bytes, asked)
                /\ Slices(bytes, asked) \in {f[2], [ok |-> FALSE, got |-> {}]}
<1> DEFINE bad == [ok |-> FALSE, got |-> {}]
           Body(f) ==
             [i \in 2 .. Len(bytes) + 1 |->
                IF i > Len(bytes) THEN [ok |-> TRUE, got |-> {}]
                ELSE IF bytes[i].as = "00" THEN [ok |-> TRUE, got |-> {}]
                ELSE LET here == {p \in asked : EchoAt(bytes, i, p)} IN
                  IF here = {} THEN bad
                  ELSE LET p == CHOOSE q \in here : TRUE
                           start == i + Len(Echo(p))
                           end == start + lengths[p]
                       IN IF end > Len(bytes) + 1 THEN bad
                          ELSE LET rest == f[end] IN
                            IF \E g \in rest.got : g.pid = p THEN bad
                            ELSE [rest EXCEPT !.got =
                                    @ \cup {[pid |-> p, data |-> SubSeq(bytes, start, end - 1)]}]]
           from == CHOOSE f : f = Body(f)
<1>1. Slices(bytes, asked) =
        IF bytes[1].as # ReplyByte(CHOOSE p \in asked : TRUE).as THEN bad ELSE from[2]
  BY DEF Slices
<1>2. ASSUME NEW f PROVE Body(f) = [i \in 2 .. Len(bytes) + 1 |-> CutAt(f, bytes, i, asked)]
  <2>1. \A i : CutAt(f, bytes, i, asked) =
          LET here == {p \in asked : EchoAt(bytes, i, p)} IN
          IF i > Len(bytes) THEN [ok |-> TRUE, got |-> {}]
          ELSE IF bytes[i].as = "00" THEN [ok |-> TRUE, got |-> {}]
          ELSE IF here = {} THEN bad ELSE CutOf(f, bytes, i, CHOOSE p \in here : TRUE)
    BY DEF CutAt
  <2> QED BY <2>1 DEF CutOf, CutFor, Adding
<1> HIDE DEF Body
<1>3. PICK f : f = [i \in 2 .. Len(bytes) + 1 |-> CutAt(f, bytes, i, asked)]
  BY ONLY CutExists, lengths \in [Pids -> Nat], Len(bytes) \in Nat, asked \in SUBSET Pids
<1>4. f = Body(f)
  BY ONLY <1>2, <1>3
<1>5. from = Body(from)
  BY ONLY <1>4
<1>6. Cutting(from, bytes, asked)
  BY <1>2, <1>5 DEF Cutting
<1> QED BY <1>1, <1>6

-----------------------------------------------------------------------------
(* What a vehicle answers.                                                 *)
Octets == [as : Pids \cup {"41", "62", "F4", "7F", "pci", car.data, car.pads},
           of : {<<>>} \cup (Ecus \X Pids \X Nat)]
Rec(e, p) == Echo(p) \o DataOf(e, p)
Recs(e, s) == [i \in DOMAIN s |-> Rec(e, s[i])]
Skip(p) == IF p \in Mode01 THEN 1 ELSE 2

LEMMA EchoIs ==
  ASSUME NEW p \in Pids PROVE Echo(p) \in Seq(Octets) /\ Len(Echo(p)) = Skip(p)
<1>1. Byte(p, <<>>) \in Octets /\ Byte("F4", <<>>) \in Octets
  BY DEF Byte, Octets
<1> HIDE DEF Octets
<1>2. CASE p \in Mode01
  BY <1>1, <1>2 DEF Echo, Skip
<1>3. CASE p \notin Mode01
  BY <1>1, <1>3 DEF Echo, Skip
<1> QED BY <1>2, <1>3

LEMMA DataIs ==
  ASSUME NEW e \in Ecus, NEW p \in Pids
  PROVE  DataOf(e, p) \in Seq(Octets) /\ Len(DataOf(e, p)) = Width[p] /\ Width[p] \in Nat \ {0}
<1>1. Width[p] \in Nat \ {0}
  BY BatchAssumption
<1>2. \A k \in 1 .. Width[p] : Byte(car.data, <<e, p, k>>) \in Octets
  <2>1. \A k \in 1 .. Width[p] : k \in Nat
    BY <1>1
  <2> QED BY <2>1 DEF Byte, Octets
<1>3. DataOf(e, p) \in [1 .. Width[p] -> Octets]
  BY <1>2 DEF DataOf
<1> QED BY ONLY <1>1, <1>3, Function

LEMMA RecIs ==
  ASSUME NEW e \in Ecus, NEW p \in Pids
  PROVE  /\ Rec(e, p) \in Seq(Octets) /\ Len(Rec(e, p)) = Skip(p) + Width[p]
         /\ \A k \in 1 .. Skip(p) : Rec(e, p)[k] = Echo(p)[k]
         /\ \A k \in 1 .. Width[p] : Rec(e, p)[Skip(p) + k] = DataOf(e, p)[k]
<1>1. Echo(p) \in Seq(Octets) /\ Len(Echo(p)) = Skip(p)
  BY EchoIs
<1>2. DataOf(e, p) \in Seq(Octets) /\ Len(DataOf(e, p)) = Width[p]
  BY DataIs
<1>3. PICK x, d : x = Echo(p) /\ d = DataOf(e, p)
  OBVIOUS
<1>4. /\ x \o d \in Seq(Octets) /\ Len(x \o d) = Len(x) + Len(d)
      /\ \A k \in 1 .. Len(x) : (x \o d)[k] = x[k]
      /\ \A k \in 1 .. Len(d) : (x \o d)[Len(x) + k] = d[k]
  BY ONLY <1>1, <1>2, <1>3, Joint
<1> QED BY ONLY <1>1, <1>2, <1>3, <1>4 DEF Rec

LEMMA RecsAre ==
  ASSUME NEW e \in Ecus, NEW s \in Seq(Pids)
  PROVE  Recs(e, s) \in Seq(Seq(Octets)) /\ FlattenSeq(Recs(e, s)) \in Seq(Octets)
<1>1. \A i \in DOMAIN s : Rec(e, s[i]) \in Seq(Octets)
  BY RecIs
<1>2. Recs(e, s) \in Seq(Seq(Octets))
  <2>1. Len(s) \in Nat /\ DOMAIN s = 1 .. Len(s)
    OBVIOUS
  <2>2. Recs(e, s) \in [1 .. Len(s) -> Seq(Octets)]
    BY <1>1, <2>1 DEF Recs
  <2> QED BY <2>1, <2>2, Function
<1> QED BY <1>2, Flattened

(* An answer is nothing, a refusal, or the reply byte and the records of   *)
(* pids that were asked for; of a pid on its own, its one record.          *)
Told(e, seg, held) ==
  /\ held \in Seq(Pids) /\ held # <<>> /\ Range(held) \subseteq Range(seg)
  /\ \E S : held = Only(seg, S)
  /\ Answer(e, seg) = <<ReplyByte(seg[1])>> \o FlattenSeq(Recs(e, held))

LEMMA AnswerIs ==
  ASSUME NEW e \in Ecus, NEW seg \in Seq(Pids)
  PROVE  \/ Answer(e, seg) = <<>>
         \/ Answer(e, seg) = <<Byte("7F", <<>>)>> /\ Len(seg) > 1
         \/ \E held : Told(e, seg, held)
<1> DEFINE S == IF Len(seg) > 1 THEN Holds[e] \ car.omits ELSE Holds[e]
           held == Only(seg, S)
<1>1. seg \in Seq(Range(seg))
  <2>1. /\ DOMAIN seg = 1 .. Len(seg) /\ Len(seg) \in Nat
        /\ \A i \in DOMAIN seg : seg[i] \in Range(seg)
    BY DEF Range
  <2>2. seg \in [1 .. Len(seg) -> Range(seg)]
    BY <2>1
  <2> QED BY <2>1, <2>2, Function
<1>2. held \in Seq(Range(seg) \cap S)
  BY <1>1, OnlyFold
<1>3. held \in Seq(Pids) /\ Range(held) \subseteq Range(seg)
  <2>1. \A x \in Range(seg) \cap S : x \in Pids
    BY DEF Range
  <2>2. Range(held) \subseteq Range(seg) \cap S
    BY <1>2 DEF Range
  <2> HIDE DEF held
  <2> QED BY <1>2, <2>1, <2>2, Wider
<1>4. \/ Answer(e, seg) = <<>>
      \/ Answer(e, seg) = <<Byte("7F", <<>>)>> /\ Len(seg) > 1
      \/ /\ held # <<>>
         /\ Answer(e, seg) = <<ReplyByte(seg[1])>> \o FlattenSeq(Recs(e, held))
  <2> DEFINE meant == Target[seg[1]] \in {e, NoEcu}
             refused == Len(seg) > 1 /\ seg[1] \in Mode22 /\ car.pair # "ok"
             rest == FlattenSeq([i \in DOMAIN held |-> Echo(held[i]) \o DataOf(e, held[i])])
  <2>1. rest = FlattenSeq(Recs(e, held))
    BY DEF Recs, Rec
  <2>2. Answer(e, seg) =
          CASE ~meant \/ held = <<>> \/ (refused /\ car.pair = "silent") -> <<>>
            [] refused -> <<Byte("7F", <<>>)>>
            [] OTHER -> <<ReplyByte(seg[1])>> \o rest
    BY DEF Answer
  <2>3. refused => Len(seg) > 1
    OBVIOUS
  <2> HIDE DEF meant, refused, rest, held
  <2> QED BY <2>1, <2>2, <2>3
<1>5. \E U : held = Only(seg, U)
  OBVIOUS
<1> HIDE DEF held
<1> QED BY <1>3, <1>4, <1>5 DEF Told

LEMMA AnswerTyped ==
  ASSUME NEW e \in Ecus, NEW seg \in Seq(Pids) PROVE Answer(e, seg) \in Seq(Octets)
<1>1. CASE Answer(e, seg) = <<>>
  BY <1>1
<1>2. CASE Answer(e, seg) = <<Byte("7F", <<>>)>>
  <2>1. Byte("7F", <<>>) \in Octets
    BY DEF Byte, Octets
  <2> QED BY <1>2, <2>1
<1>3. ASSUME NEW held, Told(e, seg, held) PROVE Answer(e, seg) \in Seq(Octets)
  <2>1. ReplyByte(seg[1]) \in Octets
    BY DEF ReplyByte, Byte, Octets
  <2>2. FlattenSeq(Recs(e, held)) \in Seq(Octets)
    BY <1>3, RecsAre DEF Told
  <2> QED BY ONLY <1>3, <2>1, <2>2, Prefixed DEF Told
<1> QED BY <1>1, <1>2, <1>3, AnswerIs

(* Whatever lines are lost, an ECU that is heard at all is heard with its  *)
(* answer, or with a frame that begins with its PCI byte.                  *)
Heard(e, seg, bytes) == bytes # <<>> /\ (bytes = Answer(e, seg) \/ Garbled(bytes))

LEMMA LinesReceived ==
  ASSUME NEW e \in Ecus, NEW seg \in Seq(Pids), NEW gone
  PROVE  \E S : Lines(seg, gone)[e] = Received(Frames(Answer(e, seg)), S)
<1> DEFINE all == Frames(Answer(e, seg))
           S == {i \in DOMAIN all : <<e, i>> \notin gone}
<1>1. Lines(seg, gone)[e] = LET kept == Only([i \in DOMAIN all |-> i], S)
                            IN [i \in DOMAIN kept |-> all[kept[i]]]
  BY DEF Lines
<1>2. DOMAIN all = 1 .. Len(all)
  <2>1. Answer(e, seg) \in Seq(Octets) /\ Bare \in Octets
    BY AnswerTyped DEF Bare, Byte, Octets
  <2>2. CASE Answer(e, seg) = <<>>
    BY <2>2 DEF Frames
  <2>3. CASE Answer(e, seg) # <<>> /\ Len(Answer(e, seg)) <= 7
    <3>1. PICK x : all = <<x>>
      BY ONLY <2>1, <2>3, SingleFrame
    <3> HIDE DEF all
    <3> QED BY <3>1
  <2>4. CASE Len(Answer(e, seg)) > 7
    <3>1. PICK x, rest, R : all = <<x>> \o rest /\ rest \in Seq(R)
      BY ONLY <2>1, <2>4, FurtherFrames
    <3>2. <<x>> \in Seq(R \cup {x}) /\ rest \in Seq(R \cup {x})
      BY <3>1
    <3> HIDE DEF all
    <3>3. all \in Seq(R \cup {x})
      BY ONLY <3>1, <3>2, Joint
    <3> QED BY <3>3
  <2>5. Len(Answer(e, seg)) \in Nat
    BY <2>1
  <2> QED BY <2>2, <2>3, <2>4, <2>5
<1>3. Lines(seg, gone)[e] = Received(all, S)
  BY <1>1, <1>2 DEF Received, Positions
<1> QED BY <1>3

LEMMA Hears ==
  ASSUME NEW seg \in Seq(Pids), NEW gone, NEW e \in DOMAIN Payloads(Lines(seg, gone))
  PROVE  e \in Ecus /\ Heard(e, seg, Payloads(Lines(seg, gone))[e])
<1> DEFINE lines == Lines(seg, gone)
           payload == Answer(e, seg)
<1>1. /\ e \in Ecus /\ lines[e] # <<>> /\ Payloads(lines)[e] = Assembled(lines[e])
      /\ Assembled(lines[e]) # <<>>
  <2> DEFINE all == [x \in Ecus |-> IF lines[x] = <<>> THEN <<>> ELSE Assembled(lines[x])]
  <2>1. e \in Ecus /\ all[e] # <<>> /\ Payloads(lines)[e] = all[e]
    BY DEF Payloads
  <2> QED BY <2>1
<1>2. payload \in Seq(Octets) /\ Bare \in Octets
  BY <1>1, AnswerTyped DEF Bare, Byte, Octets
<1>3. PICK S : lines[e] = Received(Frames(payload), S)
  BY ONLY <1>1, LinesReceived, seg \in Seq(Pids)
<1> HIDE DEF lines
<1>4. CASE payload = <<>>
  <2>1. Frames(payload) = <<>> /\ Len(<<>>) = 0
    BY <1>4 DEF Frames
  <2>2. Positions(0) = <<>>
    BY DEF Positions
  <2>3. Received(<<>>, S) = <<>>
    BY <2>1, <2>2, OnlyNone DEF Received
  <2> QED BY <1>1, <1>3, <2>1, <2>3
<1>5. CASE payload # <<>> /\ Len(payload) <= 7
  <2>1. Assembled(lines[e]) = payload
    BY ONLY <1>1, <1>2, <1>3, <1>5, ReceivedOne
  <2> QED BY <1>1, <2>1 DEF Heard, lines
<1>6. CASE Len(payload) > 7
  <2>1. \/ Assembled(lines[e]) \in {<<>>, payload}
        \/ Garbled(Assembled(lines[e]))
    BY ONLY <1>1, <1>2, <1>3, <1>6, ReceivedMany
  <2> QED BY <1>1, <2>1 DEF Heard, lines
<1>7. Len(payload) \in Nat
  BY <1>2
<1> QED BY <1>4, <1>5, <1>6, <1>7

-----------------------------------------------------------------------------
(* Where the records of an answer are.                                     *)
LEMMA AppendIs ==
  ASSUME NEW E, NEW s \in Seq(E), NEW x \in E
  PROVE  Append(s, x) = [k \in 1 .. Len(s) + 1 |-> IF k <= Len(s) THEN s[k] ELSE x]
<1> DEFINE n == Len(s)
           f == [k \in 1 .. n + 1 |-> IF k <= n THEN s[k] ELSE x]
<1>1. n \in Nat /\ \A k \in 1 .. n : s[k] \in E
  OBVIOUS
<1>2. /\ Append(s, x) \in Seq(E) /\ Len(Append(s, x)) = n + 1 /\ Append(s, x)[n + 1] = x
      /\ \A k \in 1 .. n : Append(s, x)[k] = s[k]
  OBVIOUS
<1> HIDE DEF n
<1>3. \A k \in 1 .. n + 1 : k <= n => k \in 1 .. n
  BY <1>1
<1>4. f \in [1 .. n + 1 -> E] /\ n + 1 \in Nat
  BY <1>1, <1>3
<1>5. f \in Seq(E) /\ Len(f) = n + 1
  BY ONLY <1>4, Function
<1>6. PICK t, g : t = Append(s, x) /\ g = f
  OBVIOUS
<1>7. \A k \in 1 .. n + 1 : t[k] = g[k]
  <2>1. \A k \in 1 .. n + 1 : ~(k <= n) => k = n + 1
    BY <1>1
  <2>2. \A k \in 1 .. n + 1 : g[k] = IF k <= n THEN s[k] ELSE x
    BY <1>6
  <2> QED BY <1>2, <1>3, <1>6, <2>1, <2>2
<1>8. t \in Seq(E) /\ g \in Seq(E) /\ Len(t) = Len(g) /\ Len(t) = n + 1
  BY <1>2, <1>5, <1>6
<1>9. t = g
  BY ONLY <1>7, <1>8, Equal
<1> QED BY <1>6, <1>9 DEF n

LEMMA RecsJoin ==
  ASSUME NEW e \in Ecus, NEW s \in Seq(Pids), NEW t \in Seq(Pids), NEW p \in Pids
  PROVE  /\ Recs(e, s \o t) = Recs(e, s) \o Recs(e, t)
         /\ Recs(e, Append(s, p)) = Append(Recs(e, s), Rec(e, p))
<1>1. Recs(e, s \o t) = Recs(e, s) \o Recs(e, t)
  <2>1. PICK u : u = s \o t
    OBVIOUS
  <2>2. /\ u \in Seq(Pids) /\ Len(u) = Len(s) + Len(t) /\ Len(s) \in Nat /\ Len(t) \in Nat
        /\ \A k \in 1 .. Len(s) : u[k] = s[k]
        /\ \A k \in 1 .. Len(t) : u[Len(s) + k] = t[k]
    BY ONLY <2>1, s \in Seq(Pids), t \in Seq(Pids), Joint
  <2>3. /\ Recs(e, u) \in Seq(Seq(Octets)) /\ Recs(e, s) \in Seq(Seq(Octets))
        /\ Recs(e, t) \in Seq(Seq(Octets))
    BY <2>2, RecsAre
  <2>4. /\ Len(Recs(e, u)) = Len(u) /\ Len(Recs(e, s)) = Len(s) /\ Len(Recs(e, t)) = Len(t)
        /\ \A k \in 1 .. Len(u) : Recs(e, u)[k] = Rec(e, u[k])
        /\ \A k \in 1 .. Len(s) : Recs(e, s)[k] = Rec(e, s[k])
        /\ \A k \in 1 .. Len(t) : Recs(e, t)[k] = Rec(e, t[k])
    BY <2>2, <2>3 DEF Recs
  <2>5. PICK a, b, c : a = Recs(e, s) /\ b = Recs(e, t) /\ c = Recs(e, u)
    OBVIOUS
  <2>6. /\ a \o b \in Seq(Seq(Octets)) /\ Len(a \o b) = Len(a) + Len(b)
        /\ \A k \in 1 .. Len(a) : (a \o b)[k] = a[k]
        /\ \A k \in 1 .. Len(b) : (a \o b)[Len(a) + k] = b[k]
    BY ONLY <2>3, <2>5, Joint
  <2>7. PICK d : d = a \o b
    OBVIOUS
  <2>8. ASSUME NEW k \in 1 .. Len(c) PROVE c[k] = d[k]
    <3>1. k \in 1 .. Len(u) /\ c[k] = Rec(e, u[k])
      BY <2>4, <2>5
    <3>2. CASE k <= Len(s)
      BY <2>2, <2>4, <2>5, <2>6, <2>7, <3>1, <3>2
    <3>3. CASE k > Len(s)
      <4>1. PICK j \in 1 .. Len(t) : k = Len(s) + j
        <5>1. k - Len(s) \in 1 .. Len(t)
          BY <2>2, <3>1, <3>3
        <5>2. Len(s) \in Nat /\ k \in Int
          BY <2>2, <3>1
        <5>3. k = Len(s) + (k - Len(s))
          BY ONLY <5>2
        <5> QED BY ONLY <5>1, <5>3
      <4>2. u[k] = t[j] /\ d[k] = b[j] /\ b[j] = Rec(e, t[j])
        BY <2>2, <2>4, <2>5, <2>6, <2>7, <4>1
      <4> QED BY <3>1, <4>2
    <3>4. k \in Nat
      BY <3>1
    <3> QED BY <2>2, <3>2, <3>3, <3>4
  <2>9. Len(c) = Len(d) /\ c \in Seq(Seq(Octets)) /\ d \in Seq(Seq(Octets))
    BY <2>2, <2>3, <2>4, <2>5, <2>6, <2>7
  <2>10. c = d
    BY ONLY <2>8, <2>9, Equal
  <2> QED BY <2>1, <2>5, <2>7, <2>10
<1>2. Recs(e, Append(s, p)) = Append(Recs(e, s), Rec(e, p))
  <2>1. PICK u : u = Append(s, p)
    OBVIOUS
  <2>2. /\ DOMAIN u = 1 .. Len(s) + 1 /\ u[Len(s) + 1] = p /\ DOMAIN s = 1 .. Len(s)
        /\ \A k \in 1 .. Len(s) : u[k] = s[k] /\ Len(s) \in Nat
    BY <2>1
  <2>3. Recs(e, s) \in Seq(Seq(Octets)) /\ Len(Recs(e, s)) = Len(s) /\ Rec(e, p) \in Seq(Octets)
        /\ \A k \in 1 .. Len(s) : Recs(e, s)[k] = Rec(e, s[k])
    BY <2>2, RecsAre, RecIs DEF Recs
  <2>4. Recs(e, u) = [k \in 1 .. Len(s) + 1 |-> Rec(e, u[k])]
    BY <2>2 DEF Recs
  <2>5. PICK a, r : a = Recs(e, s) /\ r = Rec(e, p)
    OBVIOUS
  <2>6. Append(a, r) = [k \in 1 .. Len(a) + 1 |-> IF k <= Len(a) THEN a[k] ELSE r]
    <3>1. a \in Seq(Seq(Octets)) /\ r \in Seq(Octets)
      BY <2>3, <2>5
    <3> QED BY ONLY <3>1, AppendIs
  <2>7. \A k \in 1 .. Len(s) + 1 : Rec(e, u[k]) = IF k <= Len(a) THEN a[k] ELSE r
    <3> SUFFICES ASSUME NEW k \in 1 .. Len(s) + 1
                 PROVE  Rec(e, u[k]) = IF k <= Len(a) THEN a[k] ELSE r
      OBVIOUS
    <3>1. CASE k <= Len(s)
      <4>1. k \in 1 .. Len(s)
        BY <2>2, <3>1
      <4> QED BY <2>2, <2>3, <2>5, <3>1, <4>1
    <3>2. CASE ~(k <= Len(s))
      <4>1. k = Len(s) + 1
        BY <2>2, <3>2
      <4> QED BY <2>2, <2>3, <2>5, <3>2, <4>1
    <3> QED BY <3>1, <3>2
  <2> QED BY <2>1, <2>3, <2>4, <2>5, <2>6, <2>7
<1> QED BY <1>1, <1>2

At(e, held, k) == 2 + Len(FlattenSeq(Recs(e, SubSeq(held, 1, k))))

LEMMA Split ==
  ASSUME NEW E, NEW held \in Seq(E), NEW k \in Nat, k < Len(held)
  PROVE  /\ SubSeq(held, 1, k) \in Seq(E) /\ held[k + 1] \in E
         /\ SubSeq(held, k + 2, Len(held)) \in Seq(E)
         /\ SubSeq(held, 1, k + 1) = Append(SubSeq(held, 1, k), held[k + 1])
         /\ held = Append(SubSeq(held, 1, k), held[k + 1]) \o SubSeq(held, k + 2, Len(held))
<1> DEFINE pre == SubSeq(held, 1, k)
           post == SubSeq(held, k + 2, Len(held))
           n == Len(held)
<1>1. n \in Nat /\ k + 1 \in 1 .. n /\ held[k + 1] \in E /\ \A i \in 1 .. n : held[i] \in E
  OBVIOUS
<1>2. /\ pre \in Seq(E) /\ Len(pre) = k /\ \A i \in 1 .. k : pre[i] = held[i]
  BY <1>1
<1>3. /\ post \in Seq(E) /\ Len(post) = n - (k + 1)
      /\ \A i \in 1 .. n - (k + 1) : post[i] = held[k + 1 + i]
  BY <1>1
<1>4. SubSeq(held, 1, k + 1) = Append(pre, held[k + 1])
  <2>1. SubSeq(held, 1, k + 1) = [i \in 1 .. k + 1 |-> held[i]]
    BY <1>1
  <2>2. Append(pre, held[k + 1])
          = [i \in 1 .. Len(pre) + 1 |-> IF i <= Len(pre) THEN pre[i] ELSE held[k + 1]]
    BY ONLY <1>1, <1>2, AppendIs
  <2>3. \A i \in 1 .. k + 1 : IF i <= k THEN i \in 1 .. k ELSE i = k + 1
    BY <1>1
  <2> HIDE DEF pre
  <2> QED BY <1>2, <2>1, <2>2, <2>3
<1> HIDE DEF pre, post
<1>5. PICK q, p, z : q = pre /\ p = post /\ z = Append(q, held[k + 1])
  OBVIOUS
<1>6. z \in Seq(E) /\ Len(z) = k + 1 /\ \A i \in 1 .. k + 1 : z[i] = held[i]
  BY <1>1, <1>2, <1>5
<1>7. PICK w : w = z \o p
  OBVIOUS
<1>8. /\ w \in Seq(E) /\ Len(w) = Len(z) + Len(p)
      /\ \A i \in 1 .. Len(z) : w[i] = z[i]
      /\ \A i \in 1 .. Len(p) : w[Len(z) + i] = p[i]
  <2>1. z \in Seq(E) /\ p \in Seq(E)
    BY <1>3, <1>5, <1>6
  <2> QED BY ONLY <1>7, <2>1, Joint
<1>9. Len(w) = n
  BY <1>1, <1>3, <1>5, <1>6, <1>8
<1>10. ASSUME NEW i \in 1 .. n PROVE held[i] = w[i]
  <2>1. CASE i <= k + 1
    BY <1>6, <1>8, <2>1
  <2>2. CASE i > k + 1
    <3>1. PICK j \in 1 .. Len(p) : i = Len(z) + j
      <4>1. i - (k + 1) \in 1 .. n - (k + 1) /\ i = (k + 1) + (i - (k + 1))
        BY <1>1, <2>2
      <4> QED BY <1>3, <1>5, <1>6, <4>1
    <3>2. w[i] = p[j] /\ p[j] = held[k + 1 + j]
      BY <1>3, <1>5, <1>8, <3>1
    <3> QED BY <1>6, <3>1, <3>2
  <2> QED BY <2>1, <2>2
<1>11. held = w
  <2>1. Len(held) = Len(w) /\ w \in Seq(E) /\ \A i \in 1 .. Len(held) : held[i] = w[i]
    BY <1>8, <1>9, <1>10
  <2> QED BY ONLY <2>1, held \in Seq(E), Equal
<1> QED BY <1>1, <1>2, <1>3, <1>4, <1>5, <1>7, <1>11 DEF pre, post

Placed(e, held, k, bytes) ==
  /\ At(e, held, k) \in Nat \ {0} /\ At(e, held, k + 1) <= Len(bytes) + 1
  /\ At(e, held, k + 1) = At(e, held, k) + Skip(held[k + 1]) + Width[held[k + 1]]
  /\ \A j \in 1 .. Skip(held[k + 1]) + Width[held[k + 1]] :
       bytes[At(e, held, k) + j - 1] = Rec(e, held[k + 1])[j]

LEMMA Located ==
  ASSUME NEW e \in Ecus, NEW held \in Seq(Pids), NEW b \in Octets,
         NEW k \in Nat, k < Len(held), NEW bytes, bytes = <<b>> \o FlattenSeq(Recs(e, held))
  PROVE  Placed(e, held, k, bytes)
<1>1. PICK pre, p, post : /\ pre = SubSeq(held, 1, k) /\ p = held[k + 1]
                          /\ post = SubSeq(held, k + 2, Len(held))
  OBVIOUS
<1>2. /\ pre \in Seq(Pids) /\ p \in Pids /\ post \in Seq(Pids)
      /\ SubSeq(held, 1, k + 1) = Append(pre, p) /\ held = Append(pre, p) \o post
  BY ONLY <1>1, held \in Seq(Pids), k \in Nat, k < Len(held), Split
<1>3. Append(pre, p) \in Seq(Pids)
  BY <1>2
<1>4. /\ Recs(e, held) = Recs(e, Append(pre, p)) \o Recs(e, post)
      /\ Recs(e, Append(pre, p)) = Append(Recs(e, pre), Rec(e, p))
  BY <1>2, <1>3, RecsJoin
<1>5. PICK x, r, y : /\ x = FlattenSeq(Recs(e, pre)) /\ r = Rec(e, p)
                     /\ y = FlattenSeq(Recs(e, post))
  OBVIOUS
<1>6. /\ Recs(e, pre) \in Seq(Seq(Octets)) /\ Recs(e, post) \in Seq(Seq(Octets))
      /\ Recs(e, Append(pre, p)) \in Seq(Seq(Octets)) /\ x \in Seq(Octets) /\ y \in Seq(Octets)
      /\ r \in Seq(Octets) /\ Len(r) = Skip(p) + Width[p]
  BY <1>2, <1>3, <1>5, RecsAre, RecIs
<1>7. FlattenSeq(Recs(e, Append(pre, p))) = x \o r
  BY ONLY <1>4, <1>5, <1>6, FlatAppend
<1>8. FlattenSeq(Recs(e, held)) = (x \o r) \o y
  BY ONLY <1>4, <1>5, <1>6, <1>7, FlatConcat
<1>9. /\ x \o r \in Seq(Octets) /\ Len(x \o r) = Len(x) + Len(r)
      /\ Len(x) \in Nat /\ Len(r) \in Nat
      /\ \A j \in 1 .. Len(r) : (x \o r)[Len(x) + j] = r[j]
  <2>1. x \in Seq(Octets) /\ r \in Seq(Octets)
    BY <1>6
  <2> QED BY ONLY <2>1, Joint
<1>10. PICK u : u = x \o r
  OBVIOUS
<1>11. /\ u \o y \in Seq(Octets) /\ Len(u \o y) = Len(u) + Len(y) /\ Len(y) \in Nat
       /\ \A j \in 1 .. Len(u) : (u \o y)[j] = u[j]
  BY ONLY <1>6, <1>9, <1>10, Joint
<1>12. PICK v : v = u \o y
  OBVIOUS
<1>13. /\ Len(bytes) = 1 + Len(v) /\ \A j \in 1 .. Len(v) : bytes[1 + j] = v[j]
  <2>1. v \in Seq(Octets) /\ bytes = <<b>> \o v
    BY <1>8, <1>10, <1>11, <1>12
  <2> QED BY ONLY <2>1, b \in Octets, Prefixed
<1>14. At(e, held, k) = 2 + Len(x) /\ At(e, held, k + 1) = 2 + Len(u)
  BY <1>1, <1>2, <1>5, <1>7, <1>10 DEF At
<1>15. ASSUME NEW j \in 1 .. Len(r) PROVE bytes[2 + Len(x) + j - 1] = r[j]
  <2>1. Len(x) + j \in 1 .. Len(u) /\ Len(u) = Len(x) + Len(r)
    BY <1>9, <1>10
  <2>2. Len(x) + j \in 1 .. Len(v)
    BY <1>11, <1>12, <2>1
  <2>3. 2 + Len(x) + j - 1 = 1 + (Len(x) + j)
    BY <1>9
  <2>4. v[Len(x) + j] = u[Len(x) + j]
    BY <1>11, <1>12, <2>1
  <2>5. u[Len(x) + j] = r[j]
    BY <1>9, <1>10
  <2> QED BY <1>13, <2>2, <2>3, <2>4, <2>5
<1>16. Len(u) = Len(x) + Len(r) /\ Len(v) = Len(u) + Len(y)
  BY <1>9, <1>10, <1>11, <1>12
<1>17. Skip(p) + Width[p] = Len(r) /\ Skip(p) \in Nat /\ Width[p] \in Nat
  BY <1>2, <1>6, DataIs DEF Skip
<1>18. At(e, held, k) \in Nat \ {0} /\ At(e, held, k + 1) <= Len(bytes) + 1
  BY <1>9, <1>11, <1>13, <1>14, <1>16
<1>19. At(e, held, k + 1) = At(e, held, k) + Skip(p) + Width[p]
  <2>1. \A l, m, w \in Nat : 2 + (l + (m + w)) = (2 + l) + m + w
    OBVIOUS
  <2>2. Len(x) \in Nat /\ Len(u) = Len(x) + (Skip(p) + Width[p])
    BY <1>9, <1>16, <1>17
  <2>3. 2 + Len(u) = (2 + Len(x)) + Skip(p) + Width[p]
    BY ONLY <1>17, <2>1, <2>2
  <2> QED BY ONLY <1>14, <2>3
<1>20. ASSUME NEW j \in 1 .. Skip(p) + Width[p] PROVE bytes[At(e, held, k) + j - 1] = Rec(e, p)[j]
  BY <1>5, <1>14, <1>15, <1>17
<1> QED BY <1>1, <1>18, <1>19, <1>20 DEF Placed

(* An echo stands where a pid's echo is, and of the pids of one mode it is *)
(* the echo of no other.                                                   *)
OneMode(S) == S \subseteq Mode01 \/ S \subseteq Mode22

LEMMA OneOf ==
  ASSUME NEW E, NEW s \in Seq(E), NEW i \in 1 .. Len(s) PROVE SubSeq(s, i, i) = <<s[i]>>
<1>1. PICK u, v : u = SubSeq(s, i, i) /\ v = <<s[i]>>
  OBVIOUS
<1>2. u \in Seq(E) /\ Len(u) = 1 /\ u[1] = s[i]
  <2>1. SubSeq(s, i, i) \in Seq(E) /\ Len(SubSeq(s, i, i)) = i - i + 1
    OBVIOUS
  <2>2. 1 \in 1 .. i - i + 1 /\ i + 1 - 1 = i /\ i - i + 1 = 1
    OBVIOUS
  <2>3. SubSeq(s, i, i)[1] = s[i]
    BY <2>2
  <2> QED BY <1>1, <2>1, <2>2, <2>3
<1>3. v \in Seq(E) /\ Len(v) = 1 /\ v[1] = s[i]
  BY <1>1
<1>4. \A k \in 1 .. Len(u) : u[k] = v[k]
  BY <1>2, <1>3
<1>5. Len(u) = Len(v)
  BY <1>2, <1>3
<1>6. u = v
  BY ONLY <1>2, <1>3, <1>4, <1>5, Equal
<1> QED BY <1>1, <1>6

LEMMA TwoOf ==
  ASSUME NEW E, NEW s \in Seq(E), NEW i \in Nat \ {0}, i + 1 <= Len(s)
  PROVE  SubSeq(s, i, i + 1) = <<s[i], s[i + 1]>>
<1>1. PICK u, v : u = SubSeq(s, i, i + 1) /\ v = <<s[i], s[i + 1]>>
  OBVIOUS
<1>2. u \in Seq(E) /\ Len(u) = 2 /\ u[1] = s[i] /\ u[2] = s[i + 1]
  <2>1. SubSeq(s, i, i + 1) \in Seq(E) /\ Len(SubSeq(s, i, i + 1)) = i + 1 - i + 1
    OBVIOUS
  <2>2. /\ 1 \in 1 .. i + 1 - i + 1 /\ i + 1 - 1 = i /\ i + 1 - i + 1 = 2
        /\ 2 \in 1 .. i + 1 - i + 1 /\ i + 2 - 1 = i + 1
    OBVIOUS
  <2>3. SubSeq(s, i, i + 1)[1] = s[i] /\ SubSeq(s, i, i + 1)[2] = s[i + 1]
    <3>1. \A k \in i .. i + 1 : s[k] \in E
      OBVIOUS
    <3>2. i \in Int /\ i + 1 \in Int
      OBVIOUS
    <3>3. \A k \in 1 .. i + 1 - i + 1 : SubSeq(s, i, i + 1)[k] = s[i + k - 1]
      BY ONLY <3>1, <3>2, SubSeqProperties
    <3>4. SubSeq(s, i, i + 1)[1] = s[i + 1 - 1] /\ SubSeq(s, i, i + 1)[2] = s[i + 2 - 1]
      BY ONLY <2>2, <3>3
    <3> QED BY ONLY <2>2, <3>4
  <2> QED BY <1>1, <2>1, <2>2, <2>3
<1>3. v \in Seq(E) /\ Len(v) = 2 /\ v[1] = s[i] /\ v[2] = s[i + 1]
  <2>1. s[i] \in E /\ s[i + 1] \in E
    OBVIOUS
  <2> QED BY <1>1, <2>1
<1>4. \A k \in 1 .. Len(u) : u[k] = v[k]
  BY <1>2, <1>3
<1>5. Len(u) = Len(v)
  BY <1>2, <1>3
<1>6. u = v
  BY ONLY <1>2, <1>3, <1>4, <1>5, Equal
<1> QED BY <1>1, <1>6

LEMMA AsOne == \A a : As(<<a>>) = <<a.as>>
  BY DEF As

LEMMA AsTwo == \A a, b : As(<<a, b>>) = <<a.as, b.as>>
  BY DEF As

LEMMA EchoMeans ==
  ASSUME NEW q \in Pids, NEW bytes \in Seq(Octets), NEW i \in Nat \ {0}
  PROVE  EchoAt(bytes, i, q) <=>
           IF q \in Mode01 THEN i <= Len(bytes) /\ bytes[i].as = q
           ELSE i + 1 <= Len(bytes) /\ bytes[i].as = "F4" /\ bytes[i + 1].as = q
<1>1. CASE q \in Mode01
  <2>1. Echo(q) = <<Byte(q, <<>>)>> /\ Len(Echo(q)) = 1
    BY <1>1 DEF Echo
  <2>2. As(Echo(q)) = <<q>>
    BY <2>1 DEF As, Byte
  <2>3. i + 1 - 1 = i
    OBVIOUS
  <2>4. ASSUME i <= Len(bytes) PROVE As(SubSeq(bytes, i, i)) = <<bytes[i].as>>
    <3>1. SubSeq(bytes, i, i) = <<bytes[i]>>
      BY <2>4, OneOf
    <3> QED BY <3>1, AsOne
  <2> QED BY <1>1, <2>1, <2>2, <2>3, <2>4 DEF EchoAt
<1>2. CASE q \notin Mode01
  <2>1. Echo(q) = <<Byte("F4", <<>>), Byte(q, <<>>)>> /\ Len(Echo(q)) = 2
    BY <1>2 DEF Echo
  <2>2. As(Echo(q)) = <<"F4", q>>
    BY <2>1 DEF As, Byte
  <2>3. i + 2 - 1 = i + 1
    OBVIOUS
  <2>4. ASSUME i + 1 <= Len(bytes)
        PROVE  As(SubSeq(bytes, i, i + 1)) = <<bytes[i].as, bytes[i + 1].as>>
    <3>1. SubSeq(bytes, i, i + 1) = <<bytes[i], bytes[i + 1]>>
      BY <2>4, TwoOf
    <3> QED BY <3>1, AsTwo
  <2> QED BY <1>2, <2>1, <2>2, <2>3, <2>4 DEF EchoAt
<1> QED BY <1>1, <1>2

LEMMA EchoFound ==
  ASSUME NEW asked \in SUBSET Pids, OneMode(asked), NEW p \in asked,
         NEW bytes \in Seq(Octets), NEW i \in Nat \ {0}, i + Skip(p) - 1 <= Len(bytes),
         \A k \in 1 .. Skip(p) : bytes[i + k - 1] = Echo(p)[k]
  PROVE  {q \in asked : EchoAt(bytes, i, q)} = {p}
<1>0. Mode01 \cap Mode22 = {} /\ asked \subseteq Mode01 \cup Mode22
  BY BatchAssumption DEF Pids
<1>1. CASE p \in Mode01
  <2>1. Skip(p) = 1 /\ Echo(p) = <<Byte(p, <<>>)>>
    BY <1>1 DEF Skip, Echo
  <2>2. bytes[i + 1 - 1] = Echo(p)[1] /\ i + 1 - 1 = i
    BY <2>1
  <2>3. bytes[i].as = p /\ i <= Len(bytes)
    BY <2>1, <2>2 DEF Byte
  <2>4. \A q \in asked : q \in Mode01 /\ q \in Pids
    BY <1>0, <1>1 DEF OneMode
  <2>5. \A q \in asked : EchoAt(bytes, i, q) <=> q = p
    BY <2>3, <2>4, EchoMeans
  <2> QED BY <2>5
<1>2. CASE p \notin Mode01
  <2>1. Skip(p) = 2 /\ Echo(p) = <<Byte("F4", <<>>), Byte(p, <<>>)>>
    BY <1>2 DEF Skip, Echo
  <2>2. /\ bytes[i + 1 - 1] = Echo(p)[1] /\ i + 1 - 1 = i
        /\ bytes[i + 2 - 1] = Echo(p)[2] /\ i + 2 - 1 = i + 1
    BY <2>1
  <2>3. bytes[i].as = "F4" /\ bytes[i + 1].as = p /\ i + 1 <= Len(bytes)
    BY <2>1, <2>2 DEF Byte
  <2>4. \A q \in asked : q \notin Mode01 /\ q \in Pids
    BY <1>0, <1>2 DEF OneMode
  <2>5. \A q \in asked : EchoAt(bytes, i, q) <=> q = p
    BY <2>3, <2>4, EchoMeans
  <2> QED BY <2>5
<1> QED BY <1>1, <1>2

(* Cut by the vehicle's own lengths, an answer gives each pid its data.    *)
Good(e) == [ok : BOOLEAN, got : SUBSET {[pid |-> p, data |-> DataOf(e, p)] : p \in Pids}]

LEMMA CutRecord ==
  ASSUME lengths \in [Pids -> Nat], NEW e \in Ecus, NEW asked \in SUBSET Pids, OneMode(asked),
         \A q \in asked : lengths[q] = Width[q],
         NEW p \in asked, NEW bytes \in Seq(Octets), NEW i \in Nat \ {0},
         i + Skip(p) + Width[p] <= Len(bytes) + 1,
         \A j \in 1 .. Skip(p) + Width[p] : bytes[i + j - 1] = Rec(e, p)[j],
         NEW f, f[i + Skip(p) + Width[p]] \in Good(e)
  PROVE  CutAt(f, bytes, i, asked) \in Good(e)
<1> DEFINE here == {q \in asked : EchoAt(bytes, i, q)}
           start == i + Skip(p)
           end == start + Width[p]
           rest == f[end]
           bad == [ok |-> FALSE, got |-> {}]
<1>1. Skip(p) \in 1 .. 2 /\ Width[p] \in Nat \ {0} /\ Len(bytes) \in Nat /\ lengths[p] = Width[p]
  BY DataIs DEF Skip
<1>2. /\ \A k \in 1 .. Skip(p) : Rec(e, p)[k] = Echo(p)[k]
      /\ \A k \in 1 .. Width[p] : Rec(e, p)[Skip(p) + k] = DataOf(e, p)[k]
  BY RecIs
<1>3. here = {p}
  <2>1. i + Skip(p) - 1 <= Len(bytes)
    BY <1>1
  <2>2. \A k \in 1 .. Skip(p) : k \in 1 .. Skip(p) + Width[p]
    BY <1>1
  <2>3. \A k \in 1 .. Skip(p) : bytes[i + k - 1] = Echo(p)[k]
    BY <1>2, <2>2
  <2> QED BY <2>1, <2>3, EchoFound
<1>4. SubSeq(bytes, start, end - 1) = DataOf(e, p)
  <2> DEFINE cut == SubSeq(bytes, start, end - 1)
  <2>1. /\ start \in Nat \ {0} /\ end - 1 \in Nat /\ end - 1 <= Len(bytes)
        /\ end - 1 - start + 1 = Width[p]
    BY <1>1
  <2>2. /\ cut \in Seq(Octets) /\ Len(cut) = Width[p]
        /\ \A k \in 1 .. Width[p] : cut[k] = bytes[start + k - 1]
    <3> HIDE DEF start, end
    <3>1. end - 1 >= start
      BY <1>1, <2>1
    <3>2. /\ start \in Int /\ end - 1 \in Int /\ (end - 1) - start + 1 = Width[p]
          /\ \A j \in start .. end - 1 : bytes[j] \in Octets
      BY <1>1, <2>1, <3>1
    <3>3. /\ cut \in Seq(Octets)
          /\ Len(cut) = IF start <= end - 1 THEN (end - 1) - start + 1 ELSE 0
          /\ \A k \in 1 .. (end - 1) - start + 1 : cut[k] = bytes[start + k - 1]
      BY ONLY <3>2, SubSeqProperties DEF cut
    <3> QED BY ONLY <3>1, <3>2, <3>3
  <2>3. ASSUME NEW k \in 1 .. Width[p] PROVE bytes[start + k - 1] = DataOf(e, p)[k]
    <3>1. \A a, c, d \in Nat : \A h \in 1 .. d : /\ c + h \in 1 .. c + d
                                                    /\ a + (c + h) - 1 = (a + c) + h - 1
      OBVIOUS
    <3>2. Skip(p) + k \in 1 .. Skip(p) + Width[p] /\ i + (Skip(p) + k) - 1 = start + k - 1
      <4>1. i \in Nat /\ Skip(p) \in Nat /\ Width[p] \in Nat
        BY <1>1
      <4> QED BY ONLY <3>1, <4>1, k \in 1 .. Width[p]
    <3> QED BY <1>2, <3>2
  <2>4. DataOf(e, p) \in Seq(Octets) /\ Len(DataOf(e, p)) = Width[p]
    BY DataIs
  <2> HIDE DEF cut
  <2>5. \A k \in 1 .. Width[p] : cut[k] = DataOf(e, p)[k]
    BY <2>2, <2>3
  <2>6. cut = DataOf(e, p)
    BY ONLY <2>2, <2>4, <2>5, Equal
  <2> QED BY <2>6 DEF cut
<1>5. [ok |-> TRUE, got |-> {}] \in Good(e) /\ bad \in Good(e)
  BY DEF Good
<1>6. [rest EXCEPT !.got = @ \cup {[pid |-> p, data |-> DataOf(e, p)]}] \in Good(e)
  <2>1. rest \in Good(e)
    OBVIOUS
  <2>2. p \in Pids
    OBVIOUS
  <2> HIDE DEF rest
  <2> QED BY <2>1, <2>2 DEF Good
<1>7. (CHOOSE q \in here : TRUE) = p /\ here # {}
  BY <1>3
<1>8. Len(Echo(p)) = Skip(p)
  BY EchoIs
<1>9. ~(i > Len(bytes)) /\ ~(end > Len(bytes) + 1)
  BY <1>1
<1>10. CutOf(f, bytes, i, p) = Adding(rest, p, DataOf(e, p))
  <2>1. CutOf(f, bytes, i, p) = CutFor(f, bytes, start, end, p)
    BY <1>1, <1>8 DEF CutOf
  <2> HIDE DEF start, end
  <2>2. CutFor(f, bytes, start, end, p) = Adding(f[end], p, DataOf(e, p))
    BY <1>4, <1>9 DEF CutFor
  <2> QED BY <2>1, <2>2
<1>11. CutOf(f, bytes, i, p) \in Good(e)
  <2> HIDE DEF rest
  <2> QED BY <1>5, <1>6, <1>10 DEF Adding
<1>12. CutAt(f, bytes, i, asked) \in {[ok |-> TRUE, got |-> {}], CutOf(f, bytes, i, p)}
  <2> HIDE DEF rest
  <2> QED BY <1>7, <1>9 DEF CutAt
<1> QED BY <1>5, <1>11, <1>12

LEMMA CutsAre ==
  ASSUME lengths \in [Pids -> Nat], NEW e \in Ecus, NEW asked \in SUBSET Pids, OneMode(asked),
         \A q \in asked : lengths[q] = Width[q], NEW held \in Seq(asked), NEW b \in Octets,
         NEW bytes, bytes = <<b>> \o FlattenSeq(Recs(e, held)),
         NEW f, Cutting(f, bytes, asked)
  PROVE  f[2] \in Good(e)
<1> DEFINE n == Len(held)
           T == {m \in Nat : m <= n => f[At(e, held, n - m)] \in Good(e)}
<1>0. held \in Seq(Pids) /\ n \in Nat
  OBVIOUS
<1>1. bytes \in Seq(Octets) /\ Len(bytes) = 1 + Len(FlattenSeq(Recs(e, held))) /\ Len(bytes) \in Nat
  <2>1. FlattenSeq(Recs(e, held)) \in Seq(Octets)
    BY <1>0, RecsAre
  <2> QED BY <2>1
<1>2. 0 \in T
  <2>1. SubSeq(held, 1, n) = held
    OBVIOUS
  <2>2. At(e, held, n) = Len(bytes) + 1
    <3>1. At(e, held, n) = 2 + Len(FlattenSeq(Recs(e, held)))
      BY <2>1 DEF At
    <3>2. FlattenSeq(Recs(e, held)) \in Seq(Octets)
      BY <1>0, RecsAre
    <3>3. PICK l \in Nat : l = Len(FlattenSeq(Recs(e, held)))
      BY <3>2
    <3> QED BY ONLY <1>1, <3>1, <3>3
  <2>3. f[Len(bytes) + 1] = [ok |-> TRUE, got |-> {}]
    <3>1. Len(bytes) + 1 \in 2 .. Len(bytes) + 1 /\ Len(bytes) + 1 > Len(bytes)
      <4>1. FlattenSeq(Recs(e, held)) \in Seq(Octets)
        BY <1>0, RecsAre
      <4>2. Len(FlattenSeq(Recs(e, held))) \in Nat
        BY <4>1
      <4> QED BY <1>1, <4>2
    <3>2. CutAt(f, bytes, Len(bytes) + 1, asked) = [ok |-> TRUE, got |-> {}]
      BY <3>1 DEF CutAt
    <3> QED BY <3>1, <3>2 DEF Cutting
  <2>4. n - 0 = n
    BY <1>0
  <2>5. f[Len(bytes) + 1] \in Good(e)
    BY <2>3 DEF Good
  <2>6. f[At(e, held, n - 0)] \in Good(e)
    BY ONLY <2>2, <2>4, <2>5
  <2> QED BY <2>6
<1>3. ASSUME NEW m \in Nat, m \in T PROVE m + 1 \in T
  <2> SUFFICES ASSUME m + 1 <= n PROVE f[At(e, held, n - (m + 1))] \in Good(e)
    OBVIOUS
  <2>1. PICK k \in Nat : k = n - (m + 1)
    <3> HIDE DEF n
    <3>1. n - (m + 1) \in Nat
      BY <1>0
    <3> QED BY <3>1
  <2>2. k < n /\ n - m = k + 1 /\ m <= n
    BY <1>0, <2>1
  <2>3. PICK p \in asked : p = held[k + 1]
    BY <2>2
  <2>4. PICK i : i = At(e, held, k)
    OBVIOUS
  <2>5. /\ i \in Nat \ {0} /\ At(e, held, k + 1) <= Len(bytes) + 1
        /\ At(e, held, k + 1) = i + Skip(p) + Width[p]
        /\ \A j \in 1 .. Skip(p) + Width[p] : bytes[i + j - 1] = Rec(e, p)[j]
    <3>1. Placed(e, held, k, bytes)
      BY ONLY <1>0, <2>2, Located, e \in Ecus, b \in Octets, k \in Nat,
              bytes = <<b>> \o FlattenSeq(Recs(e, held))
    <3> QED BY ONLY <2>3, <2>4, <3>1 DEF Placed
  <2>6. f[At(e, held, k + 1)] \in Good(e)
    BY <1>3, <2>2
  <2>7. CutAt(f, bytes, i, asked) \in Good(e)
    <3> HIDE DEF n, T
    <3>1. i + Skip(p) + Width[p] <= Len(bytes) + 1 /\ f[i + Skip(p) + Width[p]] \in Good(e)
      BY <2>5, <2>6
    <3> QED BY <1>1, <2>5, <3>1, CutRecord
  <2>8. i >= 2
    <3>1. SubSeq(held, 1, k) \in Seq(Pids)
      BY <1>0, <2>2, Split
    <3>2. FlattenSeq(Recs(e, SubSeq(held, 1, k))) \in Seq(Octets)
      BY <3>1, RecsAre
    <3>3. Len(FlattenSeq(Recs(e, SubSeq(held, 1, k)))) \in Nat
      BY <3>2
    <3> QED BY <2>4, <3>3 DEF At
  <2>9. i \in 2 .. Len(bytes) + 1
    <3>1. Skip(p) \in Nat /\ Width[p] \in Nat
      BY <2>3, DataIs DEF Skip
    <3> QED BY <1>1, <2>5, <2>8, <3>1
  <2>10. f[i] = CutAt(f, bytes, i, asked)
    BY <2>9 DEF Cutting
  <2> QED BY <2>1, <2>4, <2>7, <2>10
<1> HIDE DEF T
<1>4. n \in T
  BY <1>0, <1>2, <1>3, Induct
<1>5. At(e, held, 0) = 2 /\ n - n = 0
  <2>1. SubSeq(held, 1, 0) = <<>>
    OBVIOUS
  <2>2. Recs(e, <<>>) = <<>>
    BY DEF Recs
  <2>3. Len(FlattenSeq(<<>>)) = 0
    BY FlatEmpty
  <2>4. At(e, held, 0) = 2 + 0
    BY <2>1, <2>2, <2>3 DEF At
  <2> HIDE DEF n
  <2> QED BY <1>0, <2>4
<1> QED BY <1>0, <1>4, <1>5 DEF T

LEMMA SlicesTell ==
  ASSUME lengths \in [Pids -> Nat], NEW e \in Ecus, NEW seg \in Seq(Pids), OneMode(Range(seg)),
         \A q \in Range(seg) : lengths[q] = Width[q], NEW bytes, Heard(e, seg, bytes)
  PROVE  \A g \in Slices(bytes, ToSet(seg)).got : g.data = DataOf(e, g.pid)
<1> DEFINE asked == Range(seg)
           bad == [ok |-> FALSE, got |-> {}]
<1>1. asked \in SUBSET Pids /\ ToSet(seg) = asked
  BY DEF Range, ToSet
<1> HIDE DEF asked
<1>2. \A p : ReplyByte(p).as \in {"41", "62"}
  BY DEF ReplyByte, Byte
<1>3. ASSUME bytes[1].as \notin {"41", "62"} PROVE Slices(bytes, asked) = bad
  BY <1>2, <1>3 DEF Slices
<1>4. CASE Garbled(bytes)
  <2>1. bytes[1].as = "pci"
    BY <1>4 DEF Garbled
  <2> QED BY <1>1, <1>3, <2>1
<1>5. CASE bytes = <<Byte("7F", <<>>)>>
  <2>1. bytes[1].as = "7F"
    BY <1>5 DEF Byte
  <2> QED BY <1>1, <1>3, <2>1
<1>6. ASSUME NEW held, Told(e, seg, held), bytes = Answer(e, seg)
      PROVE  Slices(bytes, asked).got \subseteq {[pid |-> p, data |-> DataOf(e, p)] : p \in Pids}
  <2>1. held \in Seq(asked)
    <3>1. held \in Seq(Pids) /\ Range(held) \subseteq asked
      BY <1>6 DEF Told, asked
    <3>2. /\ Len(held) \in Nat /\ DOMAIN held = 1 .. Len(held)
          /\ \A i \in DOMAIN held : held[i] \in asked
      BY <3>1 DEF Range
    <3>3. held \in [1 .. Len(held) -> asked]
      BY <3>1, <3>2
    <3> QED BY ONLY <3>2, <3>3, Function
  <2>2. PICK b : bytes = <<b>> \o FlattenSeq(Recs(e, held)) /\ b \in Octets
    <3>1. ReplyByte(seg[1]) \in Octets
      BY DEF ReplyByte, Byte, Octets
    <3>2. bytes = <<ReplyByte(seg[1])>> \o FlattenSeq(Recs(e, held))
      BY <1>6 DEF Told
    <3> QED BY ONLY <3>1, <3>2
  <2>3. bytes \in Seq(Octets)
    BY <1>6, AnswerTyped
  <2>4. Len(bytes) \in Nat
    BY <2>3
  <2>5. PICK f : /\ Cutting(f, bytes, asked)
                 /\ Slices(bytes, asked) \in {f[2], bad}
    BY <1>1, <2>4, SlicesAre
  <2>6. \A q \in asked : lengths[q] = Width[q]
    BY DEF asked
  <2>7. f[2] \in Good(e)
    <3>1. OneMode(asked) /\ Cutting(f, bytes, asked)
      BY <2>5 DEF asked
    <3> QED BY ONLY <1>1, <2>1, <2>2, <2>6, <3>1, CutsAre, lengths \in [Pids -> Nat], e \in Ecus
  <2> QED BY <2>5, <2>7 DEF Good
<1>7. bytes # <<>> /\ (Garbled(bytes) \/ bytes = Answer(e, seg))
  BY DEF Heard
<1>8. CASE \E held : Told(e, seg, held) /\ bytes = Answer(e, seg)
  BY <1>1, <1>6, <1>8
<1> QED BY <1>4, <1>5, <1>7, <1>8, AnswerIs

(* A pid that is asked for on its own has its own length observed.         *)
LEMMA ObservedTrue ==
  ASSUME NEW seg \in Seq(Pids), Len(seg) = 1, NEW payloads,
         \A e \in DOMAIN payloads : e \in Ecus /\ Heard(e, seg, payloads[e])
  PROVE  Observed(seg[1], payloads) \in {0, Width[seg[1]]}
<1>1. PICK p \in Pids : p = seg[1] /\ seg = Append(<<>>, p)
  <2>1. seg[1] \in Pids /\ seg = <<seg[1]>>
    OBVIOUS
  <2> QED BY <2>1
<1> DEFINE head == <<ReplyByte(p)>> \o Echo(p)
           echoing == {e \in DOMAIN payloads :
                         /\ Len(payloads[e]) > Len(head)
                         /\ As(UpTo(Len(head), payloads[e])) = As(head)}
           e == CHOOSE x \in echoing : TRUE
<1>2. Observed(p, payloads) = IF echoing = {} THEN 0 ELSE Len(payloads[e]) - Len(head)
  BY DEF Observed
<1> SUFFICES ASSUME echoing # {} PROVE Len(payloads[e]) - Len(head) = Width[p]
  BY <1>1, <1>2
<1>3. e \in echoing
  OBVIOUS
<1> HIDE DEF e
<1>4. PICK bytes : bytes = payloads[e]
  OBVIOUS
<1>5. /\ e \in Ecus /\ Heard(e, seg, bytes) /\ Len(bytes) > Len(head)
      /\ As(UpTo(Len(head), bytes)) = As(head)
  BY <1>3, <1>4
<1>6. Echo(p) \in Seq(Octets) /\ Len(Echo(p)) = Skip(p) /\ ReplyByte(p) \in Octets
  BY EchoIs DEF ReplyByte, Byte, Octets
<1>7. /\ head \in Seq(Octets) /\ Len(head) = 1 + Skip(p) /\ head[1] = ReplyByte(p)
      /\ Skip(p) \in 1 .. 2
  <2>1. head \in Seq(Octets) /\ Len(head) = 1 + Len(Echo(p)) /\ head[1] = ReplyByte(p)
    BY ONLY <1>6, Prefixed
  <2> QED BY <1>6, <2>1 DEF Skip
<1> HIDE DEF echoing, head
<1>8. ~Garbled(bytes)
  <2> SUFFICES ASSUME Garbled(bytes) PROVE FALSE
    OBVIOUS
  <2>1. PICK E : bytes \in Seq(E)
    BY DEF Garbled
  <2>2. PICK h \in Nat : h = Len(head) /\ h >= 1 /\ h <= Len(bytes)
    <3>1. Len(head) \in Nat /\ Len(head) >= 1
      BY <1>7
    <3> QED BY <1>5, <2>1, <3>1
  <2>3. UpTo(h, bytes) = SubSeq(bytes, 1, h)
    BY ONLY <2>1, <2>2, UpToIs
  <2>4. SubSeq(bytes, 1, h)[1] = bytes[1] /\ 1 \in DOMAIN SubSeq(bytes, 1, h)
    BY <2>1, <2>2
  <2>5. PICK u : u = UpTo(h, bytes)
    OBVIOUS
  <2>6. As(u)[1] = "pci"
    <3>1. u[1].as = "pci" /\ 1 \in DOMAIN u
      BY <2>3, <2>4, <2>5 DEF Garbled
    <3> QED BY <3>1 DEF As
  <2>7. As(head)[1] = ReplyByte(p).as
    <3>1. 1 \in DOMAIN head
      BY <1>7
    <3> QED BY <1>7, <3>1 DEF As
  <2>8. ReplyByte(p).as # "pci"
    BY DEF ReplyByte, Byte
  <2> QED BY <1>5, <2>2, <2>5, <2>6, <2>7, <2>8
<1>9. bytes = Answer(e, seg) /\ bytes # <<>>
  BY <1>5, <1>8 DEF Heard
<1>10. PICK held : Told(e, seg, held)
  <2>1. ~(Len(seg) > 1) /\ Answer(e, seg) # <<>>
    BY <1>9
  <2>2. \/ Answer(e, seg) = <<>>
        \/ Answer(e, seg) = <<Byte("7F", <<>>)>> /\ Len(seg) > 1
        \/ \E held : Told(e, seg, held)
    BY ONLY <1>5, AnswerIs, seg \in Seq(Pids)
  <2> QED BY ONLY <2>1, <2>2
<1>11. held = <<p>>
  <2>1. PICK S : held = Only(Append(<<>>, p), S)
    BY <1>1, <1>10 DEF Told
  <2>2. <<>> \in Seq(Pids)
    OBVIOUS
  <2>3. held = IF p \in S THEN Append(Only(<<>>, S), p) ELSE Only(<<>>, S)
    <3>1. PICK t : t = <<>> /\ t \in Seq(Pids)
      BY <2>2
    <3>2. t \in Seq(Pids)
      BY <3>1
    <3>3. Only(Append(t, p), S) = IF p \in S THEN Append(Only(t, S), p) ELSE Only(t, S)
      BY ONLY OnlyAppend, p \in Pids, t \in Seq(Pids)
    <3> QED BY ONLY <2>1, <3>1, <3>3
  <2>4. held # <<>>
    BY <1>10 DEF Told
  <2>5. Append(<<>>, p) = <<p>>
    OBVIOUS
  <2> QED BY <2>3, <2>4, <2>5, OnlyNone
<1>12. bytes = <<ReplyByte(p)>> \o Rec(e, p)
  <2>1. Rec(e, p) \in Seq(Octets)
    BY <1>5, RecIs
  <2>2. FlattenSeq(Recs(e, <<p>>)) = Rec(e, p)
    <3>1. Recs(e, <<p>>) = <<Rec(e, p)>>
      BY DEF Recs
    <3>2. <<Rec(e, p)>> = Append(<<>>, Rec(e, p)) /\ <<>> \in Seq(Seq(Octets))
      OBVIOUS
    <3>3. FlattenSeq(Append(<<>>, Rec(e, p))) = FlattenSeq(<<>>) \o Rec(e, p)
      BY ONLY <2>1, <3>2, FlatAppend
    <3>4. <<>> \o Rec(e, p) = Rec(e, p)
      BY <2>1
    <3> QED BY <3>1, <3>2, <3>3, <3>4, FlatEmpty
  <2> QED BY <1>1, <1>9, <1>10, <1>11, <2>2 DEF Told
<1>13. Len(bytes) = 1 + (Skip(p) + Width[p])
  <2>1. Rec(e, p) \in Seq(Octets) /\ Len(Rec(e, p)) = Skip(p) + Width[p]
    BY <1>5, RecIs
  <2>2. Len(<<ReplyByte(p)>> \o Rec(e, p)) = 1 + Len(Rec(e, p))
    BY ONLY <1>6, <2>1, Prefixed
  <2> QED BY <1>12, <2>1, <2>2
<1>14. Width[p] \in Nat
  BY <1>5, DataIs
<1> QED BY <1>4, <1>7, <1>13, <1>14

(* What a segment's reply comes to: it shows the bytes of no other pid or  *)
(* ECU, and it teaches no length but the vehicle's.                        *)
Verdicts == {"", "Refused", "Capable"}
Tells(out) ==
  /\ out.invalid \in SUBSET Pids /\ out.omitted \in SUBSET Pids /\ out.pair \in Verdicts
  /\ out.learned = <<>> \/ \E p \in Pids : out.learned = <<p, Width[p]>>
  /\ \A s \in out.shown : s.chunk /\ s.sound => s.data = DataOf(s.ecu, s.pid)

LEMMA NothingTells == Tells(Nothing)
  BY DEF Tells, Nothing, Verdicts

LEMMA SoloTells ==
  ASSUME NEW seg \in Seq(Pids), Len(seg) = 1, NEW payloads,
         \A e \in DOMAIN payloads : e \in Ecus /\ Heard(e, seg, payloads[e])
  PROVE  Tells(DemuxSolo(seg[1], payloads))
<1> DEFINE p == seg[1]
           all == {Shown(p, e, SubSeq(payloads[e], 1 + Len(Echo(p)) + 1, Len(payloads[e])),
                         FALSE, TRUE) : e \in DOMAIN payloads}
           learned == IF Observed(p, payloads) = 0 THEN <<>> ELSE <<p, Observed(p, payloads)>>
<1>1. DemuxSolo(p, payloads) = [Nothing EXCEPT !.shown = all, !.learned = learned]
  BY DEF DemuxSolo
<1>2. p \in Pids /\ Observed(p, payloads) \in {0, Width[p]}
  BY ObservedTrue
<1>3. learned = <<>> \/ \E q \in Pids : learned = <<q, Width[q]>>
  BY <1>2
<1>4. \A s \in all : ~s.chunk
  BY DEF Shown
<1> HIDE DEF all, learned, p
<1>5. /\ DemuxSolo(p, payloads).shown = all /\ DemuxSolo(p, payloads).learned = learned
      /\ DemuxSolo(p, payloads).invalid = {} /\ DemuxSolo(p, payloads).omitted = {}
      /\ DemuxSolo(p, payloads).pair = ""
  BY <1>1 DEF Nothing
<1> QED BY <1>3, <1>4, <1>5 DEF Tells, Verdicts, p

LEMMA ChunkTells ==
  ASSUME lengths \in [Pids -> Nat], NEW seg \in Seq(Pids), OneMode(Range(seg)), NEW payloads,
         \A e \in DOMAIN payloads : e \in Ecus /\ Heard(e, seg, payloads[e])
  PROVE  Tells(DemuxChunk(seg, payloads))
<1> DEFINE asked == ToSet(seg)
           known == \A p \in asked : lengths[p] > 0
           sound == \A p \in asked : lengths[p] = Width[p]
           cut == [e \in DOMAIN payloads |-> Slices(payloads[e], asked)]
           fine == known /\ \A e \in DOMAIN cut : cut[e].ok
           got == UNION {{Shown(g.pid, e, g.data, TRUE, sound) : g \in cut[e].got} :
                           e \in DOMAIN cut}
           pairs == seg[1] \in Mode22
           left == {p \in asked : \A g \in got : g.pid # p}
<1>1. asked = Range(seg) /\ asked \subseteq Pids
  BY DEF ToSet, Range
<1>2. \A s \in got : s.chunk /\ s.sound => s.data = DataOf(s.ecu, s.pid)
  <2> SUFFICES ASSUME NEW s \in got, s.sound PROVE s.data = DataOf(s.ecu, s.pid)
    OBVIOUS
  <2>1. PICK e \in DOMAIN payloads : s \in {Shown(g.pid, e, g.data, TRUE, sound) : g \in cut[e].got}
    OBVIOUS
  <2>2. PICK g \in Slices(payloads[e], asked).got : s = Shown(g.pid, e, g.data, TRUE, sound)
    BY <2>1
  <2>3. s.pid = g.pid /\ s.ecu = e /\ s.data = g.data /\ s.sound = sound
    BY <2>2 DEF Shown
  <2>4. sound
    BY <2>3
  <2>5. \A q \in Range(seg) : lengths[q] = Width[q]
    BY <1>1, <2>4
  <2>6. e \in Ecus /\ Heard(e, seg, payloads[e])
    BY <2>1
  <2>7. g.data = DataOf(e, g.pid)
    BY ONLY <2>2, <2>5, <2>6, SlicesTell, lengths \in [Pids -> Nat], seg \in Seq(Pids),
            OneMode(Range(seg))
  <2> QED BY <2>3, <2>7
<1>3. left \in SUBSET Pids
  BY <1>1
<1>4. DemuxChunk(seg, payloads) =
        IF known /\ payloads = <<>> THEN [Nothing EXCEPT !.pair = IF pairs THEN "Refused" ELSE ""]
        ELSE IF fine
        THEN [Nothing EXCEPT !.shown = got, !.pair = IF pairs THEN "Capable" ELSE "",
                             !.omitted = left]
        ELSE [Nothing EXCEPT !.pair = IF pairs THEN "Refused" ELSE "",
                             !.invalid = IF pairs THEN {} ELSE asked]
  BY DEF DemuxChunk
<1> HIDE DEF asked, known, fine, got, pairs, left
<1>5. Tells([Nothing EXCEPT !.pair = IF pairs THEN "Refused" ELSE ""])
  BY DEF Tells, Nothing, Verdicts
<1>6. Tells([Nothing EXCEPT !.shown = got, !.pair = IF pairs THEN "Capable" ELSE "",
                            !.omitted = left])
  BY <1>2, <1>3 DEF Tells, Nothing, Verdicts
<1>7. Tells([Nothing EXCEPT !.pair = IF pairs THEN "Refused" ELSE "",
                            !.invalid = IF pairs THEN {} ELSE asked])
  BY <1>1 DEF Tells, Nothing, Verdicts
<1> QED BY <1>4, <1>5, <1>6, <1>7

Segs == {s \in Seq(Pids) : Len(s) = 1 \/ OneMode(Range(s))}

LEMMA DemuxTells ==
  ASSUME lengths \in [Pids -> Nat], NEW seg \in Segs, NEW gone PROVE Tells(Demux(seg, gone))
<1> DEFINE payloads == Payloads(Lines(seg, gone))
<1>1. seg \in Seq(Pids) /\ (Len(seg) = 1 \/ OneMode(Range(seg)))
  BY DEF Segs
<1>2. \A e \in DOMAIN payloads : e \in Ecus /\ Heard(e, seg, payloads[e])
  BY ONLY <1>1, Hears
<1> HIDE DEF payloads
<1>3. CASE Len(seg) = 1
  <2>1. Tells(DemuxSolo(seg[1], payloads))
    BY ONLY <1>1, <1>2, <1>3, SoloTells
  <2> QED BY <1>3, <2>1 DEF Demux, payloads
<1>4. CASE Len(seg) # 1
  <2>1. Tells(DemuxChunk(seg, payloads))
    BY ONLY <1>1, <1>2, <1>4, ChunkTells, lengths \in [Pids -> Nat]
  <2> QED BY <1>4, <2>1 DEF Demux, payloads
<1> QED BY <1>3, <1>4

-----------------------------------------------------------------------------
(* What goes out on a wire: segments of one pid, or of pids of one mode.   *)
LEMMA PiecesAre ==
  ASSUME NEW E, NEW s \in Seq(E), NEW n \in Nat \ {0} PROVE Pieces(s, n) \in Seq(Seq(E))
<1> DEFINE m == (Len(s) + n - 1) \div n
<1>1. Len(s) \in Nat /\ Len(s) + n - 1 \in Nat
  OBVIOUS
<1>2. \A a \in Nat : a \div n \in Nat
  OBVIOUS
<1>3. m \in Nat
  BY <1>1, <1>2
<1> HIDE DEF m
<1>4. ASSUME NEW i \in 1 .. m
      PROVE  SubSeq(s, (i - 1) * n + 1, Min({i * n, Len(s)})) \in Seq(E)
  <2>1. i \in Nat /\ i - 1 \in Nat
    BY <1>3
  <2>2. \A a, b \in Nat : a * b \in Nat
    OBVIOUS
  <2>3. PICK a, b : a = (i - 1) * n + 1 /\ b = i * n /\ a \in Nat \ {0} /\ b \in Nat
    <3>1. (i - 1) * n \in Nat /\ i * n \in Nat
      BY <2>1, <2>2
    <3>2. PICK c \in Nat : c = (i - 1) * n
      BY <3>1
    <3> QED BY <3>1, <3>2
  <2>4. PICK c : c = Min({b, Len(s)}) /\ c \in Nat /\ c <= Len(s)
    BY <1>1, <2>3, MinTwo
  <2>5. SubSeq(s, a, c) \in Seq(E)
    <3>1. \A k \in a .. c : s[k] \in E
      BY <2>3, <2>4
    <3>2. a \in Int /\ c \in Int
      BY <2>3, <2>4
    <3> QED BY ONLY <3>1, <3>2, SubSeqProperties
  <2> QED BY <2>3, <2>4, <2>5
<1>5. Pieces(s, n) \in [1 .. m -> Seq(E)]
  BY <1>4 DEF Pieces, m
<1> QED BY ONLY <1>3, <1>5, Function

LEMMA SegsAre ==
  ASSUME NEW S, S \subseteq Mode01 \/ S \subseteq Mode22, NEW ss \in Seq(Seq(S))
  PROVE  ss \in Seq(Segs)
<1>1. ASSUME NEW s \in Seq(S) PROVE s \in Segs
  <2>1. \A x \in S : x \in Pids
    BY DEF Pids
  <2>2. s \in Seq(Pids)
    BY ONLY <2>1, s \in Seq(S), Wider
  <2>3. Range(s) \subseteq S
    BY DEF Range
  <2> QED BY <2>2, <2>3 DEF Segs, OneMode
<1> QED BY ONLY <1>1, ss \in Seq(Seq(S)), Wider

Policies == [segments : {1, PipeMax}, chunk : Nat \ {0}, chunk22 : Nat \ {0},
             excluded : SUBSET Pids]
Plugins == [pipes : {1, PipeMax}, chunk : 1 .. ChunkMax, excluded : SUBSET Pids,
            mode22 : {"Disabled", "Untried", "Capable", "Refused"}, cap22 : 1 .. PairMax]

LEMMA PolicyIs == ASSUME plugin \in Plugins PROVE Policy \in Policies
<1>1. /\ plugin.pipes \in {1, PipeMax} /\ plugin.chunk \in 1 .. ChunkMax
      /\ plugin.excluded \in SUBSET Pids /\ plugin.cap22 \in 1 .. PairMax
  BY DEF Plugins
<1>2. ChunkMax \in Nat /\ PairMax \in Nat \ {0}
  BY BatchAssumption
<1>3. Limit22(plugin) \in Nat \ {0}
  <2>1. Max({plugin.cap22, 1}) = plugin.cap22
    BY <1>1, <1>2, MaxTwo
  <2>2. Min({PairMax, plugin.cap22}) = plugin.cap22
    BY <1>1, <1>2, MinTwo
  <2>3. Limit22(plugin) \in {1, plugin.cap22}
    BY <2>1, <2>2 DEF Limit22
  <2> QED BY <1>1, <1>2, <2>3
<1>4. plugin.chunk \in Nat \ {0}
  BY <1>1, <1>2
<1> QED BY <1>1, <1>3, <1>4 DEF Policy, Policies

LEMMA GroupIs ==
  ASSUME NEW pol \in Policies, NEW picks \in Seq(Pids) PROVE Group(pol, picks) \in Seq(Segs)
<1> DEFINE fit == {p \in Pids : Chunkable(pol, p)}
           of(S) == Only(picks, fit \cap S)
           solos == Only(picks, Pids \ fit)
           ecus  == SetToSeq({Target[p] : p \in Mode22})
           plain == Pieces(of(Mode01), pol.chunk)
           per == [i \in DOMAIN ecus |->
                     Pieces(of({p \in Mode22 : Target[p] = ecus[i]}), pol.chunk22)]
           own == [i \in DOMAIN solos |-> <<solos[i]>>]
<1>1. pol.chunk \in Nat \ {0} /\ pol.chunk22 \in Nat \ {0}
  BY DEF Policies
<1>2. ASSUME NEW S, S \subseteq Mode01 \/ S \subseteq Mode22, NEW n \in Nat \ {0}
      PROVE  Pieces(of(S), n) \in Seq(Segs)
  <2>1. of(S) \in Seq(Pids \cap (fit \cap S))
    BY OnlyFold
  <2>2. PICK U : U = Pids \cap (fit \cap S)
    OBVIOUS
  <2>3. U \subseteq Mode01 \/ U \subseteq Mode22
    BY <1>2, <2>2
  <2> HIDE DEF of
  <2>4. Pieces(of(S), n) \in Seq(Seq(U))
    BY ONLY <2>1, <2>2, n \in Nat \ {0}, PiecesAre
  <2> QED BY ONLY <2>3, <2>4, SegsAre
<1>3. plain \in Seq(Segs)
  BY <1>1, <1>2
<1>4. FlattenSeq(per) \in Seq(Segs)
  <2>1. IsFiniteSet({Target[p] : p \in Mode22})
    <3>1. IsFiniteSet(Mode22)
      <4>1. Mode22 \subseteq Pids /\ IsFiniteSet(Pids)
        BY BatchAssumption DEF Pids
      <4> QED BY <4>1, FS_Subset
    <3> DEFINE f == [p \in Mode22 |-> Target[p]]
    <3>2. f \in Surjection(Mode22, {Target[p] : p \in Mode22})
      BY DEF Surjection
    <3> QED BY ONLY <3>1, <3>2, FS_Surjection
  <2>2. PICK D : ecus \in Seq(D)
    BY <2>1, Listed
  <2>3. \A i \in DOMAIN ecus : per[i] \in Seq(Segs)
    <3> SUFFICES ASSUME NEW i \in DOMAIN ecus PROVE per[i] \in Seq(Segs)
      OBVIOUS
    <3>1. per[i] = Pieces(of({p \in Mode22 : Target[p] = ecus[i]}), pol.chunk22)
      OBVIOUS
    <3>2. {p \in Mode22 : Target[p] = ecus[i]} \subseteq Mode22
      OBVIOUS
    <3> HIDE DEF per, of, ecus
    <3> QED BY <1>1, <1>2, <3>1, <3>2
  <2>4. Len(ecus) \in Nat /\ DOMAIN ecus = 1 .. Len(ecus)
    BY <2>2
  <2>5. DOMAIN per = 1 .. Len(ecus) /\ per = [i \in 1 .. Len(ecus) |-> per[i]]
    BY <2>4
  <2> HIDE DEF per, ecus
  <2>6. per \in [1 .. Len(ecus) -> Seq(Segs)]
    BY <2>3, <2>4, <2>5
  <2>7. per \in Seq(Seq(Segs))
    BY ONLY <2>4, <2>6, Function
  <2> QED BY <2>7, Flattened
<1>5. own \in Seq(Segs)
  <2>1. solos \in Seq(Pids \cap (Pids \ fit))
    BY OnlyFold
  <2>2. Pids \cap (Pids \ fit) \subseteq Pids
    OBVIOUS
  <2> HIDE DEF solos, fit
  <2>3. /\ Len(solos) \in Nat /\ DOMAIN solos = 1 .. Len(solos)
        /\ \A i \in DOMAIN solos : solos[i] \in Pids
    BY <2>1, <2>2
  <2>4. \A p \in Pids : <<p>> \in Segs
    <3>1. \A p \in Pids : <<p>> \in Seq(Pids) /\ Len(<<p>>) = 1
      OBVIOUS
    <3> QED BY <3>1 DEF Segs
  <2>5. own \in [1 .. Len(solos) -> Segs]
    BY <2>3, <2>4
  <2> QED BY ONLY <2>3, <2>5, Function
<1>6. Group(pol, picks) = plain \o FlattenSeq(per) \o own
  BY DEF Group
<1>7. PICK a, b, c : a = plain /\ b = FlattenSeq(per) /\ c = own
  OBVIOUS
<1>8. a \in Seq(Segs) /\ b \in Seq(Segs) /\ c \in Seq(Segs)
  BY <1>3, <1>4, <1>5, <1>7
<1>9. a \o b \o c \in Seq(Segs)
  BY ONLY <1>8
<1> QED BY <1>6, <1>7, <1>9

-----------------------------------------------------------------------------
(* The inductive invariant: the types, with what a wire may carry, and the *)
(* property itself.                                                        *)
BatchShape ==
  /\ lengths \in [Pids -> Nat] /\ plugin \in Plugins
  /\ phase \in {"init", "identify", "probe", "live"}
  /\ due \in Seq(Pids) /\ wires \in Seq(Seq(Segs)) /\ seen \in SUBSET Pids /\ car \in Cars
  /\ callback \in [pc : {"idle", "pick", "build"}, picks : Seq(Pids)]

BatchInv == BatchShape /\ BytesTrue

(* What apply_chunk_outcomes folds into the plugin leaves it a plugin.     *)
LEMMA JudgedIs ==
  ASSUME NEW pl \in Plugins, NEW out, Tells(out) PROVE Judged(Excluding(pl, out), out) \in Plugins
<1>1. out.omitted \in SUBSET Pids /\ out.pair \in Verdicts
  BY DEF Tells
<1>2. Excluding(pl, out) \in Plugins
  BY <1>1 DEF Excluding, Plugins
<1> QED BY <1>1, <1>2 DEF Judged, Plugins, Verdicts

LEMMA FoldJudged ==
  ASSUME NEW pl \in Plugins, NEW E, \A o \in E : Tells(o), NEW outs \in Seq(E)
  PROVE  FoldLeft(LAMBDA acc, out : Judged(Excluding(acc, out), out), pl, outs) \in Plugins
<1> DEFINE step == [x \in Plugins \X E |-> Judged(Excluding(x[1], x[2]), x[2])]
           Body(h) == [t \in SUBSET DOMAIN outs |->
                         IF t = {} THEN pl
                         ELSE Judged(Excluding(h[t \ {Max(t)}], outs[Max(t)]), outs[Max(t)])]
           iter == CHOOSE h : h = Body(h)
           res == FoldLeft(LAMBDA acc, out : Judged(Excluding(acc, out), out), pl, outs)
<1>1. res = iter[DOMAIN outs]
  BY DEF FoldLeft, MapThenFoldSet
<1>2. step \in [Plugins \X E -> Plugins]
  BY JudgedIs
<1> HIDE DEF step
<1>3. PICK g : Guides(g, Plugins, E, step, pl, outs)
  BY <1>2, FoldGiven
<1>4. ASSUME NEW t \in SUBSET DOMAIN outs
      PROVE  g[t] = IF t = {} THEN pl
                    ELSE Judged(Excluding(g[t \ {Max(t)}], outs[Max(t)]), outs[Max(t)])
  BY <1>3 DEF step, Guides
<1>5. g = Body(g)
  BY <1>3, <1>4 DEF Guides
<1>6. PICK h : h = Body(h) /\ res = h[DOMAIN outs]
  BY <1>1, <1>5
<1>7. Follows(h, g, Len(outs))
  <2>1. DOMAIN outs = 1 .. Len(outs)
    OBVIOUS
  <2>2. \A t \in SUBSET DOMAIN outs :
          h[t] = IF t = {} THEN pl
                 ELSE Judged(Excluding(h[t \ {Max(t)}], outs[Max(t)]), outs[Max(t)])
    BY <1>6
  <2> QED BY <1>4, <2>1, <2>2 DEF Follows
<1>8. h[DOMAIN outs] \in Plugins
  BY <1>3, <1>7 DEF Guides
<1> QED BY <1>6, <1>8

(* The wire that is answered, and what is left of the wires.               *)
LEMMA WireAhead ==
  ASSUME BatchInv, wires # <<>>
  PROVE  /\ Head(wires) \in Seq(Segs) /\ Tail(wires) \in Seq(Seq(Segs))
         /\ FlattenSeq(Head(wires)) \in Seq(Pids) /\ Len(Head(wires)) \in Nat
<1>1. Head(wires) \in Seq(Segs) /\ Tail(wires) \in Seq(Seq(Segs))
  BY DEF BatchInv, BatchShape
<1>2. \A s \in Segs : s \in Seq(Pids)
  BY DEF Segs
<1>3. Head(wires) \in Seq(Seq(Pids))
  BY ONLY <1>1, <1>2, Wider
<1> QED BY <1>1, <1>3, Flattened

LEMMA CompletesKeeps ==
  ASSUME BatchInv, wires # <<>>, NEW pl \in Plugins, NEW E, \A o \in E : Tells(o),
         NEW outs \in Seq(E), Completes(outs, pl)
  PROVE  BatchInv'
<1>1. /\ plugin' = FoldLeft(LAMBDA acc, out : Judged(Excluding(acc, out), out), pl, outs)
      /\ shown' = UNION {o.shown : o \in ToSet(outs)}
      /\ due' = due \o FlattenSeq(Head(wires)) /\ wires' = Tail(wires)
      /\ callback' = [callback EXCEPT !.pc = "pick"] /\ phase' = phase /\ car' = car
  BY DEF Completes
<1>2. ToSet(outs) \subseteq E
  BY DEF ToSet
<1> DEFINE learned == {o.learned : o \in ToSet(outs)} \ {<<>>}
           invalid == UNION {o.invalid : o \in ToSet(outs)}
<1>3. /\ lengths' = [p \in Pids |->
                      IF \E l \in learned : l[1] = p
                      THEN (CHOOSE l \in learned : l[1] = p)[2]
                      ELSE IF p \in invalid THEN 0 ELSE lengths[p]]
      /\ seen' = (seen \ invalid) \cup {l[1] : l \in learned}
  BY DEF Completes, Learn
<1>4. \A l \in learned : l[1] \in Pids /\ l[2] = Width[l[1]]
  <2> SUFFICES ASSUME NEW o \in ToSet(outs), o.learned # <<>>
               PROVE  o.learned[1] \in Pids /\ o.learned[2] = Width[o.learned[1]]
    OBVIOUS
  <2>1. PICK p \in Pids : o.learned = <<p, Width[p]>>
    BY <1>2 DEF Tells
  <2> QED BY <2>1
<1> HIDE DEF learned, invalid
<1>5. ASSUME NEW p \in Pids
      PROVE  /\ lengths'[p] \in Nat
             /\ p \in seen' => lengths'[p] = Width[p]
  <2>1. Width[p] \in Nat /\ lengths[p] \in Nat
    BY BatchAssumption DEF BatchInv, BatchShape
  <2>2. CASE \E l \in learned : l[1] = p
    <3>1. PICK l : l = CHOOSE k \in learned : k[1] = p
      OBVIOUS
    <3>2. l \in learned /\ l[1] = p
      BY <2>2, <3>1
    <3>3. lengths'[p] = l[2]
      BY <1>3, <2>2, <3>1
    <3> QED BY <1>4, <2>1, <3>2, <3>3
  <2>3. CASE ~(\E l \in learned : l[1] = p)
    <3>1. lengths'[p] = IF p \in invalid THEN 0 ELSE lengths[p]
      BY <1>3, <2>3
    <3>2. p \in seen' => p \in seen /\ p \notin invalid
      BY <1>3, <2>3
    <3> QED BY <2>1, <3>1, <3>2 DEF BatchInv, BytesTrue
  <2> QED BY <2>2, <2>3
<1>6. lengths' \in [Pids -> Nat]
  BY <1>3, <1>5
<1>7. seen' \in SUBSET Pids
  BY <1>3, <1>4 DEF BatchInv, BatchShape
<1>8. plugin' \in Plugins
  BY <1>1, FoldJudged
<1>9. /\ due' \in Seq(Pids) /\ wires' \in Seq(Seq(Segs)) /\ phase' = phase /\ car' \in Cars
      /\ callback' \in [pc : {"idle", "pick", "build"}, picks : Seq(Pids)]
  <2>1. FlattenSeq(Head(wires)) \in Seq(Pids) /\ Tail(wires) \in Seq(Seq(Segs)) /\ due \in Seq(Pids)
    BY WireAhead DEF BatchInv, BatchShape
  <2>2. due' \in Seq(Pids)
    <3>1. PICK v : v = FlattenSeq(Head(wires))
      OBVIOUS
    <3>2. due \o v \in Seq(Pids)
      BY <2>1, <3>1
    <3> QED BY <1>1, <3>1, <3>2
  <2>3. callback' \in [pc : {"idle", "pick", "build"}, picks : Seq(Pids)]
    BY <1>1 DEF BatchInv, BatchShape
  <2> QED BY <1>1, <2>1, <2>2, <2>3 DEF BatchInv, BatchShape
<1>10. ASSUME NEW s \in shown', s.chunk, s.sound PROVE s.data = DataOf(s.ecu, s.pid)'
  <2>1. PICK o \in ToSet(outs) : s \in o.shown
    BY <1>1
  <2>2. s.data = DataOf(s.ecu, s.pid)
    BY <1>2, <1>10, <2>1 DEF Tells
  <2> QED BY <1>1, <2>2 DEF DataOf, Byte
<1>11. BatchShape'
  BY <1>6, <1>7, <1>8, <1>9 DEF BatchInv, BatchShape, Segs, OneMode
<1>12. BytesTrue'
  BY <1>5, <1>7, <1>10 DEF BytesTrue
<1> QED BY <1>11, <1>12 DEF BatchInv

LEMMA ReplyKeeps ==
  ASSUME BatchInv, wires # <<>>, NEW n \in 0 .. Len(Head(wires)), NEW gone, Reply(n, gone)
  PROVE  BatchInv'
<1> DEFINE w == Head(wires)
           X(j) == {l[2] : l \in {x \in gone : x[1] = j}}
           outs == [j \in 1 .. n |-> Demux(w[j], X(j))]
           E == {outs[j] : j \in 1 .. n}
<1>1. Completes(outs, plugin)
  BY DEF Reply
<1>2. w \in Seq(Segs) /\ Len(w) \in Nat /\ n \in Nat
  BY WireAhead
<1>3. \A o \in E : Tells(o)
  <2> SUFFICES ASSUME NEW j \in 1 .. n PROVE Tells(outs[j])
    OBVIOUS
  <2>1. w[j] \in Segs
    BY <1>2
  <2>2. lengths \in [Pids -> Nat]
    BY DEF BatchInv, BatchShape
  <2>3. Tells(Demux(w[j], X(j)))
    BY ONLY <2>1, <2>2, DemuxTells
  <2> QED BY <2>3
<1>4. outs \in [1 .. n -> E]
  OBVIOUS
<1> HIDE DEF w, X, outs, E
<1>5. outs \in Seq(E)
  BY ONLY <1>2, <1>4, Function
<1>6. plugin \in Plugins
  BY DEF BatchInv, BatchShape
<1> QED BY <1>1, <1>3, <1>5, <1>6, CompletesKeeps

(* Where neither the lengths nor the values change, and the types hold on. *)
LEMMA TrueStill ==
  ASSUME BatchInv, UNCHANGED <<lengths, shown, seen, car>> PROVE BytesTrue'
  BY DEF BatchInv, BytesTrue, DataOf, Byte

LEMMA SweepIs ==
  ASSUME NEW pol \in Policies, due \in Seq(Pids), NEW picks \in Sweeps(pol)
  PROVE  picks \in Seq(Pids) /\ SubSeq(due, Len(picks) + 1, Len(due)) \in Seq(Pids)
<1>1. Len(due) \in Nat
  OBVIOUS
<1>2. pol.segments \in Int /\ pol.chunk \in Int /\ pol.chunk22 \in Int
  BY BatchAssumption DEF Policies
<1>3. MaxPicks(pol) \in Int
  <2>1. Max({pol.chunk, pol.chunk22}) \in Int
    BY <1>2, MaxTwo
  <2>2. \A a, b \in Int : a * b \in Int
    OBVIOUS
  <2> QED BY <1>2, <2>1, <2>2 DEF MaxPicks
<1>4. Max({MaxPicks(pol), 1}) \in Int
  BY <1>3, MaxTwo
<1>5. PICK m : m = Max({MaxPicks(pol), 1})
  OBVIOUS
<1>6. PICK k : k = Min({Len(due), m}) /\ k \in Int /\ k <= Len(due)
  <2>1. m \in Int
    BY <1>4, <1>5
  <2>2. Min({Len(due), m}) = IF Len(due) <= m THEN Len(due) ELSE m
    BY ONLY <1>1, <2>1, MinTwo
  <2> QED BY <1>1, <2>1, <2>2
<1>7. PICK n \in 1 .. k : picks = SubSeq(due, 1, n)
  BY <1>5, <1>6 DEF Sweeps
<1>8. n \in Nat /\ n <= Len(due)
  BY <1>6, <1>7
<1>9. picks \in Seq(Pids) /\ Len(picks) = n
  BY <1>8, <1>7
<1>10. SubSeq(due, n + 1, Len(due)) \in Seq(Pids)
  BY <1>1, <1>8
<1> QED BY <1>9, <1>10

LEMMA PicksKeeps == ASSUME BatchInv, Picks PROVE BatchInv'
<1>1. /\ callback.pc = "pick"
      /\ UNCHANGED <<lengths, plugin, phase, wires, car, shown, seen, budget>>
  BY DEF Picks
<1>2. BytesTrue'
  BY <1>1, TrueStill
<1>3. due \in Seq(Pids) /\ plugin \in Plugins
      /\ callback \in [pc : {"idle", "pick", "build"}, picks : Seq(Pids)]
  BY DEF BatchInv, BatchShape
<1>4. due' \in Seq(Pids) /\ callback' \in [pc : {"idle", "pick", "build"}, picks : Seq(Pids)]
  <2>1. CASE due = <<>>
    BY <1>3, <2>1 DEF Picks
  <2>2. CASE due # <<>>
    <3>1. PICK picks \in Sweeps(Policy) :
            /\ callback' = [pc |-> "build", picks |-> picks]
            /\ due' = SubSeq(due, Len(picks) + 1, Len(due))
      BY <2>2 DEF Picks
    <3>2. picks \in Seq(Pids) /\ SubSeq(due, Len(picks) + 1, Len(due)) \in Seq(Pids)
      BY <1>3, PolicyIs, SweepIs
    <3> QED BY <3>1, <3>2
  <2> QED BY <2>1, <2>2
<1> QED BY <1>1, <1>2, <1>4 DEF BatchInv, BatchShape, Segs, OneMode

LEMMA BuildKeeps == ASSUME BatchInv, Build PROVE BatchInv'
<1> DEFINE w == IF Len(callback.picks) = 1 THEN <<callback.picks>>
                ELSE Group(Policy, callback.picks)
<1>1. /\ wires' = Append(wires, w) /\ callback' = NoPicks
      /\ UNCHANGED <<lengths, plugin, phase, due, car, shown, seen, budget>>
  BY DEF Build
<1>2. BytesTrue'
  BY <1>1, TrueStill
<1>3. callback.picks \in Seq(Pids) /\ plugin \in Plugins /\ wires \in Seq(Seq(Segs))
  BY DEF BatchInv, BatchShape
<1>4. w \in Seq(Segs)
  <2>1. CASE Len(callback.picks) = 1
    <3>1. callback.picks \in Segs
      BY <1>3, <2>1 DEF Segs
    <3> QED BY <2>1, <3>1
  <2>2. CASE Len(callback.picks) # 1
    <3>1. Group(Policy, callback.picks) \in Seq(Segs)
      BY <1>3, PolicyIs, GroupIs
    <3> QED BY <2>2, <3>1
  <2> QED BY <2>1, <2>2
<1> HIDE DEF w
<1>5. wires' \in Seq(Seq(Segs))
  BY <1>1, <1>3, <1>4
<1>6. callback' \in [pc : {"idle", "pick", "build"}, picks : Seq(Pids)]
  BY <1>1 DEF NoPicks
<1> QED BY <1>1, <1>2, <1>5, <1>6 DEF BatchInv, BatchShape, Segs, OneMode

(* The connecting thread moves no value and no length that was learned.    *)
LEMMA ResetIs == Reset \in Plugins
  BY BatchAssumption DEF Reset, Plugins

LEMMA PluginKeeps ==
  ASSUME BatchInv, plugin' \in Plugins, phase' \in {"init", "identify", "probe", "live"},
         UNCHANGED <<lengths, seen, due, callback, wires, car, shown>>
  PROVE  BatchInv'
<1>1. BytesTrue'
  BY TrueStill
<1> QED BY <1>1 DEF BatchInv, BatchShape, Segs, OneMode

LEMMA ReconnectKeeps == ASSUME BatchInv, Reconnect PROVE BatchInv'
  BY ResetIs, PluginKeeps DEF Reconnect, Settled

LEMMA HandshakeKeeps == ASSUME BatchInv, Handshake PROVE BatchInv'
<1>1. PICK n \in {1, PipeMax} : plugin' = [plugin EXCEPT !.pipes = n]
  BY DEF Handshake
<1>2. plugin' \in Plugins
  BY <1>1 DEF BatchInv, BatchShape, Plugins
<1> QED BY <1>2, PluginKeeps DEF Handshake, Settled

LEMMA IdentifyKeeps == ASSUME BatchInv, Identify PROVE BatchInv'
<1>1. /\ lengths' = car.stored /\ seen' = {} /\ phase' = "probe"
      /\ UNCHANGED <<plugin, budget, due, callback, wires, car, shown>>
  BY DEF Identify, Settled
<1>2. lengths' \in [Pids -> Nat]
  BY <1>1, BatchAssumption DEF BatchInv, BatchShape
<1>3. BytesTrue'
  BY <1>1 DEF BatchInv, BytesTrue, DataOf, Byte
<1> QED BY <1>1, <1>2, <1>3 DEF BatchInv, BatchShape, Segs, OneMode

LEMMA ProbeKeeps == ASSUME BatchInv, Probe PROVE BatchInv'
<1>1. PICK capable \in BOOLEAN :
        plugin' = IF capable
                  THEN [plugin EXCEPT !.chunk = ChunkMax, !.cap22 = Min({@, ChunkMax}),
                                      !.mode22 = "Untried"]
                  ELSE [Reset EXCEPT !.pipes = plugin.pipes, !.mode22 = "Untried"]
  BY DEF Probe
<1>2. plugin \in Plugins /\ ChunkMax \in Nat \ {0} /\ PairMax \in Nat \ {0}
  BY BatchAssumption DEF BatchInv, BatchShape
<1>3. plugin.cap22 \in 1 .. PairMax /\ plugin.pipes \in {1, PipeMax}
  BY <1>2 DEF Plugins
<1>4. Min({plugin.cap22, ChunkMax}) \in 1 .. PairMax /\ ChunkMax \in 1 .. ChunkMax
  BY <1>2, <1>3, MinTwo
<1>5. plugin' \in Plugins
  <2>1. [plugin EXCEPT !.chunk = ChunkMax, !.cap22 = Min({@, ChunkMax}), !.mode22 = "Untried"]
          \in Plugins
    BY <1>2, <1>4 DEF Plugins
  <2>2. [Reset EXCEPT !.pipes = plugin.pipes, !.mode22 = "Untried"] \in Plugins
    BY <1>3, ResetIs DEF Plugins
  <2> QED BY <1>1, <2>1, <2>2
<1> QED BY <1>5, PluginKeeps DEF Probe, Settled

LEMMA SeedKeeps == ASSUME BatchInv, NEW p \in Pids, Seed(p) PROVE BatchInv'
<1>1. PICK n \in 1 .. Width[p] : lengths' = [lengths EXCEPT ![p] = n]
  BY DEF Seed
<1>2. lengths[p] = 0 /\ UNCHANGED <<plugin, phase, seen, due, callback, wires, car, shown>>
  BY DEF Seed, Settled
<1>3. Width[p] \in Nat \ {0} /\ n \in Nat /\ lengths \in [Pids -> Nat]
  BY BatchAssumption DEF BatchInv, BatchShape
<1>4. p \notin seen
  BY <1>2, <1>3 DEF BatchInv, BytesTrue
<1>5. \A q \in seen : lengths'[q] = Width[q]
  BY <1>1, <1>3, <1>4 DEF BatchInv, BatchShape, BytesTrue
<1>6. BytesTrue'
  BY <1>2, <1>5 DEF BatchInv, BytesTrue, DataOf, Byte
<1> QED BY <1>1, <1>2, <1>3, <1>6 DEF BatchInv, BatchShape, Segs, OneMode

LEMMA IntrudesKeeps == ASSUME BatchInv, Intrudes PROVE BatchInv'
<1>1. /\ callback' = [callback EXCEPT !.pc = "pick"]
      /\ UNCHANGED <<lengths, plugin, phase, due, wires, car, shown, seen>>
  BY DEF Intrudes
<1>2. BytesTrue'
  BY <1>1, TrueStill
<1> QED BY <1>1, <1>2 DEF BatchInv, BatchShape, Segs, OneMode

LEMMA ChunkFailsKeeps == ASSUME BatchInv, ChunkFails PROVE BatchInv'
<1>1. wires # <<>> /\ Completes(<<>>, Clamp(plugin))
  BY DEF ChunkFails, Awaited
<1>2. plugin \in Plugins /\ ChunkMax \in Nat \ {0} /\ PairMax \in Nat \ {0}
  BY BatchAssumption DEF BatchInv, BatchShape
<1>3. plugin.chunk \in 1 .. ChunkMax /\ plugin.cap22 \in 1 .. PairMax
  BY <1>2 DEF Plugins
<1>4. \A a, b \in Nat \ {0} : a \in 1 .. b => Max({a \div 2, 1}) \in 1 .. b
  <2> SUFFICES ASSUME NEW a \in Nat \ {0}, NEW b \in Nat \ {0}, a \in 1 .. b
               PROVE  Max({a \div 2, 1}) \in 1 .. b
    OBVIOUS
  <2>1. a \div 2 \in Int /\ a \div 2 <= a
    OBVIOUS
  <2>2. Max({a \div 2, 1}) = IF a \div 2 >= 1 THEN a \div 2 ELSE 1
    BY <2>1, MaxTwo
  <2> QED BY <2>1, <2>2
<1>5. Clamp(plugin) \in Plugins
  <2>1. /\ Max({plugin.chunk \div 2, 1}) \in 1 .. ChunkMax
        /\ Max({plugin.cap22 \div 2, 1}) \in 1 .. PairMax
    BY <1>2, <1>3, <1>4
  <2> QED BY <1>2, <2>1 DEF Clamp, Plugins
<1>6. <<>> \in Seq({}) /\ \A o \in {} : Tells(o)
  OBVIOUS
<1> QED BY <1>1, <1>5, <1>6, CompletesKeeps

(* Every step of the batches keeps the invariant.                          *)
LEMMA BatchStep == BatchInv /\ [BatchNext]_batchVars => BatchInv'
<1> SUFFICES ASSUME BatchInv, [BatchNext]_batchVars PROVE BatchInv'
  OBVIOUS
<1>1. CASE Answered
  <2>1. wires # <<>> /\ Reply(Len(Head(wires)), {})
    BY <1>1 DEF Answered, Awaited
  <2>2. Len(Head(wires)) \in 0 .. Len(Head(wires))
    BY <2>1, WireAhead
  <2> QED BY <2>1, <2>2, ReplyKeeps
<1>2. CASE LosesLine
  <2>1. wires # <<>>
    BY <1>2 DEF LosesLine, Awaited
  <2>2. PICK gone : Reply(Len(Head(wires)), gone)
    BY <1>2 DEF LosesLine
  <2>3. Len(Head(wires)) \in 0 .. Len(Head(wires))
    BY <2>1, WireAhead
  <2> QED BY <2>1, <2>2, <2>3, ReplyKeeps
<1>3. CASE LosesSegments
  <2>1. wires # <<>>
    BY <1>3 DEF LosesSegments, Awaited
  <2>2. PICK n \in 0 .. Len(Head(wires)) - 1 : Reply(n, {})
    BY <1>3 DEF LosesSegments
  <2>3. n \in 0 .. Len(Head(wires))
    BY <2>1, WireAhead
  <2> QED BY <2>1, <2>2, <2>3, ReplyKeeps
<1>4. CASE ChunkFails
  BY <1>4, ChunkFailsKeeps
<1>5. CASE Intrudes
  BY <1>5, IntrudesKeeps
<1>6. CASE Picking
  BY <1>6, PicksKeeps, BuildKeeps DEF Picking
<1>7. CASE Connecting
  BY <1>7, HandshakeKeeps, IdentifyKeeps, ProbeKeeps DEF Connecting
<1>8. CASE Reconnect
  BY <1>8, ReconnectKeeps
<1>9. ASSUME NEW p \in Pids, Seed(p) PROVE BatchInv'
  BY <1>9, SeedKeeps
<1>10. CASE UNCHANGED batchVars
  <2>1. UNCHANGED <<lengths, plugin, phase, due, callback, wires, car, shown, seen>>
    BY <1>10 DEF batchVars
  <2>2. BatchShape'
    BY <2>1 DEF BatchInv, BatchShape
  <2>3. BytesTrue'
    BY <2>1 DEF BatchInv, BytesTrue, DataOf
  <2> QED BY <2>2, <2>3 DEF BatchInv
<1> QED BY <1>1, <1>2, <1>3, <1>4, <1>5, <1>6, <1>7, <1>8, <1>9, <1>10 DEF BatchNext

LEMMA BatchStart == BatchInit => BatchInv
<1> SUFFICES ASSUME BatchInit PROVE BatchInv
  OBVIOUS
<1>1. due \in Seq(Pids)
  BY BatchAssumption, Listed DEF BatchInit
<1>2. lengths \in [Pids -> Nat] /\ plugin \in Plugins /\ phase = "init" /\ wires = <<>>
      /\ shown = {} /\ seen = {} /\ car \in Cars
  BY ResetIs DEF BatchInit
<1>3. callback \in [pc : {"idle", "pick", "build"}, picks : Seq(Pids)]
  <2>1. <<>> \in Seq(Pids) /\ callback = [pc |-> "pick", picks |-> <<>>]
    BY DEF BatchInit, NoPicks
  <2> QED BY <2>1
<1>4. wires \in Seq(Seq(Segs))
  BY <1>2
<1> QED BY <1>1, <1>2, <1>3, <1>4 DEF BatchInv, BatchShape, BytesTrue

(* Every value cut out of a shared reply is that pid's and that ECU's own, *)
(* if the lengths are the vehicle's, and every length learned is: for any  *)
(* pids, ECUs, widths, vehicles and limits, whatever lines are lost.       *)
THEOREM BatchKept == BatchSpec => [](BatchTypeOK /\ BytesTrue)
<1>1. BatchInv => BatchTypeOK /\ BytesTrue
  BY DEF BatchInv, BatchShape, BatchTypeOK, Plugins
<1> QED BY <1>1, BatchStart, BatchStep, PTL DEF BatchSpec

=============================================================================
