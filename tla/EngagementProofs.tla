-------------------------- MODULE EngagementProofs --------------------------
(***************************************************************************)
(* The engage ladder, for any subscriptions and cars and however many      *)
(* events: engage_pending stands for exactly one request, a stream and a   *)
(* monitor are never live together, nobody paused is forgotten, and once   *)
(* every thread is through the session is what it shows.                   *)
(***************************************************************************)
EXTENDS Engagement, FiniteSetTheorems, TLAPS

Ask(label) == IF label \in RequestPc THEN 1 ELSE 0
Climb == IF InLadder THEN 1 ELSE 0
Flag  == IF pending THEN 1 ELSE 0
Boxed == Queued("Engage")
EngagesIn(box) == {i \in 1 .. Len(box) : box[i] = "Engage"}

(* A stop that was asked for holds the teardown guard from its first step  *)
(* to its last; one the ladder runs on its own failure never does.         *)
Shape ==
  /\ DOMAIN pc = Thread /\ mailbox \in Seq(Messages) /\ pending \in BOOLEAN
  /\ teardowns \in {0, 1}
  /\ teardowns = 1 => pc["worker"] \in StopPc \cup StreamStopPc
  /\ pc["worker"] \in StreamStopPc => teardowns = 1

Inv == Shape /\ OneRequest

-----------------------------------------------------------------------------
(* Counting the askers and the queued requests.                            *)
LEMMA Threads ==
  /\ IsFiniteSet(Thread)
  /\ \A S \in SUBSET Thread : IsFiniteSet(S) /\ Cardinality(S) \in Nat
<1>1. IsFiniteSet({}) /\ IsFiniteSet({"worker"}) /\ IsFiniteSet({"worker", "host"})
      /\ IsFiniteSet({"worker", "host", "sniffer"})
  <2>1. IsFiniteSet({"worker"})
    BY FS_Singleton
  <2>2. IsFiniteSet({"worker"} \cup {"host"})
    BY <2>1, FS_AddElement
  <2>3. {"worker", "host"} = {"worker"} \cup {"host"}
    OBVIOUS
  <2>4. IsFiniteSet({"worker", "host"} \cup {"sniffer"})
    BY <2>2, <2>3, FS_AddElement
  <2>5. {"worker", "host", "sniffer"} = {"worker", "host"} \cup {"sniffer"}
    OBVIOUS
  <2> QED BY <2>1, <2>2, <2>3, <2>4, <2>5, FS_EmptySet
<1>2. Thread = {"worker", "host", "sniffer"} \cup {"watchdog"}
  BY DEF Thread
<1>3. IsFiniteSet(Thread)
  BY <1>1, <1>2, FS_AddElement
<1> QED BY <1>3, FS_Subset, FS_CardinalityType

LEMMA Asked ==
  ASSUME Shape, NEW t \in Thread, NEW label, pc' = [pc EXCEPT ![t] = label]
  PROVE  Cardinality(Asking)' = Cardinality(Asking) - Ask(pc[t]) + Ask(label)
<1>1. Asking \subseteq Thread /\ IsFiniteSet(Asking) /\ Cardinality(Asking) \in Nat
  BY Threads DEF Asking
<1>2. t \in Asking <=> pc[t] \in RequestPc
  BY DEF Asking
<1>3. Asking' = IF label \in RequestPc THEN Asking \cup {t} ELSE Asking \ {t}
  BY DEF Asking, Shape
<1>4. Cardinality(Asking \cup {t}) = IF t \in Asking THEN Cardinality(Asking)
                                     ELSE Cardinality(Asking) + 1
  BY <1>1, FS_AddElement
<1>5. Cardinality(Asking \ {t}) = IF t \in Asking THEN Cardinality(Asking) - 1
                                  ELSE Cardinality(Asking)
  BY <1>1, FS_RemoveElement
<1>6. CASE label \in RequestPc
  BY <1>1, <1>2, <1>3, <1>4, <1>6 DEF Ask
<1>7. CASE label \notin RequestPc
  BY <1>1, <1>2, <1>3, <1>5, <1>7 DEF Ask
<1> QED BY <1>6, <1>7

LEMMA Boxes ==
  ASSUME NEW box \in Seq(Messages)
  PROVE  /\ IsFiniteSet(EngagesIn(box)) /\ Cardinality(EngagesIn(box)) \in Nat
         /\ EngagesIn(box) \subseteq 1 .. Len(box)
<1>1. Len(box) \in Nat /\ IsFiniteSet(1 .. Len(box))
  BY FS_Interval
<1> QED BY <1>1, FS_Subset, FS_CardinalityType DEF EngagesIn

LEMMA Posted ==
  ASSUME NEW box \in Seq(Messages), NEW m \in Messages
  PROVE  Cardinality(EngagesIn(Append(box, m)))
           = Cardinality(EngagesIn(box)) + (IF m = "Engage" THEN 1 ELSE 0)
<1>1. IsFiniteSet(EngagesIn(box)) /\ Cardinality(EngagesIn(box)) \in Nat
      /\ EngagesIn(box) \subseteq 1 .. Len(box)
  BY Boxes
<1>2. Len(box) + 1 \notin EngagesIn(box)
  BY <1>1
<1>3. CASE m = "Engage"
  <2>1. EngagesIn(Append(box, m)) = EngagesIn(box) \cup {Len(box) + 1}
    BY <1>3 DEF EngagesIn
  <2> QED BY <1>1, <1>2, <1>3, <2>1, FS_AddElement
<1>4. CASE m # "Engage"
  <2>1. EngagesIn(Append(box, m)) = EngagesIn(box)
    BY <1>4 DEF EngagesIn
  <2> QED BY <1>1, <1>4, <2>1
<1> QED BY <1>3, <1>4

LEMMA Taken ==
  ASSUME NEW box \in Seq(Messages), box # <<>>
  PROVE  Cardinality(EngagesIn(box))
           = Cardinality(EngagesIn(Tail(box))) + (IF Head(box) = "Engage" THEN 1 ELSE 0)
<1> DEFINE S == EngagesIn(Tail(box))
           T == EngagesIn(box) \ {1}
           f == [i \in S |-> i + 1]
<1>1. Tail(box) \in Seq(Messages) /\ Len(Tail(box)) = Len(box) - 1 /\ Len(box) \in Nat \ {0}
  OBVIOUS
<1>2. \A i \in 1 .. Len(Tail(box)) : Tail(box)[i] = box[i + 1]
  OBVIOUS
<1>3. IsFiniteSet(S) /\ IsFiniteSet(EngagesIn(box)) /\ Cardinality(S) \in Nat
      /\ Cardinality(EngagesIn(box)) \in Nat
  BY <1>1, Boxes
<1>4. f \in Bijection(S, T)
  <2>1. \A i \in S : i \in 1 .. Len(box) - 1 /\ i + 1 \in T
    BY <1>1, <1>2 DEF EngagesIn
  <2>2. \A j \in T : j - 1 \in S /\ j = (j - 1) + 1
    BY <1>1, <1>2 DEF EngagesIn
  <2>3. \A i, j \in S : i + 1 = j + 1 => i = j
    BY <2>1
  <2> HIDE DEF S, T
  <2>4. f \in [S -> T]
    BY <2>1
  <2>5. \A j \in T : \E i \in S : f[i] = j
    BY <2>2
  <2>6. \A i, j \in S : f[i] = f[j] => i = j
    BY <2>3
  <2> HIDE DEF f
  <2> QED BY <2>4, <2>5, <2>6 DEF Bijection, Injection, IsInjective, Surjection
<1>5. Cardinality(T) = Cardinality(S)
  <2>1. ExistsBijection(S, T)
    BY <1>4 DEF ExistsBijection
  <2> QED BY <1>3, <2>1, FS_Bijection
<1>6. 1 \in EngagesIn(box) <=> Head(box) = "Engage"
  BY <1>1 DEF EngagesIn
<1>7. Cardinality(T) = IF 1 \in EngagesIn(box) THEN Cardinality(EngagesIn(box)) - 1
                       ELSE Cardinality(EngagesIn(box))
  BY <1>3, FS_RemoveElement
<1> HIDE DEF S, T
<1> QED BY <1>3, <1>5, <1>6, <1>7 DEF S

-----------------------------------------------------------------------------
(* What a step does to the two sides of OneRequest.                        *)
LEMMA Labels ==
  /\ LadderPc \cap (StopPc \cup StreamStopPc \cup RequestPc \cup {"idle"}) = {}
  /\ StopPc \cap (StreamStopPc \cup RequestPc \cup {"idle"}) = {}
  /\ StreamStopPc \cap (RequestPc \cup {"idle"}) = {}
  /\ RequestPc \cap (SniffPc \cup {"idle", "stopRead", "askStop", "pinRead"}) = {}
  /\ NextBeat \in LadderPc /\ SpRetry \in LadderPc
  BY DEF LadderPc, StopPc, StreamStopPc, RequestPc, SniffPc, NextBeat, SpRetry

LEMMA Ledger ==
  Shape => /\ Cardinality(Asking) \in Nat
           /\ Boxed = Cardinality(EngagesIn(mailbox)) /\ Boxed \in Nat
           /\ Climb \in {0, 1} /\ Flag \in {0, 1}
           /\ OneRequest <=> Cardinality(Asking) + Boxed + Climb = Flag
<1> SUFFICES ASSUME Shape
             PROVE  /\ Cardinality(Asking) \in Nat
                    /\ Boxed = Cardinality(EngagesIn(mailbox))
                    /\ Boxed \in Nat
                    /\ Climb \in {0, 1} /\ Flag \in {0, 1}
                    /\ OneRequest <=> Cardinality(Asking) + Boxed + Climb = Flag
  OBVIOUS
<1>1. Cardinality(Asking) \in Nat
  BY Threads DEF Asking
<1>2. Boxed = Cardinality(EngagesIn(mailbox))
  BY DEF Boxed, Queued, EngagesIn
<1>3. Boxed \in Nat
  BY <1>2, Boxes DEF Shape
<1> QED BY <1>1, <1>2, <1>3 DEF Boxed, Climb, Flag, OneRequest

LEMMA Balanced ==
  ASSUME Inv, Shape',
         Cardinality(Asking)' + Boxed' + Climb' - Flag'
           = Cardinality(Asking) + Boxed + Climb - Flag
  PROVE  Inv'
<1>1. /\ Cardinality(Asking) \in Nat /\ Boxed \in Nat
      /\ Climb \in {0, 1} /\ Flag \in {0, 1}
      /\ Cardinality(Asking) + Boxed + Climb = Flag
  BY Ledger DEF Inv
<1>2. (/\ Cardinality(Asking) \in Nat /\ Boxed \in Nat
       /\ Climb \in {0, 1} /\ Flag \in {0, 1}
       /\ OneRequest <=> Cardinality(Asking) + Boxed + Climb = Flag)'
  BY Ledger, PTL
<1>3. (Cardinality(Asking) + Boxed + Climb = Flag)'
  BY <1>1, <1>2
<1> QED BY <1>2, <1>3 DEF Inv

LEMMA Moved ==
  ASSUME Inv, Shape', NEW t \in Thread, NEW label, pc' = [pc EXCEPT ![t] = label],
         Ask(label) - Ask(pc[t]) + Boxed' - Boxed + Climb' - Climb
           = Flag' - Flag
  PROVE  Inv'
<1>1. Cardinality(Asking)' = Cardinality(Asking) - Ask(pc[t]) + Ask(label)
  BY Asked DEF Inv
<1>2. /\ Cardinality(Asking) \in Nat /\ Boxed \in Nat
      /\ Climb \in {0, 1} /\ Flag \in {0, 1} /\ Climb' \in {0, 1} /\ Flag' \in {0, 1}
      /\ Ask(pc[t]) \in {0, 1} /\ Ask(label) \in {0, 1}
  BY Ledger DEF Inv, Ask, Climb, Flag
<1>3. Boxed' \in Nat
  <2>1. (Shape => Boxed \in Nat)'
    BY Ledger, PTL
  <2> QED BY <2>1
<1>4. Cardinality(Asking)' + Boxed' + Climb' - Flag'
        = Cardinality(Asking) + Boxed + Climb - Flag
  BY <1>1, <1>2, <1>3
<1> QED BY <1>4, Balanced

LEMMA Stayed ==
  ASSUME Inv, Shape', NEW t \in Thread, NEW label, pc' = [pc EXCEPT ![t] = label],
         Boxed' = Boxed,
         Ask(label) - Ask(pc[t]) + Climb' - Climb = Flag' - Flag
  PROVE  Inv'
<1>1. /\ Climb \in {0, 1} /\ Flag \in {0, 1} /\ Climb' \in {0, 1} /\ Flag' \in {0, 1}
      /\ Ask(pc[t]) \in {0, 1} /\ Ask(label) \in {0, 1} /\ Boxed \in Nat
  BY Ledger DEF Inv, Ask, Climb, Flag
<1>2. Ask(label) - Ask(pc[t]) + Boxed' - Boxed + Climb' - Climb
        = Flag' - Flag
  BY <1>1
<1> QED BY <1>2, Moved

LEMMA Unmoved ==
  ASSUME Inv, UNCHANGED <<pc, pending>>, Boxed' = Boxed,
         mailbox' \in Seq(Messages),
         teardowns' = teardowns \/ (teardowns' = 0 /\ pc["worker"] = "idle")
  PROVE  Inv'
<1>1. Shape' /\ InLadder' = InLadder
  BY Labels DEF Inv, Shape, InLadder
<1>2. Cardinality(Asking)' = Cardinality(Asking) /\ UNCHANGED <<Climb, Flag>>
  BY <1>1 DEF Asking, Climb, Flag
<1> QED BY <1>1, <1>2, Balanced

(* The mailbox.                                                            *)
LEMMA Post ==
  ASSUME Shape, NEW m \in Messages, Send(m)
  PROVE  /\ mailbox' \in Seq(Messages)
         /\ Boxed' = Boxed + (IF m = "Engage" THEN 1 ELSE 0)
<1>1. mailbox' = Append(mailbox, m) /\ mailbox \in Seq(Messages)
  BY DEF Send, Shape
<1>2. Boxed' = Cardinality(EngagesIn(mailbox')) 
      /\ Boxed = Cardinality(EngagesIn(mailbox))
  BY DEF Boxed, Queued, EngagesIn
<1> QED BY <1>1, <1>2, Posted

LEMMA Fetch ==
  ASSUME Shape, mailbox # <<>>, mailbox' = Tail(mailbox)
  PROVE  /\ mailbox' \in Seq(Messages)
         /\ Boxed' = Boxed - (IF Head(mailbox) = "Engage" THEN 1 ELSE 0)
<1>1. mailbox \in Seq(Messages)
  BY DEF Shape
<1>2. Boxed' = Cardinality(EngagesIn(mailbox')) 
      /\ Boxed = Cardinality(EngagesIn(mailbox))
  BY DEF Boxed, Queued, EngagesIn
<1>3. mailbox' \in Seq(Messages)
  BY <1>1
<1>4. Cardinality(EngagesIn(mailbox')) \in Nat
  BY <1>3, Boxes
<1> QED BY <1>1, <1>2, <1>3, <1>4, Taken

(* A step of one thread that neither asks nor takes a request.             *)
LEMMA Quietly ==
  ASSUME Inv, NEW t \in Thread, NEW label, pc' = [pc EXCEPT ![t] = label],
         pc[t] \notin RequestPc, label \notin RequestPc, Shape',
         UNCHANGED <<mailbox, pending>>, InLadder' = InLadder
  PROVE  Inv'
<1>1. Ask(pc[t]) = 0 /\ Ask(label) = 0
  BY DEF Ask
<1>2. Boxed' = Boxed
  BY DEF Boxed, Queued
<1>3. Climb' = Climb /\ Flag' = Flag /\ Climb \in {0, 1} /\ Flag \in {0, 1}
  BY DEF Climb, Flag
<1>4. Ask(label) - Ask(pc[t]) + Climb' - Climb = Flag' - Flag
  BY <1>1, <1>3
<1> QED BY <1>2, <1>4, Stayed

(* The rest of the threads: they do not climb.                             *)
LEMMA Bystander ==
  ASSUME Inv, NEW t \in Thread \ {"worker"}, NEW label, pc' = [pc EXCEPT ![t] = label],
         pc[t] \notin RequestPc, label \notin RequestPc, UNCHANGED <<mailbox, pending, teardowns>>
  PROVE  Inv'
<1>1. pc'["worker"] = pc["worker"] /\ DOMAIN pc' = Thread
  BY DEF Inv, Shape
<1>2. Shape' /\ InLadder' = InLadder
  BY <1>1 DEF Inv, Shape, InLadder
<1> QED BY <1>2, Quietly

(* The worker on its way up, or down after a failed arm.                   *)
LEMMA Climbs ==
  ASSUME Inv, NEW label, pc["worker"] \in LadderPc, Goes("worker", label),
         label \in LadderPc \cup {"break"}, UNCHANGED <<mailbox, pending, teardowns>>
  PROVE  Inv'
<1>1. pc' = [pc EXCEPT !["worker"] = label] /\ "worker" \in Thread
  BY DEF Goes, Thread
<1>2. pc'["worker"] = label /\ DOMAIN pc' = Thread
  BY <1>1 DEF Inv, Shape
<1>3. teardowns = 0
  BY Labels DEF Inv, Shape
<1>4. label \notin RequestPc \cup StreamStopPc /\ (label \in LadderPc \/ label \in StopPc)
  BY Labels DEF StopPc
<1>5. Shape' /\ InLadder' = InLadder
  BY <1>2, <1>3, <1>4 DEF Inv, Shape, InLadder
<1> QED BY <1>1, <1>4, <1>5, Labels, Quietly

LEMMA Ends ==
  ASSUME Inv, pc["worker"] \in LadderPc, Done, UNCHANGED <<mailbox, teardowns>>
  PROVE  Inv'
<1>1. pc' = [pc EXCEPT !["worker"] = "idle"] /\ "worker" \in Thread /\ pending' = FALSE
  BY DEF Done, Goes, Thread
<1>2. pc'["worker"] = "idle" /\ DOMAIN pc' = Thread
  BY <1>1 DEF Inv, Shape
<1>3. teardowns = 0
  BY Labels DEF Inv, Shape
<1>4. "idle" \notin LadderPc \cup StopPc \cup StreamStopPc \cup RequestPc
  BY Labels
<1>5. Shape'
  <2>1. pending' \in BOOLEAN
    BY <1>1
  <2>2. mailbox' \in Seq(Messages) /\ teardowns' = 0
    BY <1>3 DEF Inv, Shape
  <2> QED BY <1>2, <1>4, <2>1, <2>2 DEF Shape
<1>6. Climb = 1 /\ Climb' = 0 /\ Flag' = 0
  BY <1>1, <1>2, <1>4 DEF Climb, Flag, InLadder
<1>7. Flag = 1
  BY <1>6, Ledger DEF Inv
<1>8. Boxed' = Boxed
  BY DEF Boxed, Queued
<1>9. Ask("idle") = 0 /\ Ask(pc["worker"]) = 0
  BY <1>4, Labels DEF Ask
<1>10. Ask("idle") - Ask(pc["worker"]) + Climb' - Climb = Flag' - Flag
  BY <1>6, <1>7, <1>9
<1> QED BY <1>1, <1>5, <1>8, <1>10, Stayed

(* Asking: refused, or the one who raises the flag is the request.         *)
LEMMA Asks ==
  ASSUME Inv, NEW t \in Thread, pc[t] \notin RequestPc, AskEngage(t), InLadder' <=> InLadder,
         mailbox' \in Seq(Messages), Boxed' = Boxed,
         teardowns' \in {0, 1}, t = "worker" => teardowns' = 0,
         t # "worker" => teardowns' = teardowns
  PROVE  Inv'
<1>1. PICK label \in {"idle", "swapped"} :
        /\ pc' = [pc EXCEPT ![t] = label]
        /\ label = "idle" => pending' = pending
        /\ label = "swapped" => pending' = TRUE /\ pending = FALSE
  BY DEF AskEngage, Goes, Inv, Shape
<1>2. pc'[t] = label /\ DOMAIN pc' = Thread /\ \A d \in Thread \ {t} : pc'[d] = pc[d]
  BY <1>1 DEF Inv, Shape
<1>3. label \notin StopPc \cup StreamStopPc \cup LadderPc /\ "worker" \in Thread
  BY <1>1 DEF StopPc, StreamStopPc, LadderPc, Thread
<1>4. pending' \in BOOLEAN
  BY <1>1 DEF Inv, Shape
<1>5. Shape'
  BY <1>2, <1>3, <1>4 DEF Inv, Shape
<1>6. Ask(label) = Flag' - Flag
  BY <1>1 DEF Ask, Flag, RequestPc
<1>7. Climb' = Climb /\ Climb \in {0, 1} /\ Ask(pc[t]) = 0 /\ Flag \in {0, 1}
      /\ Flag' \in {0, 1}
  BY DEF Climb, Ask, Flag
<1>8. Ask(label) - Ask(pc[t]) + Climb' - Climb = Flag' - Flag
  BY <1>6, <1>7
<1> QED BY <1>1, <1>5, <1>8, Stayed

-----------------------------------------------------------------------------
(* The actions.                                                            *)
LEMMA WorkerIsThread == "worker" \in Thread /\ "host" \in Thread /\ "sniffer" \in Thread
                        /\ "watchdog" \in Thread
  BY DEF Thread

LEMMA AsksOnInv ==
  ASSUME Inv, NEW t \in Thread, AskUncancels(t) \/ AskSends(t) PROVE Inv'
<1>0. t = "worker" => ~InLadder
  BY DEF AskUncancels, AskSends, Moves, At, InLadder, LadderPc, StopPc
<1>1. CASE AskUncancels(t)
  <2>1. /\ pc' = [pc EXCEPT ![t] = "uncancelled"] /\ pc[t] = "swapped"
        /\ UNCHANGED <<mailbox, pending, teardowns>>
    BY <1>1 DEF AskUncancels, Moves, Goes, At
  <2>2. DOMAIN pc' = Thread /\ pc'[t] = "uncancelled" /\ \A d \in Thread \ {t} : pc'[d] = pc[d]
    BY <2>1 DEF Inv, Shape
  <2>3. Shape' /\ InLadder' = InLadder
    BY <1>0, <2>1, <2>2, WorkerIsThread DEF Inv, Shape, InLadder, LadderPc, StopPc, StreamStopPc
  <2>4. Boxed' = Boxed
    BY <2>1 DEF Boxed, Queued
  <2>5. Ask("uncancelled") = 1 /\ Ask("swapped") = 1
    BY DEF Ask, RequestPc
  <2>6. Climb' = Climb /\ Flag' = Flag /\ Climb \in {0, 1} /\ Flag \in {0, 1}
    BY <2>1, <2>3 DEF Climb, Flag
  <2>7. Ask("uncancelled") - Ask(pc[t]) + Climb' - Climb = Flag' - Flag
    BY <2>1, <2>5, <2>6
  <2> QED BY <2>1, <2>3, <2>4, <2>7, Stayed
<1>2. CASE AskSends(t)
  <2>1. /\ pc' = [pc EXCEPT ![t] = "idle"] /\ pc[t] = "uncancelled" /\ UNCHANGED teardowns
    BY <1>2 DEF AskSends, Moves, Goes, At
  <2>2. DOMAIN pc' = Thread /\ pc'[t] = "idle" /\ \A d \in Thread \ {t} : pc'[d] = pc[d]
    BY <2>1 DEF Inv, Shape
  <2>3. InLadder' = InLadder /\ teardowns' \in {0, 1}
        /\ (teardowns' = 1 => pc'["worker"] \in StopPc \cup StreamStopPc)
        /\ (pc'["worker"] \in StreamStopPc => teardowns' = 1)
    BY <1>0, <2>1, <2>2, WorkerIsThread DEF Inv, Shape, InLadder, LadderPc, StopPc, StreamStopPc
  <2>4. Ask(pc[t]) = 1 /\ Ask("idle") = 0
    BY <2>1 DEF Ask, RequestPc
  <2>5. Climb' = Climb /\ Climb \in {0, 1} /\ Flag \in {0, 1} /\ Flag' \in {0, 1}
    BY <2>3 DEF Climb, Flag
  <2>6. Flag = 1
    <3>1. t \in Asking /\ IsFiniteSet(Asking)
      BY <2>1, Threads DEF Asking, RequestPc
    <3>2. Cardinality(Asking) # 0
      BY <3>1, FS_EmptySet
    <3>3. Cardinality(Asking) + Boxed + Climb = Flag
          /\ Cardinality(Asking) \in Nat /\ Boxed \in Nat
      BY Ledger DEF Inv
    <3> QED BY <2>5, <3>2, <3>3
  <2>7. CASE pinned
    <3>1. pending' = FALSE /\ UNCHANGED mailbox
      BY <1>2, <2>7 DEF AskSends
    <3>2. pending' \in BOOLEAN
      BY <3>1
    <3>3. Shape'
      BY <2>2, <2>3, <3>1, <3>2 DEF Inv, Shape
    <3>4. Boxed' = Boxed
      BY <3>1 DEF Boxed, Queued
    <3>5. Flag' = 0
      BY <3>1 DEF Flag
    <3>6. Ask("idle") - Ask(pc[t]) + Climb' - Climb = Flag' - Flag
      BY <2>4, <2>5, <2>6, <3>5
    <3> QED BY <2>1, <3>3, <3>4, <3>6, Stayed
  <2>8. CASE ~pinned
    <3>1. Send("Engage") /\ UNCHANGED pending
      BY <1>2, <2>8 DEF AskSends
    <3>2. mailbox' \in Seq(Messages) /\ Boxed' = Boxed + 1
      BY <3>1, Post DEF Inv, Messages
    <3>3. Shape'
      BY <2>2, <2>3, <3>1, <3>2 DEF Inv, Shape
    <3>4. Flag' = Flag
      BY <3>1 DEF Flag
    <3>5. Ask("idle") - Ask(pc[t]) + Boxed' - Boxed + Climb' - Climb
            = Flag' - Flag
      BY <2>4, <2>5, <3>2, <3>4, Ledger DEF Inv
    <3> QED BY <2>1, <3>3, <3>5, Moved
  <2> QED BY <2>7, <2>8
<1> QED BY <1>1, <1>2

(* The ladder takes a request over from the mailbox.                       *)
LEMMA TakeEngageInv == ASSUME Inv, TakeEngage PROVE Inv'
<1>1. /\ pc' = [pc EXCEPT !["worker"] = "beat"] /\ pc["worker"] = "idle"
      /\ mailbox # <<>> /\ Head(mailbox) = "Engage" /\ mailbox' = Tail(mailbox)
      /\ UNCHANGED <<pending, teardowns>>
  BY DEF TakeEngage, At, Goes, flagVars
<1>2. pc'["worker"] = "beat" /\ DOMAIN pc' = Thread
  BY <1>1, WorkerIsThread DEF Inv, Shape
<1>3. mailbox' \in Seq(Messages) /\ Boxed' = Boxed - 1
  BY <1>1, Fetch DEF Inv
<1>4. teardowns = 0 /\ "beat" \in LadderPc /\ "beat" \notin RequestPc /\ "idle" \notin RequestPc
  BY <1>1, Labels DEF Inv, Shape, LadderPc
<1>5. Shape'
  BY <1>1, <1>2, <1>3, <1>4, Labels DEF Inv, Shape
<1>6. Climb = 0 /\ Climb' = 1
  BY <1>1, <1>2, <1>4, Labels DEF Climb, InLadder
<1>7. Ask("beat") = 0 /\ Ask(pc["worker"]) = 0 /\ Flag' = Flag /\ Flag \in {0, 1}
  BY <1>1, <1>4 DEF Ask, Flag
<1>8. Ask("beat") - Ask(pc["worker"]) + Boxed' - Boxed + Climb' - Climb
        = Flag' - Flag
  BY <1>3, <1>6, <1>7, Ledger DEF Inv
<1> QED BY <1>1, <1>5, <1>8, WorkerIsThread, Moved

LEMMA LadderInv ==
  ASSUME Inv,
         \/ BeatBegins \/ Settles \/ Gates \/ Commit \/ Fallback \/ ResetPhase
         \/ UdsCheck \/ UdsQuiesce \/ UdsHeader \/ UdsSetup \/ UdsMonitor \/ UdsRecord
         \/ UdsHold \/ UdsArm \/ UdsFailed
  PROVE  Inv'
<1> USE DEF At, Moves, flagVars
<1>0. {"beat", "settle", "gates", "commit", "udsCheck", "udsQuiesce", "udsHeader", "udsSetup",
       "udsMonitor", "udsRecord", "udsHold", "udsArm", "failed", "spCheck", "fallback", "reset"}
        \subseteq LadderPc
      /\ NextBeat \in LadderPc
  BY Labels DEF LadderPc
<1>1. CASE BeatBegins
  BY <1>0, <1>1, Climbs, Ends DEF BeatBegins
<1>2. CASE Settles
  BY <1>0, <1>2, Climbs, Ends DEF Settles
<1>3. CASE Gates
  BY <1>0, <1>3, Climbs, Ends DEF Gates
<1>4. CASE Commit
  BY <1>0, <1>4, Climbs, Ends DEF Commit
<1>5. CASE Fallback
  BY <1>0, <1>5, Climbs DEF Fallback
<1>6. CASE ResetPhase
  BY <1>0, <1>6, Ends DEF ResetPhase
<1>7. CASE UdsCheck
  BY <1>0, <1>7, Climbs DEF UdsCheck
<1>8. CASE UdsQuiesce
  BY <1>0, <1>8, Climbs DEF UdsQuiesce
<1>9. CASE UdsHeader
  BY <1>0, <1>9, Climbs DEF UdsHeader
<1>10. CASE UdsSetup
  BY <1>0, <1>10, Climbs DEF UdsSetup
<1>11. CASE UdsMonitor
  BY <1>0, <1>11, Climbs DEF UdsMonitor
<1>12. CASE UdsRecord
  BY <1>0, <1>12, Climbs DEF UdsRecord
<1>13. CASE UdsHold
  BY <1>0, <1>13, Climbs DEF UdsHold
<1>14. CASE UdsArm
  BY <1>0, <1>14, Ends DEF UdsArm
<1>15. CASE UdsFailed
  BY <1>0, <1>15, Climbs DEF UdsFailed
<1> QED BY <1>1, <1>2, <1>3, <1>4, <1>5, <1>6, <1>7, <1>8, <1>9, <1>10, <1>11, <1>12,
           <1>13, <1>14, <1>15

LEMMA PeriodicInv ==
  ASSUME Inv,
         \/ SpCheck \/ SpQuiesce \/ SpStart \/ SpRecord \/ SpClocks \/ SpHold \/ SpArm \/ SpLive
  PROVE  Inv'
<1> USE DEF At, Moves, flagVars
<1>0. {"spCheck", "spQuiesce", "spStart", "spRecord", "spClocks", "spHold", "spArm", "spLive",
       "reset"} \subseteq LadderPc
      /\ SpRetry \in LadderPc
  BY Labels DEF LadderPc
<1>1. CASE SpCheck
  BY <1>0, <1>1, Climbs, Ends DEF SpCheck
<1>2. CASE SpQuiesce
  BY <1>0, <1>2, Climbs DEF SpQuiesce
<1>3. CASE SpStart
  BY <1>0, <1>3, Climbs DEF SpStart, SpAccepted, SpRefused
<1>4. CASE SpRecord
  BY <1>0, <1>4, Climbs DEF SpRecord
<1>5. CASE SpClocks
  BY <1>0, <1>5, Climbs DEF SpClocks
<1>6. CASE SpHold
  BY <1>0, <1>6, Climbs DEF SpHold
<1>7. CASE SpArm
  BY <1>0, <1>7, Climbs DEF SpArm
<1>8. CASE SpLive
  BY <1>0, <1>8, Climbs, Ends DEF SpLive
<1> QED BY <1>1, <1>2, <1>3, <1>4, <1>5, <1>6, <1>7, <1>8

(* A stop: the worker's own (the guard is held, or the ladder is still     *)
(* climbing) or the watchdog's.                                            *)
LEMMA StopsOn ==
  ASSUME Inv, NEW t \in Thread, NEW label \in StopPc \cup StreamStopPc,
         pc[t] \in StopPc \cup StreamStopPc, pc[t] \in StopPc => label \in StopPc, Goes(t, label),
         UNCHANGED <<mailbox, pending, teardowns>>
  PROVE  Inv'
<1>1. pc' = [pc EXCEPT ![t] = label] /\ pc[t] \notin RequestPc /\ label \notin RequestPc
  BY Labels DEF Goes
<1>2. DOMAIN pc' = Thread /\ pc'[t] = label /\ \A d \in Thread \ {t} : pc'[d] = pc[d]
  BY <1>1 DEF Inv, Shape
<1>3. CASE t = "worker"
  <2>1. Shape'
    BY <1>2, <1>3, Labels DEF Inv, Shape
  <2>2. InLadder' = InLadder
    BY <1>2, <1>3, Labels DEF Inv, Shape, InLadder
  <2> QED BY <1>1, <2>1, <2>2, Quietly
<1>4. CASE t # "worker"
  BY <1>1, <1>4, Bystander
<1> QED BY <1>3, <1>4

LEMMA StopInv ==
  ASSUME Inv,
         \/ StreamBreak \/ StreamTake \/ StreamRestore
         \/ \E t \in {"worker", "watchdog"} : Break(t) \/ Take(t) \/ Release(t) \/ Restore(t)
  PROVE  Inv'
<1> USE DEF At, Moves, flagVars
<1>0. {"break", "take", "release", "teardown", "stopped"} \subseteq StopPc
      /\ {"streamBreak", "streamTake", "streamRestore"} \subseteq StreamStopPc
      /\ StopPc \cap StreamStopPc = {} /\ "worker" \in Thread /\ "watchdog" \in Thread
  BY Labels DEF StopPc, StreamStopPc, Thread
<1>1. CASE StreamBreak
  BY <1>0, <1>1, StopsOn DEF StreamBreak
<1>2. CASE StreamTake
  BY <1>0, <1>2, StopsOn DEF StreamTake
<1>3. CASE StreamRestore
  BY <1>0, <1>3, StopsOn DEF StreamRestore
<1>4. ASSUME NEW t \in {"worker", "watchdog"}, Break(t) PROVE Inv'
  BY <1>0, <1>4, StopsOn DEF Break
<1>5. ASSUME NEW t \in {"worker", "watchdog"}, Take(t) PROVE Inv'
  BY <1>0, <1>5, StopsOn DEF Take
<1>6. ASSUME NEW t \in {"worker", "watchdog"}, Release(t) PROVE Inv'
  BY <1>0, <1>6, StopsOn DEF Release
<1>7. ASSUME NEW t \in {"worker", "watchdog"}, Restore(t) PROVE Inv'
  BY <1>0, <1>7, StopsOn DEF Restore
<1> QED BY <1>1, <1>2, <1>3, <1>4, <1>5, <1>6, <1>7

(* The worker takes a message that is no request.                          *)
LEMMA Fetched ==
  ASSUME Inv, mailbox # <<>>, mailbox' = Tail(mailbox), Head(mailbox) # "Engage"
  PROVE  mailbox' \in Seq(Messages) /\ Boxed' = Boxed
<1>1. mailbox' \in Seq(Messages) /\ Boxed' = Boxed - 0
  BY Fetch DEF Inv
<1> QED BY <1>1, Ledger DEF Inv

LEMMA TakeStopInv == ASSUME Inv, TakeStop PROVE Inv'
<1>1. /\ pc["worker"] = "idle" /\ mailbox # <<>> /\ Head(mailbox) # "Engage"
      /\ mailbox' = Tail(mailbox)
  BY DEF TakeStop, At
<1>2. mailbox' \in Seq(Messages) /\ Boxed' = Boxed
  BY <1>1, Fetched
<1>3. teardowns = 0 /\ ~InLadder /\ "idle" \notin RequestPc
  BY <1>1, Labels DEF Inv, Shape, InLadder
<1>4. CASE stream.live \/ periodic.live
  <2>1. PICK label \in {"streamBreak", "break"} : Goes("worker", label)
    BY <1>4 DEF TakeStop
  <2>2. teardowns' = 1 /\ UNCHANGED pending
    BY <1>3, <1>4 DEF TakeStop
  <2>3. label \in StopPc \cup StreamStopPc /\ label \notin RequestPc \cup LadderPc
    BY Labels DEF StopPc, StreamStopPc
  <2>4. pc' = [pc EXCEPT !["worker"] = label] /\ pc'["worker"] = label /\ DOMAIN pc' = Thread
    BY <2>1, WorkerIsThread DEF Goes, Inv, Shape
  <2>5. Shape' /\ ~InLadder'
    BY <1>2, <2>2, <2>3, <2>4 DEF Inv, Shape, InLadder
  <2>6. Ask(label) - Ask(pc["worker"]) + Climb' - Climb = Flag' - Flag
    BY <1>1, <1>3, <2>2, <2>3, <2>5 DEF Ask, Climb, Flag
  <2> QED BY <1>2, <2>4, <2>5, <2>6, WorkerIsThread, Stayed
<1>5. CASE ~(stream.live \/ periodic.live)
  <2>1. UNCHANGED teardowns
    BY <1>5 DEF TakeStop
  <2>2. CASE reengage'
    <3>1. AskEngage("worker")
      BY <1>5, <2>2 DEF TakeStop
    <3>2. pc'["worker"] \in {"idle", "swapped"}
      BY <3>1, WorkerIsThread DEF AskEngage, Goes, Inv, Shape
    <3>3. ~InLadder'
      BY <3>2 DEF InLadder, LadderPc, StopPc
    <3> QED BY <1>1, <1>2, <1>3, <2>1, <3>1, <3>3, WorkerIsThread, Asks
  <2>3. CASE ~reengage'
    <3>1. Goes("worker", "idle") /\ UNCHANGED pending
      BY <1>5, <2>3 DEF TakeStop
    <3>2. pc' = [pc EXCEPT !["worker"] = "idle"] /\ pc'["worker"] = "idle" /\ DOMAIN pc' = Thread
      BY <3>1, WorkerIsThread DEF Goes, Inv, Shape
    <3>3. Shape' /\ ~InLadder'
      BY <1>2, <1>3, <2>1, <3>1, <3>2, Labels DEF Inv, Shape, InLadder
    <3>4. Ask("idle") - Ask(pc["worker"]) + Climb' - Climb = Flag' - Flag
      BY <1>1, <1>3, <3>1, <3>3 DEF Ask, Climb, Flag
    <3> QED BY <1>2, <3>2, <3>3, <3>4, WorkerIsThread, Stayed
  <2> QED BY <2>2, <2>3
<1> QED BY <1>4, <1>5

(* The end of a stop: back to the ladder whose arm failed, or to the       *)
(* mailbox, with or without a new request.                                 *)
LEMMA WorkerStoppedInv == ASSUME Inv, WorkerStopped PROVE Inv'
<1>1. /\ pc["worker"] = "stopped" /\ teardowns' = 0 /\ UNCHANGED mailbox
      /\ "stopped" \in StopPc /\ "stopped" \notin RequestPc /\ "idle" \notin RequestPc
  BY Labels DEF WorkerStopped, At, StopPc
<1>2. Boxed' = Boxed /\ mailbox' \in Seq(Messages)
  BY <1>1 DEF Boxed, Queued, Inv, Shape
<1>3. CASE teardowns = 0
  <2>1. Goes("worker", SpRetry) /\ UNCHANGED pending /\ SpRetry \in LadderPc
    BY <1>3, Labels DEF WorkerStopped
  <2>2. pc' = [pc EXCEPT !["worker"] = SpRetry] /\ pc'["worker"] = SpRetry /\ DOMAIN pc' = Thread
    BY <2>1, WorkerIsThread DEF Goes, Inv, Shape
  <2>3. Shape' /\ InLadder' = InLadder /\ SpRetry \notin RequestPc
    BY <1>1, <1>2, <1>3, <2>1, <2>2, Labels DEF Inv, Shape, InLadder
  <2> QED BY <1>1, <2>1, <2>2, <2>3, WorkerIsThread, Quietly
<1>4. CASE teardowns # 0
  <2>1. ~InLadder
    BY <1>1, <1>4, Labels DEF InLadder
  <2>2. CASE reengage
    <3>1. AskEngage("worker")
      BY <1>4, <2>2 DEF WorkerStopped
    <3>2. pc'["worker"] \in {"idle", "swapped"}
      BY <3>1, WorkerIsThread DEF AskEngage, Goes, Inv, Shape
    <3>3. ~InLadder'
      BY <3>2 DEF InLadder, LadderPc, StopPc
    <3> QED BY <1>1, <1>2, <2>1, <3>1, <3>3, WorkerIsThread, Asks
  <2>3. CASE ~reengage
    <3>1. Goes("worker", "idle") /\ UNCHANGED pending
      BY <1>4, <2>3 DEF WorkerStopped
    <3>2. pc' = [pc EXCEPT !["worker"] = "idle"] /\ pc'["worker"] = "idle" /\ DOMAIN pc' = Thread
      BY <3>1, WorkerIsThread DEF Goes, Inv, Shape
    <3>3. Shape' /\ InLadder' = InLadder
      BY <1>1, <1>2, <2>1, <3>1, <3>2, Labels DEF Inv, Shape, InLadder
    <3> QED BY <1>1, <3>1, <3>2, <3>3, WorkerIsThread, Quietly
  <2> QED BY <2>2, <2>3
<1> QED BY <1>3, <1>4

(* The end of the session.                                                 *)
LEMMA EndInv ==
  ASSUME Inv, TakeDrop \/ TakeDisconnect \/ LinkBreaks \/ HostDisconnects PROVE Inv'
<1>1. CASE TakeDrop
  <2>1. /\ pc["worker"] = "idle" /\ mailbox # <<>> /\ Head(mailbox) # "Engage"
        /\ mailbox' = Tail(mailbox) /\ teardowns' = 0 /\ UNCHANGED <<pc, pending>>
    BY <1>1 DEF TakeDrop, At
  <2>2. mailbox' \in Seq(Messages) /\ Boxed' = Boxed
    BY <2>1, Fetched
  <2> QED BY <2>1, <2>2, Unmoved
<1>2. CASE TakeDisconnect
  <2>1. /\ pc["worker"] = "idle" /\ mailbox # <<>> /\ Head(mailbox) # "Engage"
        /\ UNCHANGED <<pc, pending, teardowns>>
        /\ mailbox' \in {Tail(mailbox), Append(Tail(mailbox), "Drop")}
    BY <1>2 DEF TakeDisconnect, At, flagVars
  <2>2. CASE mailbox' = Tail(mailbox)
    <3>1. mailbox' \in Seq(Messages) /\ Boxed' = Boxed
      BY <2>1, <2>2, Fetched
    <3> QED BY <2>1, <3>1, Unmoved
  <2>3. CASE mailbox' = Append(Tail(mailbox), "Drop")
    <3>1. mailbox \in Seq(Messages) /\ Tail(mailbox) \in Seq(Messages) /\ "Drop" \in Messages
      BY <2>1 DEF Inv, Shape, Messages
    <3>2. mailbox' \in Seq(Messages)
      BY <2>3, <3>1
    <3>3. /\ Boxed' = Cardinality(EngagesIn(mailbox'))
          /\ Boxed = Cardinality(EngagesIn(mailbox))
      BY DEF Boxed, Queued, EngagesIn
    <3>4. /\ Cardinality(EngagesIn(mailbox')) = Cardinality(EngagesIn(Tail(mailbox))) + 0
          /\ Cardinality(EngagesIn(mailbox)) = Cardinality(EngagesIn(Tail(mailbox))) + 0
          /\ Cardinality(EngagesIn(Tail(mailbox))) \in Nat
      BY <2>1, <2>3, <3>1, Posted, Taken, Boxes
    <3> QED BY <2>1, <3>2, <3>3, <3>4, Unmoved
  <2> QED BY <2>1, <2>2, <2>3
<1>3. CASE LinkBreaks
  <2>1. Send("Drop") /\ UNCHANGED <<pc, pending, teardowns>>
    BY <1>3 DEF LinkBreaks, flagVars
  <2>2. mailbox' \in Seq(Messages) /\ Boxed' = Boxed + 0
    BY <2>1, Post DEF Inv, Messages
  <2> QED BY <2>1, <2>2, Ledger, Unmoved DEF Inv
<1>4. CASE HostDisconnects
  <2>1. Send("Disconnect") /\ UNCHANGED <<pc, pending, teardowns>>
    BY <1>4 DEF HostDisconnects, flagVars
  <2>2. mailbox' \in Seq(Messages) /\ Boxed' = Boxed + 0
    BY <2>1, Post DEF Inv, Messages
  <2> QED BY <2>1, <2>2, Ledger, Unmoved DEF Inv
<1> QED BY <1>1, <1>2, <1>3, <1>4

(* Everybody but the worker asks, posts or passes.                         *)
LEMMA AsksAside ==
  ASSUME Inv, NEW t \in Thread \ {"worker"}, pc[t] \notin RequestPc, AskEngage(t),
         UNCHANGED <<mailbox, teardowns>>
  PROVE  Inv'
<1>1. pc'["worker"] = pc["worker"]
  BY WorkerIsThread DEF AskEngage, Goes, Inv, Shape
<1>2. InLadder' <=> InLadder
  BY <1>1 DEF InLadder
<1>3. mailbox' \in Seq(Messages) /\ Boxed' = Boxed /\ teardowns' \in {0, 1}
  BY DEF Boxed, Queued, Inv, Shape
<1> QED BY <1>2, <1>3, Asks

LEMMA HostInv ==
  ASSUME Inv,
         \/ \E s \in Subs : HostStarts(s) \/ HostPauses(s) \/ HostCancels(s)
         \/ HostRequestsStop \/ HostPins \/ HostUnpins \/ HostAsksStop \/ PinReads
  PROVE  Inv'
<1> USE DEF At, HostCalls
<1>0. /\ {"idle", "askStop", "pinRead"} \cap RequestPc = {}
      /\ "host" \in Thread \ {"worker"}
  BY Labels, WorkerIsThread
<1>1. ASSUME NEW s \in Subs, HostStarts(s) PROVE Inv'
  <2>1. pc["host"] = "idle" /\ AskEngage("host") /\ UNCHANGED <<mailbox, teardowns>>
    BY <1>1 DEF HostStarts
  <2> QED BY <1>0, <2>1, AsksAside
<1>2. ASSUME NEW s \in Subs, HostPauses(s) PROVE Inv'
  <2>1. PICK label \in {"askStop", "idle"} : pc' = [pc EXCEPT !["host"] = label]
    BY <1>2 DEF HostPauses, Goes
  <2>2. pc["host"] = "idle" /\ UNCHANGED <<mailbox, pending, teardowns>>
    BY <1>2 DEF HostPauses, flagVars
  <2> QED BY <1>0, <2>1, <2>2, Bystander
<1>3. ASSUME NEW s \in Subs, HostCancels(s) PROVE Inv'
  <2>1. PICK label \in {"askStop", "idle"} : pc' = [pc EXCEPT !["host"] = label]
    BY <1>3 DEF HostCancels, Goes
  <2>2. pc["host"] = "idle" /\ UNCHANGED <<mailbox, pending, teardowns>>
    BY <1>3 DEF HostCancels, flagVars
  <2> QED BY <1>0, <2>1, <2>2, Bystander
<1>4. CASE HostRequestsStop
  <2>1. PICK m \in {"Stop", "StopReengage"} :
          Send(m) /\ UNCHANGED <<pc, pending, teardowns>>
    BY <1>4 DEF HostRequestsStop, flagVars
  <2>2. mailbox' \in Seq(Messages) /\ Boxed' = Boxed + 0
    BY <2>1, Post DEF Inv, Messages
  <2> QED BY <2>1, <2>2, Ledger, Unmoved DEF Inv
<1>5. CASE HostPins
  BY <1>0, <1>5, Bystander DEF HostPins, Goes
<1>6. CASE HostUnpins
  <2>1. pc["host"] = "idle" /\ AskEngage("host") /\ UNCHANGED <<mailbox, teardowns>>
    BY <1>6 DEF HostUnpins
  <2> QED BY <1>0, <2>1, AsksAside
<1>7. CASE HostAsksStop
  <2>1. /\ pc["host"] = "askStop" /\ pc' = [pc EXCEPT !["host"] = "idle"] /\ Send("Stop")
        /\ UNCHANGED <<pending, teardowns>>
    BY <1>7 DEF HostAsksStop, Moves, Goes, flagVars
  <2>2. mailbox' \in Seq(Messages) /\ Boxed' = Boxed + 0
    BY <2>1, Post DEF Inv, Messages
  <2>3. Boxed' = Boxed
    BY <2>2, Ledger DEF Inv
  <2>4. pc'["worker"] = pc["worker"] /\ DOMAIN pc' = Thread
    BY <1>0, <2>1, WorkerIsThread DEF Inv, Shape
  <2>5. Shape' /\ Climb' = Climb /\ Flag' = Flag
    BY <2>1, <2>2, <2>4 DEF Inv, Shape, Climb, Flag, InLadder
  <2>6. Ask("idle") - Ask(pc["host"]) + Climb' - Climb = Flag' - Flag
    BY <1>0, <2>1, <2>5 DEF Ask, Climb, Flag
  <2> QED BY <1>0, <2>1, <2>3, <2>5, <2>6, Stayed
<1>8. CASE PinReads
  <2>1. PICK label \in {"askStop", "idle"} : pc' = [pc EXCEPT !["host"] = label]
    BY <1>8 DEF PinReads, Moves, Goes
  <2>2. pc["host"] = "pinRead" /\ UNCHANGED <<mailbox, pending, teardowns>>
    BY <1>8 DEF PinReads, Moves, flagVars
  <2> QED BY <1>0, <2>1, <2>2, Bystander
<1> QED BY <1>1, <1>2, <1>3, <1>4, <1>5, <1>6, <1>7, <1>8

LEMMA SniffInv ==
  ASSUME Inv,
         \/ SniffStarts \/ SniffWaits \/ SniffPauses \/ SniffNotes \/ SniffMonitors
         \/ SniffLeaves \/ SniffReturns
  PROVE  Inv'
<1> USE DEF At, Moves, Goes, flagVars
<1>0. /\ {"idle", "wait", "pause", "note", "monitor", "sniffing", "return"} \cap RequestPc = {}
      /\ "sniffer" \in Thread \ {"worker"}
  BY Labels, WorkerIsThread DEF SniffPc
<1>1. CASE SniffStarts
  <2>1. PICK label \in {"idle", "wait"} : pc' = [pc EXCEPT !["sniffer"] = label]
    BY <1>1 DEF SniffStarts
  <2>2. pc["sniffer"] = "idle" /\ UNCHANGED <<mailbox, pending, teardowns>>
    BY <1>1 DEF SniffStarts
  <2> QED BY <1>0, <2>1, <2>2, Bystander
<1>2. CASE SniffWaits
  <2>1. PICK label \in {"idle", "pause"} : pc' = [pc EXCEPT !["sniffer"] = label]
    BY <1>2 DEF SniffWaits
  <2>2. pc["sniffer"] = "wait" /\ UNCHANGED <<mailbox, pending, teardowns>>
    BY <1>2 DEF SniffWaits
  <2> QED BY <1>0, <2>1, <2>2, Bystander
<1>3. CASE SniffPauses
  BY <1>0, <1>3, Bystander DEF SniffPauses
<1>4. CASE SniffNotes
  BY <1>0, <1>4, Bystander DEF SniffNotes
<1>5. CASE SniffMonitors
  <2>1. PICK label \in {"idle", "sniffing"} : pc' = [pc EXCEPT !["sniffer"] = label]
    BY <1>5 DEF SniffMonitors
  <2>2. pc["sniffer"] = "monitor" /\ UNCHANGED <<mailbox, pending, teardowns>>
    BY <1>5 DEF SniffMonitors
  <2> QED BY <1>0, <2>1, <2>2, Bystander
<1>6. CASE SniffLeaves
  BY <1>0, <1>6, Bystander DEF SniffLeaves
<1>7. CASE SniffReturns
  <2>1. pc["sniffer"] = "return" /\ AskEngage("sniffer") /\ UNCHANGED <<mailbox, teardowns>>
    BY <1>7 DEF SniffReturns
  <2> QED BY <1>0, <2>1, AsksAside
<1> QED BY <1>1, <1>2, <1>3, <1>4, <1>5, <1>6, <1>7

LEMMA WatchdogInv ==
  ASSUME Inv, Silent \/ WatchdogStopped \/ BackoffEnds PROVE Inv'
<1> USE DEF At, Moves, Goes, flagVars
<1>0. /\ {"idle", "break", "stopped"} \cap RequestPc = {}
      /\ "watchdog" \in Thread \ {"worker"}
  BY Labels, WorkerIsThread DEF StopPc
<1>1. CASE Silent
  BY <1>0, <1>1, Bystander DEF Silent
<1>2. CASE WatchdogStopped
  BY <1>0, <1>2, Bystander DEF WatchdogStopped
<1>3. CASE BackoffEnds
  <2>1. UNCHANGED <<pc, pending, mailbox, teardowns>>
    BY <1>3 DEF BackoffEnds
  <2> QED BY <2>1, Unmoved DEF Boxed, Queued, Inv, Shape
<1> QED BY <1>1, <1>2, <1>3

-----------------------------------------------------------------------------
LEMMA InitInv == Init => Inv
<1> SUFFICES ASSUME Init PROVE Inv
  OBVIOUS
<1>1. /\ pc = [t \in Thread |-> "idle"] /\ mailbox = <<"Engage">> /\ pending = TRUE
      /\ teardowns = 0
  BY DEF Init
<1>2. Shape
  <2>1. pending \in BOOLEAN
    BY <1>1
  <2>2. mailbox \in Seq(Messages)
    BY <1>1 DEF Messages
  <2> QED BY <1>1, <2>1, <2>2, Labels, WorkerIsThread DEF Shape
<1>3. Asking = {} /\ ~InLadder
  BY <1>1, Labels, WorkerIsThread DEF Asking, InLadder
<1>4. EngagesIn(mailbox) = {1}
  BY <1>1 DEF EngagesIn
<1>5. Boxed = 1
  BY <1>2, <1>4, Ledger, FS_Singleton
<1>6. Cardinality(Asking) = 0 /\ Climb = 0
  BY <1>3, FS_EmptySet DEF Climb
<1>7. Flag = 1
  BY <1>1 DEF Flag
<1>8. Cardinality(Asking) + Boxed + Climb = Flag
  BY <1>5, <1>6, <1>7
<1> QED BY <1>2, <1>8, Ledger DEF Inv

LEMMA NextInv == Inv /\ [Next]_vars => Inv'
<1> SUFFICES ASSUME Inv, [Next]_vars PROVE Inv'
  OBVIOUS
<1>1. CASE WorkerStep
  BY <1>1, TakeEngageInv, LadderInv, PeriodicInv, StopInv, TakeStopInv, WorkerStoppedInv,
     EndInv, AsksOnInv, WorkerIsThread DEF WorkerStep
<1>2. CASE WatchdogStep
  BY <1>2, StopInv, WatchdogInv DEF WatchdogStep
<1>3. CASE HostStep
  BY <1>3, HostInv, AsksOnInv, WorkerIsThread DEF HostStep
<1>4. CASE SniffStep
  BY <1>4, SniffInv, AsksOnInv, WorkerIsThread DEF SniffStep
<1>5. CASE Silent \/ BackoffEnds
  BY <1>5, WatchdogInv
<1>6. CASE LinkBreaks \/ HostDisconnects
  BY <1>6, EndInv
<1>7. CASE \E s \in Subs : HostStarts(s) \/ HostPauses(s) \/ HostCancels(s)
  BY <1>7, HostInv
<1>8. CASE HostRequestsStop \/ HostPins \/ HostUnpins
  BY <1>8, HostInv
<1>9. CASE SniffStarts \/ SniffLeaves
  BY <1>9, SniffInv
<1>10. CASE UNCHANGED vars
  <2>1. UNCHANGED <<pc, pending, mailbox, teardowns>>
    BY <1>10 DEF vars, flagVars
  <2> QED BY <2>1, Unmoved DEF Boxed, Queued, Inv, Shape
<1> QED BY <1>1, <1>2, <1>3, <1>4, <1>5, <1>6, <1>7, <1>8, <1>9, <1>10 DEF Next

(* engage_pending stands for exactly one request: no exit of the ladder    *)
(* leaves it set, none clears another's, and no two climbs are queued.     *)
THEOREM RequestCounted == Spec => []OneRequest
<1>1. Inv => OneRequest
  BY DEF Inv
<1> QED BY <1>1, InitInv, NextInv, PTL DEF Spec

-----------------------------------------------------------------------------
(* A stream and a monitor are never live together.                         *)

(* The worker past its looks at what is live, and the hold of a monitor.   *)
AtUds == pc["worker"] \in {"udsCheck", "udsQuiesce", "udsHeader", "udsSetup", "udsMonitor",
                           "udsRecord"}
Holding == hold \/ pc["worker"] \in {"spClocks", "spHold"}

Looked ==
  /\ pc["worker"] \in {"spQuiesce", "spStart", "spRecord"} => ~stream.live /\ ~periodic.live
  /\ pc["worker"] \in {"udsMonitor", "udsRecord", "release"} => ~periodic.live
  /\ pc["worker"] \in {"streamBreak", "streamTake"} => stream.live

(* The watchdog has taken the record and has not released the processor:   *)
(* nothing is installed meanwhile, for that needs the processor.           *)
Releasing ==
  pc["watchdog"] = "release" =>
    /\ Holding /\ ~periodic.live /\ ~stream.live
    /\ pc["worker"] \notin {"spRecord", "udsMonitor", "udsRecord", "release"}

Apart ==
  /\ Looked /\ Exclusive
  /\ car.dvi => ~stream.live /\ ~AtUds
  /\ ~car.dvi => (periodic.live => Holding) /\ Releasing

Records == "live" \in DOMAIN stream /\ "live" \in DOMAIN periodic
Sound == DOMAIN pc = Thread /\ Records /\ Apart

UdsPc == {"udsCheck", "udsQuiesce", "udsHeader", "udsSetup", "udsMonitor", "udsRecord"}
Guarded == {"spQuiesce", "spStart", "spRecord", "udsMonitor", "udsRecord", "release",
            "streamBreak", "streamTake"}

(* Steps that leave the worker where it is and what is live alone.         *)
LEMMA Elsewhere ==
  ASSUME Sound, NEW t \in Thread \ {"worker"}, NEW label,
         pc' = pc \/ pc' = [pc EXCEPT ![t] = label],
         t = "watchdog" => label # "release",
         UNCHANGED <<car, hold>>, Records',
         stream'.live = stream.live, periodic'.live = periodic.live
  PROVE  Sound'
<1>1. DOMAIN pc' = Thread /\ pc'["worker"] = pc["worker"]
      /\ (pc'["watchdog"] = "release" => pc["watchdog"] = "release")
  BY WorkerIsThread DEF Sound
<1> QED BY <1>1 DEF Sound, Apart, Looked, Exclusive, AtUds, Releasing, Holding

(* The worker goes on to a place no look is needed for.                    *)
LEMMA GoesOn ==
  ASSUME Sound, NEW label, Goes("worker", label), label \notin Guarded,
         label \in UdsPc => ~car.dvi, pc["worker"] \notin {"spClocks", "spHold"},
         UNCHANGED <<car, hold, stream, periodic>>
  PROVE  Sound'
<1>1. DOMAIN pc' = Thread /\ pc'["worker"] = label /\ pc'["watchdog"] = pc["watchdog"]
  BY WorkerIsThread DEF Sound, Goes
<1> QED BY <1>1 DEF Sound, Records, Apart, Looked, Exclusive, AtUds, Releasing, Holding,
                    Guarded, UdsPc

LEMMA Places ==
  /\ {"idle", "swapped", "uncancelled", "beat", "settle", "gates", "commit", "fallback", "reset",
      "failed", "udsCheck", "udsQuiesce", "udsHeader", "udsSetup", "udsHold", "udsArm",
      "spCheck", "spLive", "break", "take", "teardown", "stopped", "streamRestore"}
       \cap Guarded = {}
  /\ {"idle", "swapped", "uncancelled", "beat", "settle", "gates", "commit", "fallback", "reset",
      "failed", "udsHold", "udsArm",
      "spCheck", "spLive", "break", "take", "teardown", "stopped", "streamRestore"}
       \cap UdsPc = {}
  /\ NextBeat \in {"beat", "fallback"} /\ SpRetry \in {"beat", "fallback", "reset"}
  BY DEF Guarded, UdsPc, NextBeat, SpRetry

(* The ladder up to what it installs.                                      *)
LEMMA LadderSound ==
  ASSUME Sound,
         \/ TakeEngage \/ BeatBegins \/ Settles \/ Gates \/ Commit \/ Fallback \/ ResetPhase
         \/ UdsCheck \/ UdsQuiesce \/ UdsHeader \/ UdsArm \/ UdsFailed
  PROVE  Sound'
<1> USE Places, GoesOn DEF At, Moves, Done, acqVars, aside
<1>1. CASE TakeEngage
  BY <1>1 DEF TakeEngage
<1>2. CASE BeatBegins
  BY <1>2 DEF BeatBegins
<1>3. CASE Settles
  BY <1>3 DEF Settles
<1>4. CASE Gates
  BY <1>4 DEF Gates
<1>5. CASE Commit
  BY <1>5 DEF Commit, UdsEligible
<1>6. CASE Fallback
  BY <1>6 DEF Fallback
<1>7. CASE ResetPhase
  BY <1>7 DEF ResetPhase
<1>8. ASSUME ~car.dvi, UdsCheck \/ UdsQuiesce \/ UdsHeader PROVE Sound'
  BY <1>8 DEF UdsCheck, UdsQuiesce, UdsHeader
<1>9. UdsCheck \/ UdsQuiesce \/ UdsHeader => ~car.dvi
  BY DEF UdsCheck, UdsQuiesce, UdsHeader, Sound, Apart, AtUds
<1>10. CASE UdsArm
  BY <1>10 DEF UdsArm, LogSwitch
<1>11. CASE UdsFailed
  BY <1>11 DEF UdsFailed
<1> QED BY <1>1, <1>2, <1>3, <1>4, <1>5, <1>6, <1>7, <1>8, <1>9, <1>10, <1>11

(* A set-up that the processor carried out while it dispatches: so nothing *)
(* holds it, no monitor is live and no watchdog is about to release it.    *)
LEMMA StreamSound ==
  ASSUME Sound, UdsSetup \/ UdsMonitor \/ UdsRecord \/ UdsHold PROVE Sound'
<1> USE WorkerIsThread
    DEF At, Moves, Goes, acqVars, aside, Sound, Records, Apart, Looked, Exclusive, AtUds,
        Releasing, Holding
<1>1. CASE UdsSetup
  <2>1. PICK label \in {"udsMonitor", "failed"} :
          /\ pc["worker"] = "udsSetup" /\ pc' = [pc EXCEPT !["worker"] = label]
          /\ label = "udsMonitor" => ~hold
          /\ UNCHANGED <<car, stream, periodic, hold>>
    BY <1>1 DEF UdsSetup
  <2>2. pc'["worker"] = label /\ DOMAIN pc' = Thread /\ pc'["watchdog"] = pc["watchdog"]
    BY <2>1
  <2> QED BY <2>1, <2>2
<1>2. CASE UdsMonitor
  BY <1>2 DEF UdsMonitor
<1>3. CASE UdsRecord
  BY <1>3 DEF UdsRecord
<1>4. CASE UdsHold
  BY <1>4 DEF UdsHold
<1> QED BY <1>1, <1>2, <1>3, <1>4

LEMMA MonitorSound ==
  ASSUME Sound,
         \/ SpCheck \/ SpQuiesce \/ SpStart \/ SpRecord \/ SpClocks \/ SpHold \/ SpArm \/ SpLive
  PROVE  Sound'
<1> USE WorkerIsThread
    DEF At, Moves, Goes, Done, acqVars, aside, Sound, Records, Apart, Looked, Exclusive, AtUds,
        Releasing, Holding
<1>1. CASE SpCheck
  <2>1. /\ pc["worker"] = "spCheck" /\ UNCHANGED <<car, stream, periodic, hold>>
        /\ \/ pc' = [pc EXCEPT !["worker"] = "spQuiesce"] /\ ~stream.live /\ ~periodic.live
           \/ \E label \in {"idle", SpRetry} : pc' = [pc EXCEPT !["worker"] = label]
    BY <1>1 DEF SpCheck
  <2>2. SpRetry \in {"beat", "fallback", "reset"}
    BY Places
  <2> QED BY <2>1, <2>2
<1>2. CASE SpQuiesce
  BY <1>2 DEF SpQuiesce
<1>3. CASE SpStart
  <2>1. /\ pc["worker"] = "spStart" /\ UNCHANGED <<car, stream, periodic>>
        /\ \/ /\ pc' = [pc EXCEPT !["worker"] = "spRecord"] /\ hold' = hold
              /\ car.dvi \/ ~hold
           \/ /\ pc' = [pc EXCEPT !["worker"] = SpRetry]
              /\ ~car.dvi => hold' = hold
    BY <1>3 DEF SpStart, SpAccepted, SpRefused
  <2>2. SpRetry \in {"beat", "fallback", "reset"}
    BY Places
  <2> QED BY <2>1, <2>2
<1>4. CASE SpRecord
  BY <1>4 DEF SpRecord
<1>5. CASE SpClocks
  BY <1>5 DEF SpClocks
<1>6. CASE SpHold
  BY <1>6 DEF SpHold
<1>7. CASE SpArm
  BY <1>7 DEF SpArm
<1>8. CASE SpLive
  BY <1>8 DEF SpLive, LogSwitch
<1> QED BY <1>1, <1>2, <1>3, <1>4, <1>5, <1>6, <1>7, <1>8

LEMMA StopSound ==
  ASSUME Sound,
         \/ TakeStop \/ StreamBreak \/ StreamTake \/ StreamRestore \/ WorkerStopped
         \/ \E t \in {"worker", "watchdog"} : Break(t) \/ Take(t) \/ Release(t) \/ Restore(t)
  PROVE  Sound'
<1> USE WorkerIsThread
    DEF At, Moves, Goes, acqVars, aside, LogSwitch, Sound, Records, Apart, Looked, Exclusive,
        AtUds, Releasing, Holding
<1>1. CASE TakeStop
  <2>1. /\ pc["worker"] = "idle" /\ UNCHANGED <<car, stream, periodic, hold>>
        /\ \/ pc' = [pc EXCEPT !["worker"] = "streamBreak"] /\ stream.live
           \/ \E label \in {"break", "idle", "swapped"} : pc' = [pc EXCEPT !["worker"] = label]
    BY <1>1 DEF TakeStop, AskEngage
  <2> QED BY <2>1
<1>2. CASE StreamBreak
  BY <1>2 DEF StreamBreak
<1>3. CASE StreamTake
  BY <1>3 DEF StreamTake, NoStream
<1>4. CASE StreamRestore
  BY <1>4 DEF StreamRestore
<1>5. CASE WorkerStopped
  <2>1. /\ pc["worker"] = "stopped" /\ UNCHANGED <<car, stream, periodic, hold>>
        /\ \E label \in {SpRetry, "idle", "swapped"} : pc' = [pc EXCEPT !["worker"] = label]
    BY <1>5 DEF WorkerStopped, AskEngage
  <2>2. SpRetry \in {"beat", "fallback", "reset"}
    BY Places
  <2> QED BY <2>1, <2>2
<1>6. ASSUME NEW t \in {"worker", "watchdog"}, Break(t) PROVE Sound'
  BY <1>6 DEF Break
<1>7. ASSUME NEW t \in {"worker", "watchdog"}, Take(t) PROVE Sound'
  BY <1>7 DEF Take, NoPeriodic
<1>8. ASSUME NEW t \in {"worker", "watchdog"}, Release(t) PROVE Sound'
  BY <1>8 DEF Release
<1>9. ASSUME NEW t \in {"worker", "watchdog"}, Restore(t) PROVE Sound'
  BY <1>9 DEF Restore
<1> QED BY <1>1, <1>2, <1>3, <1>4, <1>5, <1>6, <1>7, <1>8, <1>9

LEMMA EndSound ==
  ASSUME Sound,
         \/ TakeDrop \/ TakeDisconnect \/ LinkBreaks \/ HostDisconnects
         \/ \E t \in Thread : AskUncancels(t) \/ AskSends(t)
  PROVE  Sound'
<1> USE WorkerIsThread DEF At, Moves, Goes, acqVars, aside, Finish, LogSwitch
<1>1. CASE TakeDrop
  BY <1>1 DEF TakeDrop, NoStream, NoPeriodic, Sound, Records, Apart, Looked, Exclusive, AtUds,
     Releasing, Holding
<1>2. CASE TakeDisconnect \/ LinkBreaks \/ HostDisconnects
  BY <1>2, Elsewhere DEF TakeDisconnect, LinkBreaks, HostDisconnects, Sound, Records
<1>3. ASSUME NEW t \in Thread, AskUncancels(t) \/ AskSends(t) PROVE Sound'
  <2>1. PICK label \in {"uncancelled", "idle"} :
          /\ pc' = [pc EXCEPT ![t] = label] /\ pc[t] \in {"swapped", "uncancelled"}
          /\ UNCHANGED <<car, stream, periodic, hold>>
    BY <1>3 DEF AskUncancels, AskSends
  <2>2. CASE t = "worker"
    BY <2>1, <2>2, Places, GoesOn
  <2>3. CASE t # "worker"
    BY <2>1, <2>3, Elsewhere DEF Sound, Records
  <2> QED BY <2>2, <2>3
<1> QED BY <1>1, <1>2, <1>3

LEMMA OthersSound ==
  ASSUME Sound,
         \/ \E s \in Subs : HostStarts(s) \/ HostPauses(s) \/ HostCancels(s)
         \/ HostRequestsStop \/ HostPins \/ HostUnpins \/ HostAsksStop \/ PinReads
         \/ SniffStarts \/ SniffWaits \/ SniffPauses \/ SniffNotes \/ SniffMonitors
         \/ SniffLeaves \/ SniffReturns
         \/ Silent \/ WatchdogStopped \/ BackoffEnds
  PROVE  Sound'
<1> USE WorkerIsThread, Elsewhere DEF At, Moves, Goes, acqVars, aside, AskEngage, HostCalls
<1>1. ASSUME NEW s \in Subs, HostStarts(s) PROVE Sound'
  BY <1>1 DEF HostStarts, Sound, Records
<1>2. ASSUME NEW s \in Subs, HostPauses(s) \/ HostCancels(s) PROVE Sound'
  <2>1. /\ Records' /\ stream'.live = stream.live /\ periodic'.live = periodic.live
        /\ UNCHANGED <<car, hold>>
        /\ \E label \in {"askStop", "idle"} : pc' = [pc EXCEPT !["host"] = label]
    BY <1>2 DEF HostPauses, HostCancels, Detach, Sound, Records
  <2> QED BY <2>1
<1>3. CASE HostRequestsStop \/ HostPins \/ HostUnpins \/ HostAsksStop \/ PinReads
  BY <1>3 DEF HostRequestsStop, HostPins, HostUnpins, HostAsksStop, PinReads, Sound, Records
<1>4. CASE \/ SniffStarts \/ SniffWaits \/ SniffPauses \/ SniffNotes \/ SniffMonitors
           \/ SniffLeaves \/ SniffReturns
  BY <1>4 DEF SniffStarts, SniffWaits, SniffPauses, SniffNotes, SniffMonitors, SniffLeaves,
     SniffReturns, Sound, Records
<1>5. CASE Silent \/ WatchdogStopped \/ BackoffEnds
  BY <1>5 DEF Silent, WatchdogStopped, BackoffEnds, Sound, Records
<1> QED BY <1>1, <1>2, <1>3, <1>4, <1>5

LEMMA NextSound == Sound /\ [Next]_vars => Sound'
<1> SUFFICES ASSUME Sound, [Next]_vars PROVE Sound'
  OBVIOUS
<1>1. CASE UNCHANGED vars
  BY <1>1, WorkerIsThread, Elsewhere DEF vars, aside, acqVars, Sound, Records
<1>2. CASE WorkerStep \/ WatchdogStep
  BY <1>2, LadderSound, StreamSound, MonitorSound, StopSound, EndSound, OthersSound, WorkerIsThread
     DEF WorkerStep, WatchdogStep
<1>3. CASE HostStep \/ SniffStep
  BY <1>3, EndSound, OthersSound, WorkerIsThread DEF HostStep, SniffStep
<1>4. CASE ~(WorkerStep \/ WatchdogStep \/ HostStep \/ SniffStep) /\ Next
  BY <1>4, EndSound, OthersSound DEF Next
<1> QED BY <1>1, <1>2, <1>3, <1>4

(* A stream and adapter-side messages are never live together, whatever    *)
(* the car: the ladder does not look for the messages before it sets up a  *)
(* stream, but the set-up needs the processor, and it is on hold.          *)
THEOREM OneAcquisition == Spec => []Exclusive
<1>1. Init => Sound
  BY WorkerIsThread DEF Init, NoStream, NoPeriodic, Sound, Records, Apart, Looked, Exclusive,
     AtUds, Releasing, Holding
<1>2. Sound => Exclusive
  BY DEF Sound, Apart
<1> QED BY <1>1, <1>2, NextSound, PTL DEF Spec

-----------------------------------------------------------------------------
(* Whoever was paused is in the list of somebody who will resume it.       *)

(* The worker's own list counts while it holds subscriptions it paused: not*)
(* before it pauses them, and never on a link where it pauses none.        *)
Kept == IF car.dvi \/ pc["worker"] = "spQuiesce" THEN {} ELSE mine["worker"]
Lists == stream.resume \cup periodic.resume \cup sinkPaused \cup Kept
         \cup mine["watchdog"] \cup mine["sniffer"]

(* A list is empty where the next one would replace it.                    *)
HoldsList == {"udsHeader", "udsSetup", "udsMonitor", "udsRecord", "spStart", "spRecord",
              "release", "teardown", "streamRestore"}
Cleared ==
  /\ pc["worker"] \notin HoldsList => Kept = {}
  /\ pc["watchdog"] \notin {"release", "teardown"} => mine["watchdog"] = {}
  /\ pc["sniffer"] # "note" => mine["sniffer"] = {}
  /\ pc["sniffer"] \notin {"monitor", "sniffing", "return"} => sinkPaused = {}
  /\ ~stream.live => stream.resume = {}
  /\ ~periodic.live \/ car.dvi => periodic.resume = {}
  /\ pc["worker"] \in UdsPc \ {"udsCheck"} => ~stream.live

Noted == \A s \in Subs : sub[s] = "paused" => s \in Lists \cup hostPaused \cup stranded
Told == terminal \/ (Cleared /\ Noted)

Mapped == DOMAIN mine = Thread /\ DOMAIN sub = Subs
          /\ "resume" \in DOMAIN stream /\ "resume" \in DOMAIN periodic
Whole == Sound /\ Mapped /\ Told

(* A step of the worker that pauses and resumes nobody.                    *)
LEMMA PassesOn ==
  ASSUME Whole, Sound', NEW label, Goes("worker", label),
         label # "spQuiesce", pc["worker"] # "spQuiesce",
         pc["worker"] \in HoldsList => label \in HoldsList,
         label \in UdsPc \ {"udsCheck"} => ~stream.live,
         UNCHANGED <<car, stream, periodic, mine, sub, sinkPaused, hostPaused, stranded, terminal>>
  PROVE  Whole'
<1>1. /\ DOMAIN pc' = Thread /\ pc'["worker"] = label /\ pc'["watchdog"] = pc["watchdog"]
      /\ pc'["sniffer"] = pc["sniffer"]
  BY WorkerIsThread DEF Whole, Sound, Goes
<1>2. Kept' = Kept
  BY <1>1 DEF Kept
<1>3. Cleared => Cleared'
  BY <1>1, <1>2 DEF Cleared
<1> QED BY <1>2, <1>3 DEF Whole, Mapped, Told, Noted, Lists

(* A step of the host, or one that moves nobody but may edit a list: what  *)
(* leaves it is the host's, or gone.                                       *)
LEMMA Edits ==
  ASSUME Whole, Sound',
         pc' = pc \/ \E t \in {"host", "sniffer", "watchdog"} : \E label :
           /\ pc' = [pc EXCEPT ![t] = label]
           /\ t = "watchdog" => pc["watchdog"] \notin {"release", "teardown"}
           /\ t = "sniffer" => pc["sniffer"] # "note"
                               /\ (label \in {"monitor", "sniffing", "return"} \/ sinkPaused = {}),
         UNCHANGED <<car, mine, sinkPaused, stranded, terminal>>, Mapped',
         stream'.live = stream.live, periodic'.live = periodic.live,
         stream'.resume \subseteq stream.resume, periodic'.resume \subseteq periodic.resume,
         Noted => Noted'
  PROVE  Whole'
<1>1. /\ pc'["worker"] = pc["worker"]
      /\ pc'["watchdog"] \notin {"release", "teardown"} \/ pc'["watchdog"] = pc["watchdog"]
         \/ mine["watchdog"] = {} \/ terminal
      /\ pc'["sniffer"] = pc["sniffer"] \/ (Cleared => mine["sniffer"] = {})
  BY WorkerIsThread DEF Whole, Sound, Told, Cleared
<1>2. Kept' = Kept
  BY <1>1 DEF Kept
<1>3. Cleared => Cleared'
  BY <1>1, <1>2, WorkerIsThread DEF Cleared, Whole, Sound
<1> QED BY <1>3 DEF Whole, Told

LEMMA LadderTold ==
  ASSUME Whole, Sound',
         \/ TakeEngage \/ BeatBegins \/ Settles \/ Gates \/ Commit \/ Fallback \/ ResetPhase
         \/ UdsCheck \/ UdsMonitor \/ UdsHold \/ UdsArm \/ UdsFailed
         \/ SpClocks \/ SpHold \/ SpArm \/ SpLive \/ TakeStop \/ StreamBreak \/ WorkerStopped
         \/ Break("worker") \/ Release("worker")
         \/ AskUncancels("worker") \/ AskSends("worker")
  PROVE  Whole'
<1> USE PassesOn, Places
    DEF At, Moves, Done, acqVars, aside, subVars, lifeVars, workVars, LogSwitch, HoldsList, UdsPc,
        AskEngage
<1>1. CASE TakeEngage
  BY <1>1 DEF TakeEngage
<1>2. CASE BeatBegins \/ Settles \/ Gates
  BY <1>2 DEF BeatBegins, Settles, Gates
<1>3. CASE Commit \/ Fallback \/ ResetPhase
  BY <1>3 DEF Commit, Fallback, ResetPhase
<1>4. CASE UdsCheck
  BY <1>4 DEF UdsCheck
<1>5. CASE UdsMonitor
  <2>1. ~terminal => ~stream.live
    BY <1>5 DEF UdsMonitor, Whole, Told, Cleared
  <2>2. CASE terminal
    BY <1>5, <2>2 DEF UdsMonitor, Whole, Told, Mapped
  <2> QED BY <1>5, <2>1, <2>2 DEF UdsMonitor
<1>6. CASE UdsHold \/ UdsArm \/ UdsFailed
  BY <1>6 DEF UdsHold, UdsArm, UdsFailed
<1>7. CASE SpClocks \/ SpHold \/ SpArm \/ SpLive
  BY <1>7 DEF SpClocks, SpHold, SpArm, SpLive
<1>8. CASE TakeStop \/ StreamBreak \/ WorkerStopped
  BY <1>8 DEF TakeStop, StreamBreak, WorkerStopped
<1>9. CASE Break("worker") \/ Release("worker")
  BY <1>9 DEF Break, Release
<1>10. CASE AskUncancels("worker") \/ AskSends("worker")
  BY <1>10 DEF AskUncancels, AskSends
<1> QED BY <1>1, <1>2, <1>3, <1>4, <1>5, <1>6, <1>7, <1>8, <1>9, <1>10

(* Where an acquisition pauses, gives up or records what it paused.        *)
LEMMA ListsTold ==
  ASSUME Whole, Sound',
         \/ UdsQuiesce \/ UdsHeader \/ UdsSetup \/ UdsRecord
         \/ SpCheck \/ SpQuiesce \/ SpStart \/ SpRecord
         \/ StreamTake \/ StreamRestore \/ Take("worker") \/ Restore("worker")
         \/ Take("watchdog") \/ Restore("watchdog")
  PROVE  Whole'
<1> USE WorkerIsThread
    DEF At, Moves, Goes, Keeps, acqVars, aside, subVars, lifeVars, workVars, LogSwitch
<1>0. /\ DOMAIN pc = Thread /\ DOMAIN mine = Thread
      /\ terminal \/ (Cleared /\ Noted)
      /\ Looked
  BY DEF Whole, Sound, Apart, Mapped, Told
<1>1. CASE UdsQuiesce
  <2>1. /\ pc["worker"] = "udsQuiesce" /\ pc' = [pc EXCEPT !["worker"] = "udsHeader"]
        /\ sub' = [s \in Subs |-> IF s \in Active THEN "paused" ELSE sub[s]]
        /\ mine' = [mine EXCEPT !["worker"] = Active] /\ ~car.dvi
        /\ UNCHANGED <<car, stream, periodic, sinkPaused, hostPaused, stranded, terminal>>
    BY <1>1 DEF UdsQuiesce, PauseAll, Whole, Sound, Apart, AtUds
  <2>2. Mapped' /\ Kept' = Active /\ (~terminal => Kept = {})
    BY <1>0, <2>1 DEF Mapped, Kept, Cleared, HoldsList, Whole
  <2>3. Cleared => Cleared'
    BY <1>0, <2>1, <2>2 DEF Cleared, HoldsList, UdsPc
  <2>4. ~terminal => Lists' = Lists \cup Active
    BY <1>0, <2>1, <2>2 DEF Lists
  <2>5. ~terminal => Noted'
    BY <1>0, <2>1, <2>4 DEF Noted
  <2> QED BY <1>0, <2>1, <2>2, <2>3, <2>5 DEF Whole, Told
<1>2. CASE UdsHeader
  BY <1>0, <1>2 DEF UdsHeader, Whole, Mapped, Told, Cleared, Noted, Lists, Kept,
     HoldsList, UdsPc
<1>3. CASE UdsSetup
  BY <1>0, <1>3 DEF UdsSetup, ResumeMany, Whole, Mapped, Told, Cleared, Noted, Lists, Kept,
     HoldsList, UdsPc
<1>4. CASE UdsRecord
  BY <1>0, <1>4 DEF UdsRecord, Whole, Mapped, Told, Cleared, Noted, Lists, Kept,
     HoldsList, UdsPc
<1>5. CASE SpCheck
  BY <1>0, <1>5, Places DEF SpCheck, Done, Whole, Mapped, Told, Cleared, Noted, Lists, Kept,
     HoldsList, UdsPc
<1>6. CASE SpQuiesce
  BY <1>0, <1>6 DEF SpQuiesce, PauseAll, Active, Whole, Mapped, Told, Cleared, Noted, Lists, Kept,
     HoldsList, UdsPc
<1>7. CASE SpStart
  BY <1>0, <1>7, Places DEF SpStart, SpAccepted, SpRefused, ResumeMany, Whole, Mapped, Told,
     Cleared, Noted, Lists, Kept, HoldsList, UdsPc
<1>8. CASE SpRecord
  <2>1. /\ pc["worker"] = "spRecord" /\ pc' = [pc EXCEPT !["worker"] = "spClocks"]
        /\ mine' = [mine EXCEPT !["worker"] = {}] /\ periodic'.live /\ ~periodic.live
        /\ periodic'.resume = (IF car.dvi THEN {} ELSE mine["worker"])
        /\ "resume" \in DOMAIN periodic'
        /\ UNCHANGED <<car, stream, sub, sinkPaused, hostPaused, stranded, terminal>>
    BY <1>0, <1>8 DEF SpRecord, Looked
  <2>2. Mapped' /\ Kept' = {} /\ Kept = periodic'.resume /\ (~terminal => periodic.resume = {})
    BY <1>0, <2>1 DEF Mapped, Kept, Cleared, Whole
  <2>3. Cleared => Cleared'
    BY <1>0, <2>1, <2>2 DEF Cleared, HoldsList, UdsPc
  <2>4. ~terminal => Lists' = Lists
    BY <1>0, <2>1, <2>2 DEF Lists
  <2> QED BY <1>0, <2>1, <2>2, <2>3, <2>4 DEF Whole, Told, Noted
<1>9. CASE StreamTake
  <2>1. /\ pc["worker"] = "streamTake" /\ pc' = [pc EXCEPT !["worker"] = "streamRestore"]
        /\ mine' = [mine EXCEPT !["worker"] = stream.resume] /\ ~car.dvi
        /\ stream' = [live |-> FALSE, resume |-> {}]
        /\ UNCHANGED <<car, periodic, sub, sinkPaused, hostPaused, stranded, terminal>>
    BY <1>0, <1>9 DEF StreamTake, NoStream, Looked, Whole, Sound, Apart
  <2>2. Mapped' /\ Kept' = stream.resume /\ (~terminal => Kept = {})
    BY <1>0, <2>1 DEF Mapped, Kept, Cleared, HoldsList, Whole
  <2>3. Cleared => Cleared'
    BY <1>0, <2>1, <2>2 DEF Cleared, HoldsList, UdsPc
  <2>4. ~terminal => Lists' = Lists
    BY <1>0, <2>1, <2>2 DEF Lists
  <2> QED BY <1>0, <2>1, <2>2, <2>3, <2>4 DEF Whole, Told, Noted
<1>10. CASE StreamRestore
  BY <1>0, <1>10 DEF StreamRestore, ResumeMany, Whole, Mapped, Told, Cleared, Noted, Lists, Kept,
     HoldsList, UdsPc
<1>11. ASSUME NEW t \in {"worker", "watchdog"}, Take(t) PROVE Whole'
  BY <1>0, <1>11 DEF Take, NoPeriodic, Whole, Mapped, Told, Cleared, Noted, Lists, Kept,
     HoldsList, UdsPc
<1>12. ASSUME NEW t \in {"worker", "watchdog"}, Restore(t) PROVE Whole'
  BY <1>0, <1>12 DEF Restore, ResumeMany, Whole, Mapped, Told, Cleared, Noted, Lists, Kept,
     HoldsList, UdsPc
<1> QED BY <1>1, <1>2, <1>3, <1>4, <1>5, <1>6, <1>7, <1>8, <1>9, <1>10, <1>11, <1>12

(* The end of the session excuses everything.                              *)
LEMMA EndTold ==
  ASSUME Whole, Sound', TakeDrop \/ TakeDisconnect \/ LinkBreaks \/ HostDisconnects
  PROVE  Whole'
<1> USE DEF acqVars, aside, subVars, lifeVars, workVars
<1>1. CASE TakeDrop
  BY <1>1 DEF TakeDrop, NoStream, NoPeriodic, Whole, Mapped, Told
<1>2. CASE TakeDisconnect \/ LinkBreaks
  <2>1. /\ UNCHANGED <<car, pc, stream, periodic, mine, sub, sinkPaused, hostPaused, stranded,
                       terminal>>
    BY <1>2 DEF TakeDisconnect, LinkBreaks, Finish, LogSwitch
  <2> QED BY <2>1 DEF Whole, Mapped, Told, Cleared, Noted, Lists, Kept
<1>3. CASE HostDisconnects
  BY <1>3 DEF HostDisconnects, Whole, Mapped, Told
<1> QED BY <1>1, <1>2, <1>3

LEMMA HostTold ==
  ASSUME Whole, Sound',
         \/ \E s \in Subs : HostStarts(s) \/ HostPauses(s) \/ HostCancels(s)
         \/ HostRequestsStop \/ HostPins \/ HostUnpins \/ HostAsksStop \/ PinReads
         \/ AskUncancels("host") \/ AskSends("host")
  PROVE  Whole'
<1> USE WorkerIsThread, Edits
    DEF At, Moves, Goes, AskEngage, HostCalls, acqVars, aside, subVars, lifeVars, workVars,
        Whole, Mapped
<1>1. ASSUME NEW s \in Subs, HostStarts(s) PROVE Whole'
  BY <1>1 DEF HostStarts, Noted, Lists, Kept, Sound
<1>2. ASSUME NEW s \in Subs, HostPauses(s) PROVE Whole'
  BY <1>2 DEF HostPauses, Detach, Noted, Lists, Kept, Sound, Records
<1>3. ASSUME NEW s \in Subs, HostCancels(s) PROVE Whole'
  BY <1>3 DEF HostCancels, Detach, Noted, Lists, Kept, Sound, Records
<1>4. CASE HostRequestsStop \/ HostPins \/ HostUnpins \/ HostAsksStop \/ PinReads
           \/ AskUncancels("host") \/ AskSends("host")
  BY <1>4 DEF HostRequestsStop, HostPins, HostUnpins, HostAsksStop, PinReads, AskUncancels,
     AskSends, Noted, Lists, Kept, Sound
<1> QED BY <1>1, <1>2, <1>3, <1>4

LEMMA SniffTold ==
  ASSUME Whole, Sound',
         \/ SniffStarts \/ SniffWaits \/ SniffPauses \/ SniffNotes \/ SniffMonitors
         \/ SniffLeaves \/ SniffReturns \/ AskUncancels("sniffer") \/ AskSends("sniffer")
  PROVE  Whole'
<1> USE WorkerIsThread
    DEF At, Moves, Goes, Keeps, AskEngage, acqVars, aside, subVars, lifeVars, workVars
<1>0. DOMAIN pc = Thread /\ DOMAIN mine = Thread /\ (terminal \/ (Cleared /\ Noted))
  BY DEF Whole, Sound, Mapped, Told
<1>1. CASE \/ SniffStarts \/ SniffWaits \/ SniffLeaves
           \/ AskUncancels("sniffer") \/ AskSends("sniffer")
  BY <1>0, <1>1 DEF SniffStarts, SniffWaits, SniffLeaves, AskUncancels, AskSends,
     Whole, Mapped, Told, Cleared, Noted, Lists, Kept
<1>2. CASE SniffPauses
  BY <1>0, <1>2 DEF SniffPauses, PauseAll, Active, Whole, Mapped, Told, Cleared, Noted, Lists, Kept
<1>3. CASE SniffNotes
  BY <1>0, <1>3 DEF SniffNotes, Whole, Mapped, Told, Cleared, Noted, Lists, Kept
<1>4. CASE SniffMonitors
  BY <1>0, <1>4 DEF SniffMonitors, ResumeMany, Whole, Mapped, Told, Cleared, Noted, Lists, Kept
<1>5. CASE SniffReturns
  BY <1>0, <1>5 DEF SniffReturns, ResumeMany, Whole, Mapped, Told, Cleared, Noted, Lists, Kept
<1> QED BY <1>1, <1>2, <1>3, <1>4, <1>5

LEMMA WatchdogTold ==
  ASSUME Whole, Sound',
         Silent \/ WatchdogStopped \/ BackoffEnds \/ Break("watchdog") \/ Release("watchdog")
  PROVE  Whole'
<1> USE WorkerIsThread
    DEF At, Moves, Goes, acqVars, aside, subVars, lifeVars, workVars
<1>0. DOMAIN pc = Thread /\ DOMAIN mine = Thread /\ (terminal \/ (Cleared /\ Noted))
  BY DEF Whole, Sound, Mapped, Told
<1>1. CASE Silent \/ WatchdogStopped \/ BackoffEnds
  BY <1>0, <1>1 DEF Silent, WatchdogStopped, BackoffEnds, Whole, Mapped, Told, Cleared, Noted,
     Lists, Kept
<1>2. CASE Break("watchdog") \/ Release("watchdog")
  BY <1>0, <1>2 DEF Break, Release, Whole, Mapped, Told, Cleared, Noted, Lists, Kept
<1> QED BY <1>1, <1>2

LEMMA NextTold == Whole /\ [Next]_vars => Whole'
<1> SUFFICES ASSUME Whole, [Next]_vars PROVE Whole'
  OBVIOUS
<1>0. Sound'
  BY NextSound DEF Whole
<1>1. CASE UNCHANGED vars
  BY <1>0, <1>1 DEF vars, aside, acqVars, subVars, lifeVars, workVars, Whole, Mapped, Told, Cleared,
     Noted, Lists, Kept
<1>2. CASE WorkerStep \/ WatchdogStep
  BY <1>0, <1>2, LadderTold, ListsTold, EndTold, WatchdogTold DEF WorkerStep, WatchdogStep
<1>3. CASE HostStep \/ SniffStep
  BY <1>0, <1>3, HostTold, SniffTold DEF HostStep, SniffStep
<1>4. CASE ~(WorkerStep \/ WatchdogStep \/ HostStep \/ SniffStep) /\ Next
  BY <1>0, <1>4, EndTold, HostTold, SniffTold, WatchdogTold DEF Next
<1> QED BY <1>1, <1>2, <1>3, <1>4

LEMMA InitWhole == Init => Whole
<1> SUFFICES ASSUME Init PROVE Whole
  OBVIOUS
<1>1. Sound
  BY WorkerIsThread DEF Init, NoStream, NoPeriodic, Sound, Records, Apart, Looked, Exclusive,
     AtUds, Releasing, Holding
<1> QED BY <1>1, WorkerIsThread DEF Init, NoStream, NoPeriodic, Whole, Mapped, Told, Cleared,
     Noted, Kept, UdsPc

(* A paused subscription the host did not pause is in the list of somebody *)
(* who will resume it, but for those a failed header switch stranded.      *)
THEOREM AllRemembered == Spec => []NobodyForgotten
<1>1. Init => Whole
  BY InitWhole
<1>2. Whole => NobodyForgotten
  <2> DEFINE own == UNION {mine[t] : t \in Thread}
  <2>1. \A t \in Thread : mine[t] \subseteq own
    OBVIOUS
  <2>2. Remembered = stream.resume \cup periodic.resume \cup sinkPaused \cup hostPaused
                       \cup stranded \cup own
    BY DEF Remembered
  <2> HIDE DEF own
  <2>3. mine["worker"] \cup mine["watchdog"] \cup mine["sniffer"] \subseteq own
    BY <2>1, WorkerIsThread
  <2>4. Kept \subseteq own
    BY <2>3 DEF Kept
  <2>5. Lists \cup hostPaused \cup stranded \subseteq Remembered
    BY <2>2, <2>3, <2>4 DEF Lists
  <2> QED BY <2>5 DEF Whole, Told, Noted, NobodyForgotten
<1> QED BY <1>1, <1>2, NextTold, PTL DEF Spec

-----------------------------------------------------------------------------
(* What is shown, and what an acquisition held, when every thread is       *)
(* through.                                                                *)

Worker   == pc["worker"]
Watchdog == pc["watchdog"]
HasIn(box, m) == \E i \in 1 .. Len(box) : box[i] = m

SpSetup == {"spCheck", "spQuiesce", "spStart", "spRecord", "spClocks", "spHold", "spArm",
            "spLive"}
Setup == UdsPc \cup {"udsHold", "udsArm"} \cup SpSetup
Stopping == StopPc \cup StreamStopPc
Unwinding == {"release", "teardown"}

(* The two messages of the end are on their way until nothing is live and  *)
(* nothing is set up any more.                                             *)
Closing ==
  /\ HasIn(mailbox, "Disconnect") => terminal
  /\ window = "none" => terminal
  /\ terminal => HasIn(mailbox, "Disconnect") \/ Worker \notin Setup
Ended ==
  ~connected => HasIn(mailbox, "Drop") \/ (terminal /\ Worker \notin Setup /\ ~Live)

(* What the worker reports next is there, or gone, whatever the watchdog   *)
(* takes; and unless a report came too late the window is that of what     *)
(* runs, or the report, or the summary, is still to come.                  *)
Reports ==
  /\ Worker \in {"udsHold", "udsArm"} => stream.live
  /\ Worker \in {"streamRestore", "release", "teardown"} => ~Live
Windowed ==
  /\ terminal => HasIn(mailbox, "Disconnect") \/ window = "none"
  /\ window = "uds-stream" =>
       stream.live \/ Worker = "streamRestore" \/ HasIn(mailbox, "Disconnect")
  /\ window = "periodic" =>
       \/ periodic.live \/ HasIn(mailbox, "Disconnect")
       \/ Worker \in Unwinding \/ Watchdog \in Unwinding
  /\ stream.live => terminal \/ window = "uds-stream" \/ Worker \in {"udsHold", "udsArm"}
  /\ periodic.live => \/ terminal \/ window = "periodic"
                      \/ Worker \in {"spClocks", "spHold", "spArm", "spLive", "break", "take"}
Traced == Closing /\ Reports /\ (overtaken \/ Windowed)

(* Whose the hold and the lines of the wire are.                           *)
Owned ==
  /\ hold => \/ Live \/ "release" \in {Worker, Watchdog}
             \/ car.dvi /\ Worker \in {"spStart", "spRecord", "spClocks", "spHold"}
  /\ Worker = "streamTake" => ~hold /\ tap # "stream"
  /\ tap = "stream" => stream.live \/ Worker = "udsRecord" \/ terminal
  /\ tap = "periodic" => /\ ~car.dvi /\ "take" \notin {Worker, Watchdog}
                         /\ periodic.live \/ terminal
  /\ tap = "sink" => pc["sniffer"] = "sniffing"

(* Adapter-side messages are set up while the watchdog rests: their silence*)
(* clock does not run yet.                                                 *)
Undisturbed ==
  /\ Worker \in SpSetup => Watchdog = "idle"
  /\ Worker \in {"spHold", "spArm", "spLive"} => ~armed
  /\ Worker = "spCheck" => ~periodic.live
  /\ Worker \in {"spClocks", "spHold", "spArm", "spLive"} => periodic.live

(* What the session shows is there, or a stop is on its way to correct it. *)
Shown ==
  /\ phase = "Live" => Live \/ Watchdog \in Unwinding \cup {"stopped"}
  /\ phase = "Live" => Worker \notin Stopping \cup {"spArm"}
  /\ phase = "Stopping" => Worker \in Stopping
  /\ streamed # {} => \/ periodic.live \/ Worker \in Unwinding \cup {"spRecord"}
                      \/ Watchdog \in Unwinding

Parts == Ended /\ Owned /\ Undisturbed /\ (terminal \/ Shown)
Typed == window \in Tiers \cup {"none"} /\ tap \in {"nobody", "stream", "periodic", "sink"}
Steady == Inv /\ Whole /\ Typed /\ Traced /\ (overlapped \/ Parts)

(* The mailbox.                                                            *)
LEMMA MailOf ==
  ASSUME NEW box \in Seq(Messages), NEW m \in Messages
  PROVE  /\ \A n \in Messages : HasIn(Append(box, n), m) <=> HasIn(box, m) \/ m = n
         /\ box # <<>> => /\ Tail(box) \in Seq(Messages)
                         /\ HasIn(box, m) <=> Head(box) = m \/ HasIn(Tail(box), m)
<1>1. ASSUME NEW n \in Messages PROVE HasIn(Append(box, n), m) <=> HasIn(box, m) \/ m = n
  <2>1. /\ Len(Append(box, n)) = Len(box) + 1 /\ Len(box) \in Nat
        /\ \A i \in 1 .. Len(box) : Append(box, n)[i] = box[i]
        /\ Append(box, n)[Len(box) + 1] = n
    OBVIOUS
  <2>2. 1 .. Len(box) + 1 = (1 .. Len(box)) \cup {Len(box) + 1}
    BY <2>1
  <2> QED BY <2>1, <2>2 DEF HasIn
<1>2. ASSUME box # <<>>
      PROVE  /\ Tail(box) \in Seq(Messages)
             /\ HasIn(box, m) <=> Head(box) = m \/ HasIn(Tail(box), m)
  <2>1. /\ Len(box) \in Nat \ {0} /\ Len(Tail(box)) = Len(box) - 1
        /\ Head(box) = box[1] /\ Tail(box) \in Seq(Messages)
        /\ \A i \in 1 .. Len(box) - 1 : Tail(box)[i] = box[i + 1]
    BY <1>2
  <2>2. \A i \in 1 .. Len(box) : i = 1 \/ (i - 1 \in 1 .. Len(box) - 1 /\ i = (i - 1) + 1)
    BY <2>1
  <2>3. \A i \in 1 .. Len(box) - 1 : i + 1 \in 1 .. Len(box)
    BY <2>1
  <2>4. ASSUME HasIn(box, m), Head(box) # m PROVE HasIn(Tail(box), m)
    <3>1. PICK i \in 1 .. Len(box) : box[i] = m
      BY <2>4 DEF HasIn
    <3>2. i - 1 \in 1 .. Len(Tail(box)) /\ Tail(box)[i - 1] = m
      BY <2>1, <2>2, <2>4, <3>1
    <3> QED BY <3>2 DEF HasIn
  <2>5. HasIn(Tail(box), m) => HasIn(box, m)
    BY <2>1, <2>3 DEF HasIn
  <2>6. Head(box) = m => HasIn(box, m)
    BY <2>1 DEF HasIn
  <2> QED BY <2>1, <2>4, <2>5, <2>6
<1> QED BY <1>1, <1>2

LEMMA Mail ==
  ASSUME Inv
  PROVE  /\ \A m, n \in Messages : Send(n) =>
              (HasIn(mailbox', m) <=> HasIn(mailbox, m) \/ m = n)
         /\ mailbox # <<>> => \A m \in Messages :
              HasIn(mailbox, m) <=> Head(mailbox) = m \/ HasIn(Tail(mailbox), m)
<1>1. mailbox \in Seq(Messages)
  BY DEF Inv, Shape
<1>2. ASSUME NEW m \in Messages, NEW n \in Messages, Send(n)
      PROVE  HasIn(mailbox', m) <=> HasIn(mailbox, m) \/ m = n
  <2>1. mailbox' = Append(mailbox, n)
    BY <1>2 DEF Send
  <2> QED BY <1>1, <2>1, MailOf
<1>3. ASSUME mailbox # <<>>, NEW m \in Messages
      PROVE  HasIn(mailbox, m) <=> Head(mailbox) = m \/ HasIn(Tail(mailbox), m)
  BY <1>1, <1>3, MailOf
<1> QED BY <1>2, <1>3

(* A set-up that runs into no stop of the watchdog.                        *)
LEMMA Sticks ==
  ASSUME Overlaps, ~overlapped'
  PROVE  ~overlapped /\ (pc'["worker"] \in {"udsCheck", "spCheck"} => pc["watchdog"] = "idle")
<1>1. overlapped => overlapped'
  BY DEF Overlaps
<1>2. pc["watchdog"] # "idle" /\ pc'["worker"] \in {"udsCheck", "spCheck"} => overlapped'
  BY DEF Overlaps
<1> QED BY <1>1, <1>2

LEMMA Dispatches ==
  ASSUME Steady, ~overlapped
  PROVE  /\ DOMAIN pc = Thread /\ Looked /\ Exclusive /\ Parts /\ Closing /\ Reports
         /\ car.dvi => ~stream.live /\ ~AtUds
         /\ {"Drop", "Disconnect", "Engage", "Stop", "StopReengage"} = Messages
  BY DEF Steady, Whole, Sound, Apart, Messages, Traced

LEMMA Reporters ==
  ASSUME Inv, Whole, Typed, Traced
  PROVE  /\ DOMAIN pc = Thread /\ Looked /\ Exclusive
         /\ {"Drop", "Disconnect", "Engage", "Stop", "StopReengage"} = Messages
  BY DEF Whole, Sound, Apart, Messages

(* The ladder up to what it installs.                                      *)
LEMMA LadderParts ==
  ASSUME Steady, ~overlapped',
         \/ TakeEngage \/ BeatBegins \/ Settles \/ Gates \/ Commit \/ Fallback \/ ResetPhase
         \/ UdsCheck \/ UdsQuiesce \/ UdsHeader \/ UdsSetup \/ UdsFailed
  PROVE  Parts'
<1>0. ~overlapped
  <2>1. CASE TakeEngage \/ BeatBegins \/ Settles \/ Gates \/ ResetPhase
    BY <2>1 DEF TakeEngage, BeatBegins, Settles, Gates, ResetPhase, workVars
  <2>2. CASE Commit \/ Fallback
    <3>1. Overlaps
      BY <2>2 DEF Commit, Fallback
    <3> QED BY <3>1, Sticks
  <2>3. CASE UdsCheck \/ UdsQuiesce \/ UdsHeader \/ UdsSetup \/ UdsFailed
    BY <2>3 DEF UdsCheck, UdsQuiesce, UdsHeader, UdsSetup, UdsFailed, workVars
  <2> QED BY <2>1, <2>2, <2>3
<1> USE <1>0, Dispatches, WorkerIsThread, Places
    DEF At, Moves, Goes, Done, acqVars, aside, subVars, lifeVars, workVars, Parts, Closing, Reports, Ended, Owned,
        Undisturbed, Shown, Worker, Watchdog, Live, SpSetup, Setup, Stopping, Unwinding, UdsPc,
        StopPc, StreamStopPc
<1>1. CASE TakeEngage
  <2>1. \A m \in {"Drop", "Disconnect"} : HasIn(mailbox', m) <=> HasIn(mailbox, m)
    BY <1>1, Mail DEF TakeEngage, Steady
  <2> QED BY <1>1, <2>1 DEF TakeEngage
<1>2. CASE BeatBegins
  BY <1>2 DEF BeatBegins
<1>3. CASE Settles
  BY <1>3 DEF Settles
<1>4. CASE Gates
  BY <1>4 DEF Gates
<1>5. CASE Commit
  <2>1. pc'["worker"] = "spCheck" => pc["watchdog"] = "idle"
    BY <1>5, Sticks DEF Commit
  <2> QED BY <1>5, <2>1 DEF Commit, CommitBlocked, PeriodicReady
<1>6. CASE Fallback
  <2>1. pc'["worker"] = "spCheck" => pc["watchdog"] = "idle"
    BY <1>6, Sticks DEF Fallback
  <2> QED BY <1>6, <2>1 DEF Fallback, CommitBlocked, PeriodicReady
<1>7. CASE ResetPhase
  BY <1>7 DEF ResetPhase
<1>8. CASE UdsCheck
  BY <1>8 DEF UdsCheck
<1>9. CASE UdsQuiesce
  BY <1>9 DEF UdsQuiesce, PauseAll
<1>10. CASE UdsHeader
  BY <1>10 DEF UdsHeader
<1>11. CASE UdsSetup
  BY <1>11 DEF UdsSetup
<1>12. CASE UdsFailed
  BY <1>12 DEF UdsFailed
<1> QED BY <1>1, <1>2, <1>3, <1>4, <1>5, <1>6, <1>7, <1>8, <1>9, <1>10, <1>11, <1>12

(* What the ladder installs.                                               *)
LEMMA InstallParts ==
  ASSUME Steady, ~overlapped',
         \/ UdsMonitor \/ UdsRecord \/ UdsHold \/ UdsArm
         \/ SpCheck \/ SpQuiesce \/ SpStart \/ SpRecord \/ SpClocks \/ SpHold \/ SpArm \/ SpLive
  PROVE  Parts'
<1>0. ~overlapped
  <2>1. CASE UdsMonitor \/ UdsRecord \/ UdsHold \/ UdsArm
    BY <2>1 DEF UdsMonitor, UdsRecord, UdsHold, UdsArm, workVars
  <2>2. CASE SpCheck \/ SpQuiesce \/ SpStart \/ SpRecord
    BY <2>2 DEF SpCheck, SpQuiesce, SpStart, SpRecord, workVars
  <2>3. CASE SpClocks \/ SpHold \/ SpArm \/ SpLive
    BY <2>3 DEF SpClocks, SpHold, SpArm, SpLive, workVars
  <2> QED BY <2>1, <2>2, <2>3
<1> USE <1>0, Dispatches, WorkerIsThread, Places
    DEF At, Moves, Goes, Done, acqVars, aside, subVars, lifeVars, workVars, Parts, Closing, Reports, Ended, Owned,
        Undisturbed, Shown, Worker, Watchdog, Live, SpSetup, Setup, Stopping, Unwinding, UdsPc,
        StopPc, StreamStopPc, LogSwitch, Looked
<1>1. CASE UdsMonitor
  BY <1>1 DEF UdsMonitor
<1>2. CASE UdsRecord
  BY <1>2 DEF UdsRecord
<1>3. CASE UdsHold
  BY <1>3 DEF UdsHold
<1>4. CASE UdsArm
  BY <1>4 DEF UdsArm
<1>5. CASE SpCheck
  BY <1>5 DEF SpCheck
<1>6. CASE SpQuiesce
  BY <1>6 DEF SpQuiesce, PauseAll
<1>7. CASE SpStart
  BY <1>7 DEF SpStart, SpAccepted, SpRefused, ResumeMany
<1>8. CASE SpRecord
  BY <1>8 DEF SpRecord
<1>9. CASE SpClocks
  BY <1>9 DEF SpClocks
<1>10. CASE SpHold
  BY <1>10 DEF SpHold
<1>11. CASE SpArm
  BY <1>11 DEF SpArm
<1>12. CASE SpLive
  BY <1>12 DEF SpLive
<1> QED BY <1>1, <1>2, <1>3, <1>4, <1>5, <1>6, <1>7, <1>8, <1>9, <1>10, <1>11, <1>12

(* The stops.                                                              *)
LEMMA StopParts ==
  ASSUME Steady, ~overlapped',
         \/ TakeStop \/ StreamBreak \/ StreamTake \/ StreamRestore \/ WorkerStopped
         \/ WatchdogStopped \/ Silent \/ BackoffEnds
         \/ \E t \in {"worker", "watchdog"} : Break(t) \/ Take(t) \/ Release(t) \/ Restore(t)
  PROVE  Parts'
<1>0. ~overlapped
  <2>1. CASE TakeStop \/ StreamBreak \/ StreamTake \/ StreamRestore \/ WorkerStopped
    BY <2>1 DEF TakeStop, StreamBreak, StreamTake, StreamRestore, WorkerStopped, workVars
  <2>2. CASE WatchdogStopped \/ BackoffEnds
    BY <2>2 DEF WatchdogStopped, BackoffEnds, workVars
  <2>3. CASE Silent
    BY <2>3 DEF Silent
  <2>4. CASE \E t \in {"worker", "watchdog"} : Break(t) \/ Take(t) \/ Release(t) \/ Restore(t)
    BY <2>4 DEF Break, Take, Release, Restore, workVars
  <2> QED BY <2>1, <2>2, <2>3, <2>4
<1> USE <1>0, Dispatches, WorkerIsThread, Places
    DEF At, Moves, Goes, acqVars, aside, subVars, lifeVars, workVars, Parts, Closing, Reports, Ended, Owned,
        Undisturbed, Shown, Worker, Watchdog, Live, SpSetup, Setup, Stopping, Unwinding, UdsPc,
        StopPc, StreamStopPc, LogSwitch, Looked, AskEngage
<1>1. CASE TakeStop
  <2>1. \A m \in {"Drop", "Disconnect"} : HasIn(mailbox', m) <=> HasIn(mailbox, m)
    BY <1>1, Mail DEF TakeStop, Steady
  <2> QED BY <1>1, <2>1 DEF TakeStop
<1>2. CASE StreamBreak
  BY <1>2 DEF StreamBreak
<1>3. CASE StreamTake
  BY <1>3 DEF StreamTake, NoStream, Exclusive
<1>4. CASE StreamRestore
  BY <1>4 DEF StreamRestore
<1>5. CASE WorkerStopped
  BY <1>5 DEF WorkerStopped
<1>6. CASE WatchdogStopped
  BY <1>6 DEF WatchdogStopped
<1>7. CASE Silent
  BY <1>7 DEF Silent
<1>8. CASE BackoffEnds
  BY <1>8 DEF BackoffEnds
<1>9. ASSUME NEW t \in {"worker", "watchdog"}, Break(t) PROVE Parts'
  BY <1>9 DEF Break
<1>10. ASSUME NEW t \in {"worker", "watchdog"}, Take(t) PROVE Parts'
  <2>1. /\ pc[t] = "take" /\ ~periodic'.live
        /\ pc' = [pc EXCEPT ![t] = IF periodic.live THEN "release" ELSE "stopped"]
        /\ UNCHANGED <<aside, streamed, stream, armed, held, hold, tap, lifeVars, mailbox>>
    BY <1>10 DEF Take, NoPeriodic
  <2>2. CASE t = "worker"
    BY <2>1, <2>2
  <2>3. CASE t = "watchdog"
    BY <2>1, <2>3
  <2> QED BY <2>2, <2>3
<1>11. ASSUME NEW t \in {"worker", "watchdog"}, Release(t) PROVE Parts'
  BY <1>11 DEF Release
<1>12. ASSUME NEW t \in {"worker", "watchdog"}, Restore(t) PROVE Parts'
  BY <1>12 DEF Restore
<1> QED BY <1>1, <1>2, <1>3, <1>4, <1>5, <1>6, <1>7, <1>8, <1>9, <1>10, <1>11, <1>12

(* The end of the session.                                                 *)
LEMMA EndParts ==
  ASSUME Steady, ~overlapped',
         \/ TakeDrop \/ TakeDisconnect \/ LinkBreaks \/ HostDisconnects
         \/ \E t \in Thread : AskUncancels(t) \/ AskSends(t)
  PROVE  Parts'
<1>0. ~overlapped
  <2>1. CASE TakeDrop \/ TakeDisconnect \/ LinkBreaks \/ HostDisconnects
    BY <2>1 DEF TakeDrop, TakeDisconnect, LinkBreaks, HostDisconnects, workVars
  <2>2. CASE \E t \in Thread : AskUncancels(t) \/ AskSends(t)
    BY <2>2 DEF AskUncancels, AskSends, workVars
  <2> QED BY <2>1, <2>2
<1> USE <1>0, Dispatches, WorkerIsThread, Places
    DEF At, Moves, Goes, acqVars, aside, subVars, lifeVars, workVars, Parts, Closing, Reports, Ended, Owned,
        Undisturbed, Shown, Worker, Watchdog, Live, SpSetup, Setup, Stopping, Unwinding, UdsPc,
        StopPc, StreamStopPc, Finish, LogSwitch
<1>1. CASE TakeDrop
  <2>1. /\ HasIn(mailbox', "Disconnect") <=> HasIn(mailbox, "Disconnect")
        /\ HasIn(mailbox', "Drop") => HasIn(mailbox, "Drop")
    BY <1>1, Mail DEF TakeDrop, Steady
  <2> QED BY <1>1, <2>1 DEF TakeDrop, NoStream, NoPeriodic
<1>2. CASE TakeDisconnect
  <2>1. /\ HasIn(mailbox, "Disconnect")
        /\ HasIn(mailbox', "Drop") <=> connected \/ HasIn(mailbox, "Drop")
    BY <1>2, MailOf DEF TakeDisconnect, Steady, Inv, Shape, Messages
  <2> QED BY <1>2, <2>1 DEF TakeDisconnect
<1>3. CASE LinkBreaks
  <2>1. /\ HasIn(mailbox', "Disconnect") <=> HasIn(mailbox, "Disconnect")
        /\ HasIn(mailbox', "Drop")
    BY <1>3, Mail DEF LinkBreaks, Steady
  <2> QED BY <1>3, <2>1 DEF LinkBreaks
<1>4. CASE HostDisconnects
  <2>1. /\ HasIn(mailbox', "Disconnect")
        /\ HasIn(mailbox', "Drop") <=> HasIn(mailbox, "Drop")
    BY <1>4, Mail DEF HostDisconnects, Steady
  <2> QED BY <1>4, <2>1 DEF HostDisconnects
<1>5. ASSUME NEW t \in Thread, AskUncancels(t) \/ AskSends(t) PROVE Parts'
  <2>1. \A m \in {"Drop", "Disconnect"} : HasIn(mailbox', m) <=> HasIn(mailbox, m)
    BY <1>5, Mail DEF AskUncancels, AskSends, Steady
  <2> QED BY <1>5, <2>1 DEF AskUncancels, AskSends
<1> QED BY <1>1, <1>2, <1>3, <1>4, <1>5

(* The host and the sniffer.                                               *)
LEMMA HostParts ==
  ASSUME Steady, ~overlapped',
         \/ \E s \in Subs : HostStarts(s) \/ HostPauses(s) \/ HostCancels(s)
         \/ HostRequestsStop \/ HostPins \/ HostUnpins \/ HostAsksStop \/ PinReads
  PROVE  Parts'
<1>0. ~overlapped
  BY DEF HostStarts, HostPauses, HostCancels, HostRequestsStop, HostPins, HostUnpins, HostAsksStop,
     PinReads, workVars
<1> USE <1>0, Dispatches, WorkerIsThread
    DEF At, Moves, Goes, acqVars, aside, subVars, lifeVars, workVars, Parts, Closing, Reports, Ended, Owned,
        Undisturbed, Shown, Worker, Watchdog, Live, AskEngage, HostCalls
<1>1. ASSUME NEW s \in Subs, HostStarts(s) PROVE Parts'
  BY <1>1 DEF HostStarts
<1>2. ASSUME NEW s \in Subs, HostPauses(s) \/ HostCancels(s) PROVE Parts'
  <2>1. /\ stream'.live = stream.live /\ periodic'.live = periodic.live
        /\ \E label \in {"askStop", "idle"} : pc' = [pc EXCEPT !["host"] = label]
        /\ UNCHANGED <<aside, streamed, armed, held, hold, tap, flagVars, lifeVars, mailbox,
                       workVars>>
    BY <1>2 DEF HostPauses, HostCancels, Detach, Steady, Whole, Sound, Records
  <2> QED BY <2>1
<1>3. CASE HostRequestsStop \/ HostAsksStop
  <2>1. \A m \in {"Drop", "Disconnect"} : HasIn(mailbox', m) <=> HasIn(mailbox, m)
    BY <1>3, Mail DEF HostRequestsStop, HostAsksStop, Steady
  <2> QED BY <1>3, <2>1 DEF HostRequestsStop, HostAsksStop
<1>4. CASE HostPins \/ HostUnpins \/ PinReads
  BY <1>4 DEF HostPins, HostUnpins, PinReads
<1> QED BY <1>1, <1>2, <1>3, <1>4

LEMMA SniffParts ==
  ASSUME Steady, ~overlapped',
         \/ SniffStarts \/ SniffWaits \/ SniffPauses \/ SniffNotes \/ SniffMonitors
         \/ SniffLeaves \/ SniffReturns
  PROVE  Parts'
<1>0. ~overlapped
  BY DEF SniffStarts, SniffWaits, SniffPauses, SniffNotes, SniffMonitors, SniffLeaves,
     SniffReturns, workVars
<1> USE <1>0, Dispatches, WorkerIsThread
    DEF At, Moves, Goes, acqVars, aside, subVars, lifeVars, workVars, Parts, Closing, Reports, Ended, Owned,
        Undisturbed, Shown, Worker, Watchdog, Live, AskEngage
<1>1. CASE SniffStarts \/ SniffWaits \/ SniffPauses \/ SniffNotes
  BY <1>1 DEF SniffStarts, SniffWaits, SniffPauses, PauseAll, SniffNotes
<1>2. CASE SniffMonitors
  BY <1>2 DEF SniffMonitors
<1>3. CASE SniffLeaves
  BY <1>3 DEF SniffLeaves
<1>4. CASE SniffReturns
  BY <1>4 DEF SniffReturns
<1> QED BY <1>1, <1>2, <1>3, <1>4

(* The windows.                                                            *)
LEMMA LadderTraced ==
  ASSUME Inv, Whole, Typed, Traced,
         \/ TakeEngage \/ BeatBegins \/ Settles \/ Gates \/ Commit \/ Fallback \/ ResetPhase
         \/ UdsCheck \/ UdsQuiesce \/ UdsHeader \/ UdsSetup \/ UdsFailed
         \/ UdsMonitor \/ UdsRecord \/ UdsHold \/ UdsArm
  PROVE  Traced'
<1> USE Reporters, WorkerIsThread, Places
    DEF At, Moves, Goes, Done, acqVars, aside, subVars, lifeVars, Traced, Closing, Reports,
        Windowed, Worker, Watchdog, Live, SpSetup, Setup, Unwinding, UdsPc, LogSwitch
<1>1. CASE TakeEngage
  <2>1. HasIn(mailbox', "Disconnect") <=> HasIn(mailbox, "Disconnect")
    BY <1>1, Mail DEF TakeEngage
  <2> QED BY <1>1, <2>1 DEF TakeEngage
<1>2. CASE BeatBegins \/ Settles \/ Gates \/ ResetPhase \/ UdsFailed
  BY <1>2 DEF BeatBegins, Settles, Gates, ResetPhase, UdsFailed
<1>3. CASE Commit \/ Fallback
  BY <1>3 DEF Commit, Fallback, CommitBlocked
<1>4. CASE UdsCheck \/ UdsHeader \/ UdsSetup
  BY <1>4 DEF UdsCheck, UdsHeader, UdsSetup
<1>5. CASE UdsQuiesce \/ UdsMonitor \/ UdsHold
  BY <1>5 DEF UdsQuiesce, PauseAll, UdsMonitor, UdsHold
<1>6. CASE UdsRecord
  BY <1>6 DEF UdsRecord
<1>7. CASE UdsArm
  BY <1>7 DEF UdsArm, Exclusive
<1> QED BY <1>1, <1>2, <1>3, <1>4, <1>5, <1>6, <1>7

LEMMA SpTraced ==
  ASSUME Inv, Whole, Typed, Traced,
         \/ SpCheck \/ SpQuiesce \/ SpStart \/ SpRecord \/ SpClocks \/ SpHold \/ SpArm \/ SpLive
  PROVE  Traced'
<1> USE Reporters, WorkerIsThread, Places
    DEF At, Moves, Goes, Done, acqVars, aside, subVars, lifeVars, Traced, Closing, Reports,
        Windowed, Worker, Watchdog, Live, SpSetup, Setup, Unwinding, UdsPc, LogSwitch
<1>1. CASE SpCheck
  BY <1>1 DEF SpCheck
<1>2. CASE SpQuiesce \/ SpClocks \/ SpHold
  BY <1>2 DEF SpQuiesce, PauseAll, SpClocks, SpHold
<1>3. CASE SpStart
  BY <1>3 DEF SpStart, SpAccepted, SpRefused, ResumeMany
<1>4. CASE SpRecord
  BY <1>4 DEF SpRecord
<1>5. CASE SpArm
  BY <1>5 DEF SpArm
<1>6. CASE SpLive
  BY <1>6 DEF SpLive, Exclusive
<1> QED BY <1>1, <1>2, <1>3, <1>4, <1>5, <1>6

LEMMA StopTraced ==
  ASSUME Inv, Whole, Typed, Traced,
         \/ TakeStop \/ StreamBreak \/ StreamTake \/ StreamRestore \/ WorkerStopped
         \/ WatchdogStopped \/ Silent \/ BackoffEnds
         \/ \E t \in {"worker", "watchdog"} : Break(t) \/ Take(t) \/ Release(t) \/ Restore(t)
  PROVE  Traced'
<1> USE Reporters, WorkerIsThread, Places
    DEF At, Moves, Goes, acqVars, aside, subVars, lifeVars, Traced, Closing, Reports, Windowed,
        Worker, Watchdog, Live, SpSetup, Setup, Unwinding, UdsPc, LogSwitch, AskEngage, Looked,
        Exclusive
<1>1. CASE TakeStop
  <2>1. HasIn(mailbox', "Disconnect") <=> HasIn(mailbox, "Disconnect")
    BY <1>1, Mail DEF TakeStop
  <2> QED BY <1>1, <2>1 DEF TakeStop
<1>2. CASE StreamBreak
  BY <1>2 DEF StreamBreak
<1>3. CASE StreamTake
  BY <1>3 DEF StreamTake, NoStream, Exclusive
<1>4. CASE StreamRestore
  BY <1>4 DEF StreamRestore
<1>5. CASE WorkerStopped
  BY <1>5 DEF WorkerStopped
<1>6. CASE WatchdogStopped \/ Silent \/ BackoffEnds
  BY <1>6 DEF WatchdogStopped, Silent, BackoffEnds
<1>7. ASSUME NEW t \in {"worker", "watchdog"}, Break(t) PROVE Traced'
  BY <1>7 DEF Break
<1>8. ASSUME NEW t \in {"worker", "watchdog"}, Take(t) PROVE Traced'
  <2>1. /\ pc[t] = "take" /\ ~periodic'.live
        /\ pc' = [pc EXCEPT ![t] = IF periodic.live THEN "release" ELSE "stopped"]
        /\ UNCHANGED <<aside, stream, lifeVars, mailbox>>
    BY <1>8 DEF Take, NoPeriodic
  <2>2. CASE t = "worker"
    BY <2>1, <2>2
  <2>3. CASE t = "watchdog"
    BY <2>1, <2>3
  <2> QED BY <2>2, <2>3
<1>9. ASSUME NEW t \in {"worker", "watchdog"}, Release(t) PROVE Traced'
  BY <1>9 DEF Release
<1>10. ASSUME NEW t \in {"worker", "watchdog"}, Restore(t) PROVE Traced'
  <2>1. CASE t = "worker"
    BY <1>10, <2>1 DEF Restore
  <2>2. CASE t = "watchdog"
    BY <1>10, <2>2 DEF Restore
  <2> QED BY <2>1, <2>2
<1> QED BY <1>1, <1>2, <1>3, <1>4, <1>5, <1>6, <1>7, <1>8, <1>9, <1>10

LEMMA EndTraced ==
  ASSUME Inv, Whole, Typed, Traced,
         \/ TakeDrop \/ TakeDisconnect \/ LinkBreaks \/ HostDisconnects
         \/ \E t \in Thread : AskUncancels(t) \/ AskSends(t)
  PROVE  Traced'
<1> USE Reporters, WorkerIsThread, Places
    DEF At, Moves, Goes, acqVars, aside, subVars, lifeVars, Traced, Closing, Reports, Windowed,
        Worker, Watchdog, Live, SpSetup, Setup, Unwinding, UdsPc, LogSwitch, Finish
<1>1. CASE TakeDrop
  <2>1. HasIn(mailbox', "Disconnect") <=> HasIn(mailbox, "Disconnect")
    BY <1>1, Mail DEF TakeDrop
  <2> QED BY <1>1, <2>1 DEF TakeDrop, NoStream, NoPeriodic
<1>2. CASE TakeDisconnect
  <2>1. HasIn(mailbox, "Disconnect")
    BY <1>2, Mail DEF TakeDisconnect
  <2> QED BY <1>2, <2>1 DEF TakeDisconnect
<1>3. CASE LinkBreaks
  <2>1. HasIn(mailbox', "Disconnect") <=> HasIn(mailbox, "Disconnect")
    BY <1>3, Mail DEF LinkBreaks
  <2> QED BY <1>3, <2>1 DEF LinkBreaks
<1>4. CASE HostDisconnects
  <2>1. HasIn(mailbox', "Disconnect")
    BY <1>4, Mail DEF HostDisconnects
  <2> QED BY <1>4, <2>1 DEF HostDisconnects
<1>5. ASSUME NEW t \in Thread, AskUncancels(t) \/ AskSends(t) PROVE Traced'
  <2>1. HasIn(mailbox', "Disconnect") <=> HasIn(mailbox, "Disconnect")
    BY <1>5, Mail DEF AskUncancels, AskSends
  <2> QED BY <1>5, <2>1 DEF AskUncancels, AskSends
<1> QED BY <1>1, <1>2, <1>3, <1>4, <1>5

LEMMA HostTraced ==
  ASSUME Inv, Whole, Typed, Traced,
         \/ \E s \in Subs : HostStarts(s) \/ HostPauses(s) \/ HostCancels(s)
         \/ HostRequestsStop \/ HostPins \/ HostUnpins \/ HostAsksStop \/ PinReads
         \/ SniffStarts \/ SniffWaits \/ SniffPauses \/ SniffNotes \/ SniffMonitors
         \/ SniffLeaves \/ SniffReturns
  PROVE  Traced'
<1> USE Reporters, WorkerIsThread
    DEF At, Moves, Goes, acqVars, aside, subVars, lifeVars, Traced, Closing, Reports, Windowed,
        Worker, Watchdog, Live, AskEngage, HostCalls
<1>1. ASSUME NEW s \in Subs, HostStarts(s) PROVE Traced'
  BY <1>1 DEF HostStarts
<1>2. ASSUME NEW s \in Subs, HostPauses(s) \/ HostCancels(s) PROVE Traced'
  <2>1. /\ stream'.live = stream.live /\ periodic'.live = periodic.live
        /\ \E label \in {"askStop", "idle"} : pc' = [pc EXCEPT !["host"] = label]
        /\ UNCHANGED <<aside, lifeVars, mailbox>>
    BY <1>2 DEF HostPauses, HostCancels, Detach, Whole, Sound, Records
  <2> QED BY <2>1
<1>3. CASE HostRequestsStop \/ HostAsksStop
  <2>1. HasIn(mailbox', "Disconnect") <=> HasIn(mailbox, "Disconnect")
    BY <1>3, Mail DEF HostRequestsStop, HostAsksStop
  <2> QED BY <1>3, <2>1 DEF HostRequestsStop, HostAsksStop
<1>4. CASE HostPins \/ HostUnpins \/ PinReads
  BY <1>4 DEF HostPins, HostUnpins, PinReads
<1>5. CASE SniffStarts \/ SniffWaits \/ SniffPauses \/ SniffNotes
  BY <1>5 DEF SniffStarts, SniffWaits, SniffPauses, PauseAll, SniffNotes
<1>6. CASE SniffMonitors \/ SniffLeaves \/ SniffReturns
  BY <1>6 DEF SniffMonitors, SniffLeaves, SniffReturns
<1> QED BY <1>1, <1>2, <1>3, <1>4, <1>5, <1>6

LEMMA NextTraced == Inv /\ Whole /\ Typed /\ Traced /\ [Next]_vars => Traced'
<1> SUFFICES ASSUME Inv, Whole, Typed, Traced, [Next]_vars PROVE Traced'
  OBVIOUS
<1>1. CASE UNCHANGED vars
  BY <1>1 DEF vars, aside, acqVars, lifeVars, Traced, Closing, Reports, Windowed, Worker,
     Watchdog, Live
<1>2. CASE WorkerStep \/ WatchdogStep
  BY <1>2, LadderTraced, SpTraced, StopTraced, EndTraced, WorkerIsThread
     DEF WorkerStep, WatchdogStep
<1>3. CASE HostStep \/ SniffStep
  BY <1>3, EndTraced, HostTraced, WorkerIsThread DEF HostStep, SniffStep
<1>4. CASE ~(WorkerStep \/ WatchdogStep \/ HostStep \/ SniffStep) /\ Next
  BY <1>4, StopTraced, EndTraced, HostTraced DEF Next
<1> QED BY <1>1, <1>2, <1>3, <1>4

LEMMA NextTyped == Typed /\ [Next]_vars => Typed'
<1> SUFFICES ASSUME Typed, [Next]_vars PROVE Typed'
  OBVIOUS
<1> USE DEF Typed, Tiers, acqVars, aside, LogSwitch, Finish
<1>1. CASE UNCHANGED vars
  BY <1>1 DEF vars
<1>2. CASE \/ TakeEngage \/ BeatBegins \/ Settles \/ Gates \/ Commit \/ Fallback \/ ResetPhase
           \/ UdsCheck \/ UdsQuiesce \/ UdsHeader \/ UdsSetup \/ UdsMonitor
  BY <1>2 DEF TakeEngage, BeatBegins, Settles, Gates, Commit, Fallback, ResetPhase, UdsCheck,
     UdsQuiesce, UdsHeader, UdsSetup, UdsMonitor
<1>3. CASE \/ UdsRecord \/ UdsHold \/ UdsArm \/ UdsFailed \/ SpCheck \/ SpQuiesce \/ SpStart
           \/ SpRecord \/ SpClocks \/ SpHold \/ SpArm \/ SpLive
  BY <1>3 DEF UdsRecord, UdsHold, UdsArm, UdsFailed, SpCheck, SpQuiesce, SpStart, SpRecord,
     SpClocks, SpHold, SpArm, SpLive
<1>4. CASE \/ TakeStop \/ StreamBreak \/ StreamTake \/ StreamRestore \/ WorkerStopped
           \/ WatchdogStopped \/ TakeDrop \/ TakeDisconnect
  BY <1>4 DEF TakeStop, StreamBreak, StreamTake, StreamRestore, WorkerStopped, WatchdogStopped,
     TakeDrop, TakeDisconnect
<1>5. ASSUME NEW t \in Thread,
             \/ Break(t) \/ Take(t) \/ Release(t) \/ Restore(t)
             \/ AskUncancels(t) \/ AskSends(t)
      PROVE  Typed'
  BY <1>5 DEF Break, Take, Release, Restore, AskUncancels, AskSends
<1>6. CASE HostStep \/ HostRequestsStop \/ HostPins \/ HostUnpins \/ HostDisconnects \/ LinkBreaks
  BY <1>5, <1>6, WorkerIsThread DEF HostStep, HostAsksStop, PinReads, HostRequestsStop, HostPins,
     HostUnpins, HostDisconnects, LinkBreaks
<1>7. ASSUME NEW s \in Subs, HostStarts(s) \/ HostPauses(s) \/ HostCancels(s) PROVE Typed'
  BY <1>7 DEF HostStarts, HostPauses, HostCancels
<1>8. CASE \/ SniffStarts \/ SniffWaits \/ SniffPauses \/ SniffNotes \/ SniffMonitors
           \/ SniffLeaves \/ SniffReturns \/ Silent \/ BackoffEnds
  BY <1>8 DEF SniffStarts, SniffWaits, SniffPauses, SniffNotes, SniffMonitors, SniffLeaves,
     SniffReturns, Silent, BackoffEnds
<1> QED BY <1>1, <1>2, <1>3, <1>4, <1>5, <1>6, <1>7, <1>8, WorkerIsThread
        DEF Next, WorkerStep, WatchdogStep, SniffStep

LEMMA NextSteady == Steady /\ [Next]_vars => Steady'
<1> SUFFICES ASSUME Steady, [Next]_vars PROVE Steady'
  OBVIOUS
<1>1. Inv' /\ Whole' /\ Typed' /\ Traced'
  BY NextInv, NextTold, NextTyped, NextTraced DEF Steady
<1>2. ASSUME ~overlapped' PROVE Parts'
  <2>1. CASE UNCHANGED vars
    BY <1>2, <2>1, Dispatches DEF vars, aside, acqVars, subVars, lifeVars, workVars, Parts, Ended,
       Owned, Undisturbed, Shown, Worker, Watchdog, Live
  <2>2. CASE WorkerStep \/ WatchdogStep
    BY <1>2, <2>2, LadderParts, InstallParts, StopParts, EndParts, WorkerIsThread
       DEF WorkerStep, WatchdogStep
  <2>3. CASE HostStep \/ SniffStep
    BY <1>2, <2>3, EndParts, HostParts, SniffParts, WorkerIsThread DEF HostStep, SniffStep
  <2>4. CASE ~(WorkerStep \/ WatchdogStep \/ HostStep \/ SniffStep) /\ Next
    BY <1>2, <2>4, StopParts, EndParts, HostParts, SniffParts DEF Next
  <2> QED BY <2>1, <2>2, <2>3, <2>4
<1> QED BY <1>1, <1>2 DEF Steady

LEMMA InitSteady == Init => Steady
  BY InitInv, InitWhole, WorkerIsThread
     DEF Init, Steady, Typed, Tiers, Traced, Closing, Reports, Windowed, Unwinding, Parts, Ended,
         Owned, Undisturbed, Shown, Worker, Watchdog,
         NoStream, NoPeriodic, HasIn, Setup, UdsPc, SpSetup, Live

(* Once every thread is through, the session is what it shows: nothing     *)
(* stays held, skipped, tapped or paused for an acquisition that is gone,  *)
(* and a lost link leaves nothing behind for the next.                     *)
THEOREM SettledHolds == Spec => []Settled
<1>1. Steady => Settled
  <2> SUFFICES ASSUME Steady, ~overlapped, Quiet
               PROVE  /\ ~connected => ~Live /\ ~hold
                      /\ ~terminal => /\ ~Live => Restored
                                      /\ phase = "Live" => Live
                                      /\ phase # "Stopping"
    BY DEF Settled
  <2>1. /\ pc["worker"] = "idle" /\ pc["watchdog"] = "idle" /\ pc["sniffer"] = "idle"
        /\ \A m : ~HasIn(mailbox, m)
    BY WorkerIsThread DEF Quiet, HasIn
  <2>2. Parts /\ tap \in {"nobody", "stream", "periodic", "sink"}
    BY Dispatches DEF Steady, Typed
  <2>3. hold => Live
    BY <2>1, <2>2 DEF Parts, Owned, Worker, Watchdog
  <2>4. ~connected => ~Live
    BY <2>1, <2>2 DEF Parts, Ended
  <2>5. ~terminal => (phase = "Live" => Live) /\ phase # "Stopping" /\ (~Live => streamed = {})
    BY <2>1, <2>2 DEF Parts, Shown, Worker, Watchdog, Unwinding, Stopping, StopPc, StreamStopPc,
       Live
  <2>6. ASSUME ~terminal, ~Live PROVE tap = "nobody"
    BY <2>1, <2>2, <2>6 DEF Parts, Owned, Worker, Watchdog, Live
  <2>7. ASSUME ~terminal, ~Live, NEW s \in Subs, sub[s] = "paused"
        PROVE  s \in hostPaused \cup stranded
    <3>1. Cleared /\ Noted
      BY <2>7 DEF Steady, Whole, Told
    <3>2. Lists = {}
      BY <2>1, <2>7, <3>1 DEF Cleared, Lists, Live, HoldsList
    <3> QED BY <2>7, <3>1, <3>2 DEF Noted
  <2> QED BY <2>3, <2>4, <2>5, <2>6, <2>7 DEF Restored
<1> QED BY <1>1, InitSteady, NextSteady, PTL DEF Spec

(* Unless its last report came too late - a stop's after the end, the     *)
(* watchdog's over a new set-up, an arming's for messages the watchdog had *)
(* taken - the health tracker counts in the window of what runs, and in    *)
(* none after the end.  No other report is ever late, overlapped or not.   *)
THEOREM WindowsTrue == Spec => []WindowTrue
<1>1. Steady => WindowTrue
  <2> SUFFICES ASSUME Steady, ~overtaken, Quiet PROVE window = Running
    BY DEF WindowTrue
  <2>1. pc["worker"] = "idle" /\ pc["watchdog"] = "idle" /\ \A m : ~HasIn(mailbox, m)
    BY WorkerIsThread DEF Quiet, HasIn
  <2>2. Closing /\ Windowed /\ Exclusive /\ window \in Tiers \cup {"none"}
    BY Reporters DEF Steady, Typed, Traced
  <2>3. CASE terminal
    BY <2>1, <2>2, <2>3 DEF Windowed, Running
  <2>4. CASE ~terminal
    BY <2>1, <2>2, <2>4
       DEF Closing, Windowed, Exclusive, Running, Worker, Watchdog, Unwinding, Tiers
  <2> QED BY <2>3, <2>4
<1> QED BY <1>1, InitSteady, NextSteady, PTL DEF Spec
=============================================================================
