--------------------------- MODULE DeliveryProofs ---------------------------
(***************************************************************************)
(* The platform and its delivery thread implement the exchange, for any    *)
(* number of commands, troubles and bytes: every step is a step of the     *)
(* exchange or changes nothing of it.  And a reply meets the command it    *)
(* answers, or one was given up.                                           *)
(***************************************************************************)
EXTENDS Delivery, SequenceTheorems, WellFoundedInduction, TLAPS

IsArmed(msg) == msg.kind = "Armed"
Pended == IF sender.pc = "pended" THEN {sender.cmd} ELSE {}
ArmedIn(q) == {i \in DOMAIN q : IsArmed(q[i])}
InMail == {mail[i].cmd : i \in ArmedIn(mail)}

(* The commands travel in the order of their numbers: the armed one first, *)
(* those in the mail, and the one that is pending but not posted.          *)
InOrder ==
  /\ armed <= nsent
  /\ \A i \in ArmedIn(mail) : armed < mail[i].cmd /\ mail[i].cmd <= nsent
  /\ \A i, j \in ArmedIn(mail) : i < j => mail[i].cmd < mail[j].cmd

PendedLast ==
  sender.pc = "pended" => /\ sender.cmd = nsent /\ armed < nsent
                          /\ \A i \in ArmedIn(mail) : mail[i].cmd < nsent

Numbered ==
  /\ InOrder /\ PendedLast
  /\ busy \in {Nobody, nsent} /\ pending <= nsent
  /\ sender.cmd <= nsent /\ (sender.pc # "idle" => sender.cmd # Nobody)
  /\ \A t \in Threads : run[t].cmd <= nsent
  /\ \A i \in DOMAIN owed : owed[i] <= nsent
  /\ \A i \in DOMAIN fed : fed[i].kind \notin {"Armed", "Disarm"}

(* Nobody but the processor's outstanding command waits for an answer it   *)
(* will get.                                                               *)
OneLive == OnTheWire \subseteq abandoned \cup {busy}

(* A command whose callbacks run has left the wire.                        *)
RunsOff == \A t \in Threads : run[t].pc # "idle" => run[t].cmd \notin OnTheWire \ abandoned

(* A Disarm only reaches commands that were given up.                      *)
DisarmsGivenUp ==
  \A i \in DOMAIN mail : mail[i].kind = "Disarm" =>
    /\ armed \in abandoned \cup {Nobody}
    /\ \A j \in ArmedIn(mail) : j < i => mail[j].cmd \in abandoned

Inv == TypeOK /\ Numbered /\ OneLive /\ RunsOff /\ DisarmsGivenUp

-----------------------------------------------------------------------------
(* The mail.                                                               *)
LEMMA Letters ==
  /\ \A c \in 0 .. MaxSends : Armed(c) \in Msg /\ IsArmed(Armed(c)) /\ Armed(c).cmd = c
  /\ \A kind \in {"Disarm", "Dropped"} :
       Plain(kind) \in Msg /\ ~IsArmed(Plain(kind)) /\ Plain(kind).kind = kind
  /\ \A kind \in {"Response", "Line"}, text \in SUBSET Piece :
       Event(kind, text) \in Msg /\ Event(kind, text).kind = kind
  BY ConstantsAssumption DEF Armed, Plain, Event, Msg, IsArmed, Nobody

LEMMA Wire ==
  OnTheWire = InMail \cup ({armed} \ {Nobody}) \cup Pended
  BY DEF InMail, OnTheWire, Mailed, Pended, ArmedIn, IsArmed

(* What is on the wire has a number.                                       *)
LEMMA Typed ==
  ASSUME TypeOK
  PROVE  /\ mail \in Seq(Msg) /\ \A i \in DOMAIN mail : mail[i] \in Msg /\ i \in Nat \ {0}
         /\ \A i \in DOMAIN mail : mail[i].cmd \in 0 .. MaxSends
         /\ fed \in Seq(Msg) /\ armed \in 0 .. MaxSends /\ nsent \in 0 .. MaxSends
         /\ busy \in 0 .. MaxSends /\ pending \in 0 .. MaxSends /\ sender.cmd \in 0 .. MaxSends
         /\ \A t \in Threads : run[t].cmd \in 0 .. MaxSends
<1>1. mail \in Seq(Msg) /\ fed \in Seq(Msg) /\ sender.cmd \in 0 .. MaxSends
      /\ nsent \in 0 .. MaxSends /\ \A t \in Threads : run[t].cmd \in 0 .. MaxSends
  BY DEF TypeOK
<1>2. \A i \in DOMAIN mail : mail[i] \in Msg /\ i \in Nat \ {0}
  BY <1>1
<1>3. \A m \in Msg : m.cmd \in 0 .. MaxSends
  BY DEF Msg
<1>4. armed \in 0 .. MaxSends /\ busy \in 0 .. MaxSends /\ pending \in 0 .. MaxSends
  BY ConstantsAssumption DEF TypeOK, Nobody, Cmds
<1> QED BY <1>1, <1>2, <1>3, <1>4

LEMMA WireNumbered ==
  ASSUME Inv PROVE OnTheWire \subseteq 1 .. nsent /\ nsent \in Nat /\ OnTheWire \subseteq Cmds
<1>1. nsent \in 0 .. MaxSends /\ armed \in 0 .. MaxSends /\ sender.cmd \in 0 .. MaxSends
  BY Typed DEF Inv
<1>2. \A i \in ArmedIn(mail) : mail[i].cmd \in 0 .. MaxSends
  BY Typed DEF Inv, ArmedIn
<1>3. InMail \subseteq 1 .. nsent
  BY <1>1, <1>2 DEF Inv, Numbered, InOrder, InMail
<1>4. Pended \subseteq 1 .. nsent /\ {armed} \ {Nobody} \subseteq 1 .. nsent
  BY <1>1 DEF Inv, Numbered, InOrder, PendedLast, Pended, Nobody
<1>5. 1 .. nsent \subseteq Cmds
  BY <1>1, ConstantsAssumption DEF Cmds
<1>6. nsent \in Nat
  BY <1>1, ConstantsAssumption
<1> QED BY <1>3, <1>4, <1>5, <1>6, Wire

-----------------------------------------------------------------------------
(* Types.                                                                  *)
LEMMA AnswerTyped ==
  ASSUME TypeOK, NEW t \in Threads, NEW c \in Cmds, NEW texts, Answer(t, c, texts)
  PROVE  /\ (run \in [Threads -> [pc : {"idle", "data", "completion"}, cmd : 0 .. MaxSends]])'
         /\ (answers \in [Cmds -> Nat])' /\ (late \subseteq Cmds)'
<1>1. c \in 0 .. MaxSends
  BY ConstantsAssumption DEF Cmds
<1>2. (run \in [Threads -> [pc : {"idle", "data", "completion"}, cmd : 0 .. MaxSends]])'
  BY <1>1 DEF Answer, TypeOK
<1>3. (answers \in [Cmds -> Nat])' /\ (late \subseteq Cmds)'
  <2>1. answers' = [answers EXCEPT ![c] = answers[c] + 1] /\ late' \in {late, late \cup {c}}
    BY DEF Answer
  <2> QED BY <2>1 DEF TypeOK
<1> QED BY <1>2, <1>3

LEMMA SenderTyped == ASSUME Inv, Sender \/ Abort PROVE TypeOK'
<1> USE ConstantsAssumption DEF stateVars, accVars, linkVars, history, Trouble
<1>0. sender.pc # "idle" => sender.cmd \in Cmds
  BY Typed DEF Inv, Numbered, Nobody, Cmds
<1>1. CASE SendPends
  BY <1>1 DEF SendPends, Inv, TypeOK, Cmds, Nobody
<1>2. CASE SendArms
  <2>1. Armed(sender.cmd) \in Msg
    BY Letters DEF Inv, TypeOK
  <2>2. mail' \in Seq(Msg)
    BY <1>2, <2>1 DEF SendArms, Inv, TypeOK, Post
  <2>3. sender' \in [pc : {"idle", "pended", "armed", "settling"}, cmd : 0 .. MaxSends]
    BY <1>2 DEF SendArms, Inv, TypeOK
  <2> QED BY <1>2, <2>2, <2>3 DEF SendArms, Inv, TypeOK
<1>3. CASE SendWrites
  <2>1. Idle \in [pc : {"idle", "pended", "armed", "settling"}, cmd : 0 .. MaxSends]
    BY DEF Idle, Nobody
  <2>2. (owed \in Seq(Cmds))'
    BY <1>0, <1>3 DEF SendWrites, Inv, TypeOK
  <2> QED BY <1>3, <2>1, <2>2 DEF SendWrites, Inv, TypeOK
<1>4. CASE SendSettles
  <2>1. Plain("Disarm") \in Msg
    BY Letters
  <2>2. sender.cmd \in Cmds
    BY <1>0, <1>4 DEF SendSettles
  <2>3. "sender" \in Threads
    BY DEF Threads
  <2>4. /\ (run \in [Threads -> [pc : {"idle", "data", "completion"}, cmd : 0 .. MaxSends]])'
        /\ (answers \in [Cmds -> Nat])' /\ (late \subseteq Cmds)'
    BY <1>4, <2>2, <2>3, AnswerTyped DEF SendSettles, Inv
  <2>5. (abandoned \subseteq Cmds)'
    BY <1>4, <2>2, WireNumbered DEF SendSettles, Inv, TypeOK
  <2>6. mail' \in Seq(Msg)
    BY <1>4, <2>1 DEF SendSettles, Inv, TypeOK, Post
  <2>7. sender' \in [pc : {"idle", "pended", "armed", "settling"}, cmd : 0 .. MaxSends]
    BY <1>4 DEF SendSettles, Inv, TypeOK
  <2>8. budget' \in 0 .. MaxTrouble
    BY <1>4 DEF SendSettles, Inv, TypeOK
  <2> QED BY <1>4, <2>4, <2>5, <2>6, <2>7, <2>8 DEF SendSettles, Inv, TypeOK
<1>5. CASE SendReturns
  <2>1. Idle \in [pc : {"idle", "pended", "armed", "settling"}, cmd : 0 .. MaxSends]
    BY DEF Idle, Nobody
  <2> QED BY <1>5, <2>1 DEF SendReturns, Inv, TypeOK
<1>6. CASE Abort
  BY <1>6 DEF Abort, Inv, TypeOK, Cmds
<1> QED BY <1>1, <1>2, <1>3, <1>4, <1>5, <1>6 DEF Sender

LEMMA WorkerTyped == ASSUME Inv, WorkerMain \/ (\E t \in Threads : Callback(t)) PROVE TypeOK'
<1> USE ConstantsAssumption DEF stateVars, accVars, linkVars, history
<1>0. mail # <<>> => Tail(mail) \in Seq(Msg) /\ Head(mail) \in Msg
  BY DEF Inv, TypeOK
<1>1. CASE TakeArmed
  <2>1. Head(mail).cmd \in Cmds \cup {Nobody}
    BY <1>0, <1>1 DEF TakeArmed, Takes, Msg, Cmds, Nobody
  <2> QED BY <1>0, <1>1, <2>1 DEF TakeArmed, Takes, Inv, TypeOK
<1>2. CASE TakeDisarm
  BY <1>0, <1>2 DEF TakeDisarm, Takes, Inv, TypeOK
<1>3. CASE TakeLine
  BY <1>0, <1>3 DEF TakeLine, Takes, Inv, TypeOK
<1>4. CASE TakeResponse
  <2>1. CASE armed = Nobody
    BY <1>0, <1>4, <2>1 DEF TakeResponse, Takes, Inv, TypeOK
  <2>2. CASE armed # Nobody
    <3>1. armed \in Cmds /\ "delivery" \in Threads
      BY <2>2 DEF Inv, TypeOK, Threads
    <3>2. \E texts : Answer("delivery", armed, texts)
      BY <1>4, <2>2 DEF TakeResponse
    <3>3. /\ (run \in [Threads -> [pc : {"idle", "data", "completion"}, cmd : 0 .. MaxSends]])'
          /\ (answers \in [Cmds -> Nat])' /\ (late \subseteq Cmds)'
      BY <3>1, <3>2, AnswerTyped DEF Inv
    <3> QED BY <1>0, <1>4, <2>2, <3>3 DEF TakeResponse, Takes, Inv, TypeOK
  <2> QED BY <2>1, <2>2
<1>5. CASE TimerFires
  <2>1. armed \in Cmds /\ "delivery" \in Threads
    BY <1>5 DEF TimerFires, Inv, TypeOK, Threads
  <2>2. /\ (run \in [Threads -> [pc : {"idle", "data", "completion"}, cmd : 0 .. MaxSends]])'
        /\ (answers \in [Cmds -> Nat])' /\ (late \subseteq Cmds)'
    BY <1>5, <2>1, AnswerTyped DEF TimerFires, Inv
  <2> QED BY <1>5, <2>2 DEF TimerFires, Inv, TypeOK
<1>6. ASSUME NEW t \in Threads, Callback(t) PROVE TypeOK'
  <2>1. busy' \in Cmds \cup {Nobody}
    BY <1>6 DEF Callback, DataCallback, CompletionCallback, Completes, Inv, TypeOK
  <2>2. CASE DataCallback(t)
    BY <2>1, <2>2 DEF DataCallback, Inv, TypeOK
  <2>3. CASE CompletionCallback(t)
    BY <2>1, <2>3 DEF CompletionCallback, Inv, TypeOK, Idle, Nobody
  <2> QED BY <1>6, <2>2, <2>3 DEF Callback
<1> QED BY <1>1, <1>2, <1>3, <1>4, <1>5, <1>6 DEF WorkerMain

LEMMA HostTyped == ASSUME Inv, Host \/ Monitor PROVE TypeOK'
<1> USE ConstantsAssumption DEF stateVars, accVars, linkVars, history, Trouble
<1>0. "host" \in Threads /\ Plain("Disarm") \in Msg
  BY Letters DEF Threads
<1>1. CASE DropPosts
  <2>1. mail' \in Seq(Msg) /\ abandoned' \subseteq Cmds
    BY <1>0, <1>1, WireNumbered DEF DropPosts, Post, Inv, TypeOK
  <2> QED BY <1>1, <2>1 DEF DropPosts, Inv, TypeOK
<1>2. CASE DropResets
  BY <1>2 DEF DropResets, Inv, TypeOK
<1>3. CASE DropFails
  <2>1. CASE up /\ pending # Nobody
    <3>1. pending \in Cmds /\ Answer("host", pending, {})
      BY <1>3, <2>1 DEF DropFails, Inv, TypeOK
    <3>2. /\ (run \in [Threads -> [pc : {"idle", "data", "completion"}, cmd : 0 .. MaxSends]])'
          /\ (answers \in [Cmds -> Nat])' /\ (late \subseteq Cmds)'
      BY <1>0, <3>1, AnswerTyped DEF Inv
    <3> QED BY <1>3, <2>1, <3>1, <3>2 DEF DropFails, Inv, TypeOK
  <2>2. CASE ~(up /\ pending # Nobody)
    BY <1>3, <2>2 DEF DropFails, Inv, TypeOK
  <2> QED BY <2>1, <2>2
<1>4. CASE Reconnect
  BY <1>4 DEF Reconnect, Inv, TypeOK
<1>5. CASE ReceiveResponse
  <2>1. PICK i \in DOMAIN owed :
          /\ Answer("host", owed[i], {})
          /\ abandoned' = abandoned \cup OnTheWire \cup {owed[i]}
          /\ owed' = [j \in 1 .. (Len(owed) - 1) |-> IF j < i THEN owed[j] ELSE owed[j + 1]]
    BY <1>5 DEF ReceiveResponse
  <2>2. owed \in Seq(Cmds) /\ owed[i] \in Cmds /\ DOMAIN owed = 1 .. Len(owed) /\ Len(owed) \in Nat
    BY DEF Inv, TypeOK
  <2>3. owed' \in Seq(Cmds)
    <3>1. Len(owed) - 1 \in Nat
      BY <2>2
    <3>2. owed' \in [1 .. (Len(owed) - 1) -> Cmds]
      BY <2>1, <2>2
    <3> QED BY <3>1, <3>2
  <2>4. /\ (run \in [Threads -> [pc : {"idle", "data", "completion"}, cmd : 0 .. MaxSends]])'
        /\ (answers \in [Cmds -> Nat])' /\ (late \subseteq Cmds)'
    BY <1>0, <2>1, <2>2, AnswerTyped DEF Inv
  <2>5. mail' \in Seq(Msg)
    BY <1>0, <1>5 DEF ReceiveResponse, Post, Inv, TypeOK
  <2>6. abandoned' \subseteq Cmds
    BY <2>1, <2>2, WireNumbered DEF Inv, TypeOK
  <2>7. budget' \in 0 .. MaxTrouble
    BY <1>5 DEF ReceiveResponse, Inv, TypeOK
  <2> QED BY <1>5, <2>3, <2>4, <2>5, <2>6, <2>7 DEF ReceiveResponse, Inv, TypeOK
<1>6. CASE InjectError
  BY <1>6 DEF InjectError, Inv, TypeOK
<1>7. CASE Monitor
  <2> USE DEF MonitorMoves, SetMode, Modes, Inv, TypeOK
  <2>1. CASE EnterMonitor
    BY <2>1 DEF EnterMonitor
  <2>2. CASE EnterMode
    BY <2>2 DEF EnterMode
  <2>3. CASE ExitMonitor
    BY <2>3 DEF ExitMonitor
  <2>4. CASE ExitMode
    BY <2>4 DEF ExitMode
  <2> QED BY <1>7, <2>1, <2>2, <2>3, <2>4 DEF Monitor
<1> QED BY <1>1, <1>2, <1>3, <1>4, <1>5, <1>6, <1>7 DEF Host

LEMMA TextsTyped ==
  ASSUME TypeOK, NEW chunk \in Seq(Bytes) PROVE Texts(chunk) \subseteq Piece
<1>1. \A i \in DOMAIN chunk : chunk[i] \in Bytes
  OBVIOUS
<1>2. \A b \in Bytes : [of |-> b.of, mode |-> mode] \in Piece
  BY DEF Bytes, Piece, TypeOK
<1> QED BY <1>1, <1>2 DEF Texts

LEMMA SeqOf == ASSUME NEW S, NEW n \in Nat, NEW f \in [1 .. n -> S] PROVE f \in Seq(S)
  OBVIOUS

LEMMA Cuts ==
  ASSUME NEW S, NEW s \in Seq(S), NEW m \in 1 .. Len(s) + 1, NEW n \in 0 .. Len(s)
  PROVE  SubSeq(s, m, n) \in Seq(S)
<1>1. m \in Int /\ n \in Int /\ Len(s) \in Nat
  OBVIOUS
<1>2. \A i \in m .. n : s[i] \in S
  BY <1>1
<1> QED BY <1>1, <1>2, SubSeqProperties

(* The last prompt, or the last end of line, is a place in the chunk.      *)
LEMMA LastIn ==
  ASSUME NEW chunk \in Seq(Bytes), NEW sym PROVE Last(chunk, sym) \in 0 .. Len(chunk)
<1> DEFINE at == {i \in DOMAIN chunk : chunk[i].sym = sym}
           Greater == OpToRel(<, Nat)
           gaps == {Len(chunk) - i : i \in at}
<1>1. Len(chunk) \in Nat /\ at \subseteq 1 .. Len(chunk)
  OBVIOUS
<1>2. CASE at = {}
  BY <1>1, <1>2 DEF Last
<1>3. CASE at # {}
  <2>1. gaps \subseteq Nat /\ gaps # {}
    BY <1>1, <1>3
  <2>2. \A x, y \in Nat : <<y, x>> \in Greater <=> y < x
    BY DEF OpToRel
  <2>3. IsWellFoundedOn(Greater, Nat)
    BY NatLessThanWellFounded
  <2> HIDE DEF Greater
  <2>4. PICK x \in gaps : \A y \in gaps : ~(<<y, x>> \in Greater)
    BY <2>1, <2>3, WFMin
  <2>5. \A y \in gaps : x <= y
    <3>1. SUFFICES ASSUME NEW y \in gaps PROVE x <= y
      OBVIOUS
    <3>2. x \in Nat /\ y \in Nat
      BY <2>1
    <3>3. ~(y < x)
      BY <2>2, <2>4, <3>2, Zenon
    <3> QED BY <3>2, <3>3
  <2>6. PICK i \in at : x = Len(chunk) - i
    BY <2>4
  <2>7. \A j \in at : j <= i
    <3>1. SUFFICES ASSUME NEW j \in at PROVE j <= i
      OBVIOUS
    <3>2. x <= Len(chunk) - j
      BY <2>5
    <3> QED BY <1>1, <2>6, <3>2
  <2>8. (CHOOSE k \in at : \A j \in at : j <= k) \in at
    BY <2>7
  <2> HIDE DEF at
  <2>9. Last(chunk, sym) \in at
    BY <1>3, <2>8 DEF Last, at
  <2> QED BY <1>1, <2>9
<1> QED BY <1>2, <1>3

LEMMA ReaderTyped == ASSUME Inv, Adapter \/ Reader PROVE TypeOK'
<1> USE ConstantsAssumption DEF stateVars, accVars, linkVars, history, Trouble
<1>1. CASE Reply
  <2>1. Head(owed) \in 0 .. MaxSends /\ owed' \in Seq(Cmds)
    <3>1. owed \in Seq(Cmds) /\ owed # <<>> /\ owed' = Tail(owed)
      BY <1>1 DEF Reply, Inv, TypeOK
    <3>2. Head(owed) \in Cmds /\ owed' \in Seq(Cmds)
      BY <3>1
    <3> QED BY <3>2 DEF Cmds
  <2> DEFINE word == [i \in 1 .. 3 |->
                        [of |-> Head(owed), sym |-> <<"text", "eol", "prompt">>[i]]]
  <2>2. \A i \in 1 .. 3 : <<"text", "eol", "prompt">>[i] \in {"text", "eol", "prompt"}
    OBVIOUS
  <2>3. word \in [1 .. 3 -> Bytes]
    BY <2>1, <2>2 DEF Bytes
  <2>4. air' = air \o word /\ air \in Seq(Bytes)
    BY <1>1 DEF Reply, Inv, TypeOK
  <2> HIDE DEF word
  <2>5. word \in Seq(Bytes)
    BY <2>3, SeqOf
  <2>6. air' \in Seq(Bytes)
    BY <2>4, <2>5
  <2> QED BY <1>1, <2>1, <2>6 DEF Reply, Inv, TypeOK
<1>2. CASE Skip
  <2>1. owed' \in Seq(Cmds)
    BY <1>2 DEF Skip, Inv, TypeOK
  <2> QED BY <1>2, <2>1 DEF Skip, Inv, TypeOK
<1>3. CASE Noise
  <2>1. /\ [of |-> Nobody, sym |-> "text"] \in Bytes /\ [of |-> Nobody, sym |-> "eol"] \in Bytes
        /\ [of |-> Nobody, sym |-> "prompt"] \in Bytes
    BY DEF Bytes, Nobody
  <2>2. <<[of |-> Nobody, sym |-> "text"], [of |-> Nobody, sym |-> "eol"]>> \in Seq(Bytes)
    BY <2>1
  <2>3. air \in Seq(Bytes)
    BY DEF Inv, TypeOK
  <2>4. air' \in Seq(Bytes)
    <3>1. CASE air' = Append(air, [of |-> Nobody, sym |-> "prompt"])
      BY <2>1, <2>3, <3>1
    <3>2. CASE air' = air \o <<[of |-> Nobody, sym |-> "text"], [of |-> Nobody, sym |-> "eol"]>>
      BY <2>2, <2>3, <3>2
    <3> QED BY <1>3, <3>1, <3>2 DEF Noise
  <2> QED BY <1>3, <2>4 DEF Noise, Inv, TypeOK
<1>4. CASE FeedBytes
  <2>1. PICK k \in 1 .. Len(air) :
          LET chunk == SubSeq(air, 1, k)
          IN /\ IF mode = "Prompt" THEN DrainPrompt(chunk)
                ELSE Last(SubSeq(chunk, 1, k - 1), "eol") = 0 /\ DrainLines(chunk)
             /\ air' = SubSeq(air, k + 1, Len(air))
    BY <1>4 DEF FeedBytes
  <2> DEFINE chunk == SubSeq(air, 1, k)
  <2>2. air \in Seq(Bytes) /\ Len(air) \in Nat
    BY DEF Inv, TypeOK
  <2>3. chunk \in Seq(Bytes) /\ air' \in Seq(Bytes)
    BY <2>1, <2>2, Cuts
  <2> HIDE DEF chunk
  <2>4. buffer' \in SUBSET Piece /\ fed' \in Seq(Msg)
    <3>1. Len(chunk) \in Nat /\ buffer \subseteq Piece /\ <<>> \in Seq(Msg)
      BY <2>3 DEF Inv, TypeOK
    <3>2. Texts(chunk) \subseteq Piece
      BY <2>3, TextsTyped DEF Inv
    <3>3. \A sym : LET p == Last(chunk, sym)
                   IN  /\ Texts(SubSeq(chunk, 1, p)) \subseteq Piece
                       /\ Texts(SubSeq(chunk, p + 1, Len(chunk))) \subseteq Piece
      <4>1. SUFFICES ASSUME NEW sym
                     PROVE  /\ SubSeq(chunk, 1, Last(chunk, sym)) \in Seq(Bytes)
                            /\ SubSeq(chunk, Last(chunk, sym) + 1, Len(chunk)) \in Seq(Bytes)
        BY TextsTyped DEF Inv
      <4>2. Last(chunk, sym) \in 0 .. Len(chunk)
        BY <2>3, LastIn
      <4>3. 1 \in 1 .. Len(chunk) + 1 /\ Last(chunk, sym) + 1 \in 1 .. Len(chunk) + 1
            /\ Len(chunk) \in 0 .. Len(chunk)
        BY <3>1, <4>2
      <4> QED BY <2>3, <4>2, <4>3, Cuts
    <3>4. CASE mode = "Prompt"
      <4>1. DrainPrompt(chunk)
        BY <2>1, <3>4 DEF chunk
      <4> DEFINE text == buffer \cup Texts(SubSeq(chunk, 1, Last(chunk, "prompt")))
      <4>2. text \subseteq Piece
        BY <3>1, <3>3
      <4>3. /\ buffer' \in {buffer \cup Texts(chunk), {}}
            /\ fed' \in {<<>>, <<Plain("Dropped")>>, <<Event("Response", text)>>}
        BY <4>1 DEF DrainPrompt
      <4>4. Event("Response", text) \in Msg /\ Plain("Dropped") \in Msg
        BY <4>2, Letters
      <4>5. <<Event("Response", text)>> \in Seq(Msg) /\ <<Plain("Dropped")>> \in Seq(Msg)
        BY <4>4
      <4> HIDE DEF text
      <4>6. buffer' \in SUBSET Piece
        BY <3>1, <3>2, <4>3
      <4>7. fed' \in Seq(Msg)
        BY <3>1, <4>3, <4>5
      <4> QED BY <4>6, <4>7
    <3>5. CASE mode # "Prompt"
      <4>1. DrainLines(chunk)
        BY <2>1, <3>5 DEF chunk
      <4> DEFINE line == buffer \cup Texts(SubSeq(chunk, 1, Last(chunk, "eol")))
                 rest == Texts(SubSeq(chunk, Last(chunk, "eol") + 1, Len(chunk)))
      <4>2. line \subseteq Piece /\ rest \subseteq Piece
        BY <3>1, <3>3
      <4>3. /\ buffer' \in {buffer \cup Texts(chunk), rest}
            /\ fed' \in {<<>>, <<Event("Line", line)>>}
        BY <4>1 DEF DrainLines
      <4>4. Event("Line", line) \in Msg
        BY <4>2, Letters
      <4>5. <<Event("Line", line)>> \in Seq(Msg)
        BY <4>4
      <4> HIDE DEF line, rest
      <4>6. buffer' \in SUBSET Piece
        BY <3>1, <3>2, <4>2, <4>3
      <4>7. fed' \in Seq(Msg)
        BY <3>1, <4>3, <4>5
      <4> QED BY <4>6, <4>7
    <3> QED BY <3>4, <3>5
  <2> QED BY <1>4, <2>3, <2>4 DEF FeedBytes, Inv, TypeOK
<1>5. CASE PostEvent
  <2>1. mail' \in Seq(Msg) /\ fed' \in Seq(Msg)
    BY <1>5 DEF PostEvent, Post, Inv, TypeOK
  <2> QED BY <1>5, <2>1 DEF PostEvent, Inv, TypeOK
<1> QED BY <1>1, <1>2, <1>3, <1>4, <1>5 DEF Adapter, Reader

-----------------------------------------------------------------------------
(* The steps.  What each does to the exchange, and to the invariant.       *)
Implements == Abstract!Next \/ UNCHANGED Abstract!vars

LEMMA MailPosted ==
  ASSUME Inv, NEW msg \in Msg, ~IsArmed(msg), mail' = Append(mail, msg)
  PROVE  /\ ArmedIn(mail') = ArmedIn(mail) /\ \A i \in DOMAIN mail : mail'[i] = mail[i]
         /\ DOMAIN mail' = DOMAIN mail \cup {Len(mail) + 1} /\ mail'[Len(mail) + 1] = msg
         /\ InMail' = InMail /\ ArmedIn(mail) \subseteq DOMAIN mail
<1>1. /\ Len(mail) \in Nat
      /\ DOMAIN mail = 1 .. Len(mail) /\ DOMAIN mail' = 1 .. Len(mail) + 1
      /\ \A i \in DOMAIN mail : mail'[i] = mail[i]
      /\ mail'[Len(mail) + 1] = msg
      /\ ArmedIn(mail') = ArmedIn(mail)
  <2>1. mail \in Seq(Msg)
    BY DEF Inv, TypeOK
  <2>2. /\ Len(mail) \in Nat
        /\ DOMAIN mail = 1 .. Len(mail) /\ DOMAIN mail' = 1 .. Len(mail) + 1
        /\ \A i \in DOMAIN mail : mail'[i] = mail[i]
        /\ mail'[Len(mail) + 1] = msg
    BY <2>1
  <2> QED BY <2>2 DEF ArmedIn
<1>2. ArmedIn(mail) \subseteq DOMAIN mail
  BY DEF ArmedIn
<1>3. InMail' = InMail
  BY <1>1, <1>2 DEF InMail
<1> QED BY <1>1, <1>2, <1>3

LEMMA MailTaken ==
  ASSUME Inv, mail # <<>>, mail' = Tail(mail)
  PROVE  /\ Head(mail) = mail[1] /\ 1 \in DOMAIN mail /\ Head(mail).cmd \in 0 .. MaxSends
         /\ \A i \in DOMAIN mail' : i + 1 \in DOMAIN mail /\ mail'[i] = mail[i + 1]
                                    /\ i \in Nat \ {0}
         /\ \A i \in ArmedIn(mail') : i + 1 \in ArmedIn(mail) /\ mail'[i] = mail[i + 1]
                                      /\ i \in Nat \ {0}
         /\ InMail = InMail' \cup (IF IsArmed(Head(mail)) THEN {Head(mail).cmd} ELSE {})
<1>1. /\ Head(mail) = mail[1] /\ Len(mail) \in Nat /\ Head(mail) \in Msg
      /\ DOMAIN mail = 1 .. Len(mail) /\ DOMAIN mail' = 1 .. Len(mail) - 1
      /\ 1 \in DOMAIN mail
      /\ \A i \in DOMAIN mail' : mail'[i] = mail[i + 1] /\ i + 1 \in DOMAIN mail
      /\ \A i \in ArmedIn(mail') : i + 1 \in ArmedIn(mail) /\ mail'[i] = mail[i + 1]
      /\ \A i \in ArmedIn(mail) \ {1} : i - 1 \in ArmedIn(mail')
                                        /\ mail'[i - 1] = mail[i]
  <2>1. mail \in Seq(Msg)
    BY DEF Inv, TypeOK
  <2>2. /\ Head(mail) = mail[1] /\ Len(mail) \in Nat /\ Head(mail) \in Msg
        /\ DOMAIN mail = 1 .. Len(mail) /\ DOMAIN mail' = 1 .. Len(mail) - 1
        /\ 1 \in DOMAIN mail
        /\ \A i \in DOMAIN mail' : mail'[i] = mail[i + 1] /\ i + 1 \in DOMAIN mail
    BY <2>1
  <2>3. \A i \in DOMAIN mail \ {1} : i - 1 \in DOMAIN mail' /\ mail'[i - 1] = mail[i]
    BY <2>2
  <2> QED BY <2>2, <2>3 DEF ArmedIn
<1>2. 1 \in ArmedIn(mail) <=> IsArmed(Head(mail))
  BY <1>1 DEF ArmedIn
<1>3. InMail = InMail' \cup (IF IsArmed(Head(mail)) THEN {Head(mail).cmd} ELSE {})
  <2>1. InMail' \subseteq InMail
    <3>1. SUFFICES ASSUME NEW i \in ArmedIn(mail') PROVE mail'[i].cmd \in InMail
      BY DEF InMail, ArmedIn
    <3>2. i + 1 \in ArmedIn(mail) /\ mail'[i] = mail[i + 1]
      BY <1>1
    <3> QED BY <3>2 DEF InMail
  <2>2. InMail \subseteq InMail' \cup (IF 1 \in ArmedIn(mail) THEN {mail[1].cmd} ELSE {})
    <3>1. SUFFICES ASSUME NEW i \in ArmedIn(mail)
                   PROVE  mail[i].cmd \in InMail' \cup (IF 1 \in ArmedIn(mail)
                                                        THEN {mail[1].cmd} ELSE {})
      BY DEF InMail
    <3>2. CASE i = 1
      BY <3>2
    <3>3. CASE i # 1
      <4>1. i - 1 \in ArmedIn(mail') /\ mail'[i - 1] = mail[i]
        BY <1>1, <3>3
      <4> QED BY <4>1 DEF InMail
    <3> QED BY <3>2, <3>3
  <2>3. 1 \in ArmedIn(mail) => mail[1].cmd \in InMail
    BY DEF InMail
  <2> QED BY <1>1, <1>2, <2>1, <2>2, <2>3
<1>4. Head(mail).cmd \in 0 .. MaxSends
  BY <1>1 DEF Msg
<1>5. \A i \in DOMAIN mail' : i \in Nat \ {0}
  BY <1>1
<1>6. ArmedIn(mail') \subseteq DOMAIN mail'
  BY DEF ArmedIn
<1> QED BY <1>1, <1>3, <1>4, <1>5, <1>6

LEMMA SameWire ==
  ASSUME InMail' = InMail, armed' = armed, Pended' = Pended
  PROVE  OnTheWire' = OnTheWire
<1>1. (OnTheWire = InMail \cup ({armed} \ {Nobody}) \cup Pended)'
  BY Wire, PTL
<1> QED BY <1>1, Wire

(* Bytes, modes and the ends of a call: nothing of the exchange moves.     *)
LEMMA Aside ==
  ASSUME Inv, TypeOK',
         UNCHANGED <<mail, armed, nsent, pending, busy, abandoned, answers, run>>,
         \/ UNCHANGED sender
         \/ sender' = Idle /\ sender.pc # "pended",
         \A i \in DOMAIN owed' : owed'[i] <= nsent,
         \A i \in DOMAIN fed' : fed'[i].kind \notin {"Armed", "Disarm"}
  PROVE  Inv' /\ Implements
<1>1. InMail' = InMail /\ Pended' = Pended
  BY DEF InMail, ArmedIn, Pended, Idle
<1>2. OnTheWire' = OnTheWire
  BY <1>1, SameWire
<1>3. Implements
  BY <1>2 DEF Implements, Abstract!vars
<1>4. InOrder' /\ DisarmsGivenUp'
  BY DEF Inv, Numbered, InOrder, DisarmsGivenUp, ArmedIn
<1>5. PendedLast'
  BY DEF Inv, Numbered, PendedLast, ArmedIn, Idle
<1>6. OneLive' /\ RunsOff'
  BY <1>2 DEF Inv, OneLive, RunsOff
<1>7. sender'.cmd <= nsent /\ (sender'.pc # "idle" => sender'.cmd # Nobody)
  <2>1. 0 <= nsent
    BY Typed, ConstantsAssumption DEF Inv
  <2> QED BY <2>1 DEF Inv, Numbered, Idle, Nobody
<1>8. Numbered'
  <2>1. /\ busy' \in {Nobody, nsent'} /\ pending' <= nsent'
        /\ \A t \in Threads : run'[t].cmd <= nsent'
    BY DEF Inv, Numbered
  <2> QED BY <1>4, <1>5, <1>7, <2>1 DEF Numbered
<1> QED BY <1>3, <1>4, <1>6, <1>8 DEF Inv

LEMMA TailOf ==
  ASSUME NEW S, NEW q \in Seq(S), q # <<>>
  PROVE  \A i \in DOMAIN Tail(q) : i + 1 \in DOMAIN q /\ Tail(q)[i] = q[i + 1]
<1>1. Len(q) \in Nat /\ DOMAIN q = 1 .. Len(q) /\ DOMAIN Tail(q) = 1 .. Len(q) - 1
  OBVIOUS
<1> QED BY <1>1

LEMMA AsideSteps ==
  ASSUME Inv, TypeOK',
         \/ Adapter \/ FeedBytes \/ DropResets \/ Reconnect \/ InjectError \/ Monitor
         \/ SendWrites \/ SendReturns
  PROVE  Inv' /\ Implements
<1> USE DEF stateVars, accVars, linkVars, history
<1>0. /\ \A i \in DOMAIN owed : owed[i] <= nsent
      /\ \A i \in DOMAIN fed : fed[i].kind \notin {"Armed", "Disarm"}
      /\ owed \in Seq(Cmds)
  <2>1. owed \in Seq(Cmds)
    BY DEF Inv, TypeOK
  <2> QED BY <2>1 DEF Inv, Numbered
<1>1. owed # <<>> /\ owed' = Tail(owed) => \A i \in DOMAIN owed' : owed'[i] <= nsent
  <2>1. owed # <<>> => \A i \in DOMAIN Tail(owed) : i + 1 \in DOMAIN owed
                                                    /\ Tail(owed)[i] = owed[i + 1]
    BY <1>0, TailOf
  <2> QED BY <1>0, <2>1
<1>2. CASE Reply
  BY <1>0, <1>1, <1>2, Aside DEF Reply
<1>3. CASE Skip
  <2>1. owed # <<>>
    BY <1>3 DEF Skip
  <2> QED BY <1>0, <1>1, <1>3, <2>1, Aside DEF Skip
<1>4. CASE Noise
  BY <1>0, <1>4, Aside DEF Noise
<1>5. CASE FeedBytes
  <2>1. \A i \in DOMAIN fed' : fed'[i].kind \notin {"Armed", "Disarm"}
    <3>1. PICK texts, lines :
            fed' \in {<<>>, <<Plain("Dropped")>>, <<Event("Response", texts)>>,
                      <<Event("Line", lines)>>}
      BY <1>5 DEF FeedBytes, DrainPrompt, DrainLines
    <3>2. /\ Plain("Dropped").kind = "Dropped" /\ Event("Response", texts).kind = "Response"
          /\ Event("Line", lines).kind = "Line"
      BY DEF Plain, Event
    <3> QED BY <3>1, <3>2
  <2> QED BY <1>0, <1>5, <2>1, Aside DEF FeedBytes
<1>6. CASE DropResets
  BY <1>0, <1>6, Aside DEF DropResets
<1>7. CASE Reconnect
  BY <1>0, <1>7, Aside DEF Reconnect
<1>8. CASE InjectError
  BY <1>0, <1>8, Aside DEF InjectError
<1>9. CASE Monitor
  BY <1>0, <1>9, Aside DEF Monitor, EnterMonitor, EnterMode, ExitMonitor, ExitMode, MonitorMoves
<1>10. CASE SendWrites
  <2>1. owed' \in {owed, Append(owed, sender.cmd)} /\ sender.cmd <= nsent
    BY <1>10 DEF SendWrites, Inv, Numbered
  <2>2. \A i \in DOMAIN owed' : owed'[i] <= nsent
    BY <1>0, <2>1
  <2> QED BY <1>0, <1>10, <2>2, Aside DEF SendWrites
<1>11. CASE SendReturns
  BY <1>0, <1>11, Aside DEF SendReturns
<1> QED BY <1>2, <1>3, <1>4, <1>5, <1>6, <1>7, <1>8, <1>9, <1>10, <1>11 DEF Adapter

(* A letter that arms nobody, at the end of the mail.                      *)
LEMMA MailGrows ==
  ASSUME Inv, NEW msg \in Msg, ~IsArmed(msg), mail' = Append(mail, msg),
         UNCHANGED <<nsent, armed>>, sender' = sender \/ sender'.pc # "pended",
         abandoned \subseteq abandoned',
         msg.kind = "Disarm" => OnTheWire \subseteq abandoned'
  PROVE  InOrder' /\ PendedLast' /\ DisarmsGivenUp' /\ InMail' = InMail
<1>1. /\ ArmedIn(mail') = ArmedIn(mail) /\ \A i \in DOMAIN mail : mail'[i] = mail[i]
      /\ DOMAIN mail' = DOMAIN mail \cup {Len(mail) + 1} /\ mail'[Len(mail) + 1] = msg
      /\ InMail' = InMail /\ ArmedIn(mail) \subseteq DOMAIN mail
  BY MailPosted
<1>2. InOrder'
  BY <1>1 DEF Inv, Numbered, InOrder, ArmedIn
<1>3. PendedLast'
  BY <1>1 DEF Inv, Numbered, PendedLast, ArmedIn
<1>4. msg.kind = "Disarm" => /\ armed \in abandoned' \cup {Nobody}
                             /\ \A j \in ArmedIn(mail) : mail[j].cmd \in abandoned'
  BY Wire DEF InMail
<1>5. DisarmsGivenUp'
  <2>1. SUFFICES ASSUME NEW i \in DOMAIN mail', mail'[i].kind = "Disarm"
                 PROVE  /\ armed \in abandoned' \cup {Nobody}
                        /\ \A j \in ArmedIn(mail) : j < i => mail[j].cmd \in abandoned'
    BY <1>1 DEF DisarmsGivenUp, ArmedIn
  <2>2. CASE i \in DOMAIN mail
    BY <1>1, <2>1, <2>2 DEF Inv, DisarmsGivenUp
  <2>3. CASE i = Len(mail) + 1
    BY <1>1, <1>4, <2>1, <2>3
  <2> QED BY <1>1, <2>2, <2>3
<1> QED BY <1>1, <1>2, <1>3, <1>5

(* Letters are taken from the front, the armed command may be let go.      *)
LEMMA MailShrinks ==
  ASSUME Inv, mail' = mail \/ (mail # <<>> /\ mail' = Tail(mail)),
         UNCHANGED <<nsent, sender>>, armed' \in {armed, Nobody},
         abandoned \subseteq abandoned'
  PROVE  InOrder' /\ PendedLast' /\ DisarmsGivenUp'
<1>0. /\ nsent \in Nat /\ armed \in Nat /\ armed' \in Nat /\ armed' <= armed
      /\ \A i \in DOMAIN mail : mail[i].cmd \in Nat
  BY Typed, ConstantsAssumption DEF Inv, Nobody
<1>1. CASE mail' = mail
  <2>1. InOrder' /\ PendedLast'
    BY <1>0, <1>1 DEF Inv, Numbered, InOrder, PendedLast, ArmedIn
  <2>2. DisarmsGivenUp'
    BY <1>1 DEF Inv, DisarmsGivenUp, ArmedIn
  <2> QED BY <2>1, <2>2
<1>2. CASE mail # <<>> /\ mail' = Tail(mail)
  <2>1. /\ \A i \in DOMAIN mail' : i + 1 \in DOMAIN mail /\ mail'[i] = mail[i + 1]
                                   /\ i \in Nat \ {0}
        /\ \A i \in ArmedIn(mail') : i + 1 \in ArmedIn(mail) /\ mail'[i] = mail[i + 1]
                                     /\ i \in Nat \ {0}
    BY <1>2, MailTaken
  <2>2. \A i \in ArmedIn(mail) : i \in DOMAIN mail
    BY DEF ArmedIn
  <2>3. InOrder'
    <3>1. \A i \in ArmedIn(mail') : armed' < mail'[i].cmd /\ mail'[i].cmd <= nsent
      BY <1>0, <2>1, <2>2 DEF Inv, Numbered, InOrder
    <3>2. \A i, j \in ArmedIn(mail') : i < j => mail'[i].cmd < mail'[j].cmd
      <4>1. SUFFICES ASSUME NEW i \in ArmedIn(mail'), NEW j \in ArmedIn(mail'), i < j
                     PROVE  mail'[i].cmd < mail'[j].cmd
        OBVIOUS
      <4>2. /\ i + 1 \in ArmedIn(mail) /\ j + 1 \in ArmedIn(mail) /\ i + 1 < j + 1
            /\ mail'[i] = mail[i + 1] /\ mail'[j] = mail[j + 1]
        BY <2>1, <4>1
      <4> QED BY <4>2 DEF Inv, Numbered, InOrder
    <3>3. armed' <= nsent
      BY <1>0 DEF Inv, Numbered, InOrder
    <3> QED BY <3>1, <3>2, <3>3 DEF InOrder, ArmedIn
  <2>4. PendedLast'
    <3>1. sender.pc = "pended" => \A i \in ArmedIn(mail') : mail'[i].cmd < nsent
      BY <2>1 DEF Inv, Numbered, PendedLast
    <3>2. sender.pc = "pended" => sender.cmd = nsent /\ armed' < nsent
      BY <1>0 DEF Inv, Numbered, PendedLast
    <3> QED BY <3>1, <3>2 DEF PendedLast, ArmedIn
  <2>5. DisarmsGivenUp'
    <3>1. SUFFICES ASSUME NEW i \in DOMAIN mail', mail'[i].kind = "Disarm"
                   PROVE  /\ armed' \in abandoned' \cup {Nobody}
                          /\ \A j \in ArmedIn(mail') : j < i => mail'[j].cmd \in abandoned'
      BY DEF DisarmsGivenUp, ArmedIn
    <3>2. /\ armed \in abandoned \cup {Nobody}
          /\ \A j \in ArmedIn(mail) : j < i + 1 => mail[j].cmd \in abandoned
      BY <2>1, <3>1 DEF Inv, DisarmsGivenUp
    <3>3. ASSUME NEW j \in ArmedIn(mail'), j < i PROVE mail'[j].cmd \in abandoned'
      <4>1. j + 1 \in ArmedIn(mail) /\ mail'[j] = mail[j + 1] /\ j + 1 < i + 1
        BY <2>1, <3>1, <3>3
      <4> QED BY <3>2, <4>1
    <3>4. armed' \in abandoned' \cup {Nobody}
      BY <3>2
    <3> QED BY <3>3, <3>4
  <2> QED BY <2>3, <2>4, <2>5
<1> QED BY <1>1, <1>2

(* The callbacks of a command that is off the wire, or given up.           *)
LEMMA AnswerRuns ==
  ASSUME Inv, NEW t \in Threads, NEW c, NEW texts, Answer(t, c, texts), c <= nsent,
         nsent' = nsent, OnTheWire' \subseteq OnTheWire, abandoned \subseteq abandoned',
         c \notin OnTheWire' \ abandoned'
  PROVE  /\ RunsOff' /\ \A u \in Threads : run'[u].cmd <= nsent'
         /\ Abstract!Answered(c)
<1>1. run' = [run EXCEPT ![t] = [pc |-> "data", cmd |-> c]]
      /\ answers' = [answers EXCEPT ![c] = @ + 1]
  BY DEF Answer
<1>2. run'[t].cmd = c /\ \A u \in Threads \ {t} : run'[u] = run[u]
  BY <1>1 DEF Inv, TypeOK
<1>3. RunsOff'
  BY <1>2 DEF Inv, RunsOff
<1>4. \A u \in Threads : run'[u].cmd <= nsent'
  BY <1>2 DEF Inv, Numbered
<1> QED BY <1>1, <1>3, <1>4 DEF Abstract!Answered

(* The armed command leaves the wire, and is nowhere else on it.           *)
LEMMA ArmedLeaves ==
  ASSUME Inv, armed # Nobody, armed' = Nobody, InMail' = InMail, Pended' = Pended
  PROVE  OnTheWire' = OnTheWire \ {armed} /\ armed \in OnTheWire /\ armed \in Cmds
         /\ armed <= nsent
<1>1. (OnTheWire = InMail \cup ({armed} \ {Nobody}) \cup Pended)'
  BY Wire, PTL
<1>2. OnTheWire = InMail \cup ({armed} \ {Nobody}) \cup Pended
  BY Wire
<1>3. armed \in Cmds /\ armed \in Nat
  BY ConstantsAssumption DEF Inv, TypeOK, Cmds
<1>4. armed \notin InMail
  <2>1. \A i \in ArmedIn(mail) : armed < mail[i].cmd
    BY DEF Inv, Numbered, InOrder
  <2>2. \A i \in ArmedIn(mail) : mail[i].cmd # armed
    BY <1>3, <2>1
  <2> QED BY <2>2 DEF InMail
<1>5. armed \notin Pended
  <2>1. sender.pc = "pended" => armed < sender.cmd
    BY DEF Inv, Numbered, PendedLast
  <2> QED BY <1>3, <2>1 DEF Pended
<1>6. armed <= nsent
  BY DEF Inv, Numbered, InOrder
<1> QED BY <1>1, <1>2, <1>3, <1>4, <1>5, <1>6

-----------------------------------------------------------------------------
(* The sender.                                                             *)
LEMMA PendsInv == ASSUME Inv, TypeOK', SendPends PROVE Inv' /\ Implements
<1> USE DEF stateVars, accVars, linkVars, history
<1>0. /\ sender.pc = "idle" /\ busy = Nobody /\ nsent < MaxSends
      /\ nsent' = nsent + 1 /\ busy' = nsent + 1 /\ pending' = nsent + 1
      /\ sender' = [pc |-> "pended", cmd |-> nsent + 1]
      /\ UNCHANGED <<mail, armed, run, owed, fed, abandoned, answers>>
  BY DEF SendPends
<1>1. /\ OnTheWire \subseteq 1 .. nsent /\ nsent \in Nat /\ armed \in Nat
      /\ \A i \in DOMAIN mail : mail[i].cmd \in Nat
      /\ \A t \in Threads : run[t].cmd \in Nat
      /\ \A i \in DOMAIN owed : owed[i] \in Nat
  <2>1. \A i \in DOMAIN owed : owed[i] \in Cmds
    BY DEF Inv, TypeOK
  <2> QED BY <2>1, Typed, WireNumbered, ConstantsAssumption DEF Inv, Cmds
<1>2. InMail' = InMail /\ Pended' = {nsent + 1} /\ Pended = {}
  BY <1>0 DEF InMail, ArmedIn, Pended
<1>3. OnTheWire' = OnTheWire \cup {nsent + 1}
  <2>1. (OnTheWire = InMail \cup ({armed} \ {Nobody}) \cup Pended)'
    BY Wire, PTL
  <2> QED BY <1>0, <1>2, <2>1, Wire
<1>4. OnTheWire \subseteq abandoned
  BY <1>0, <1>1 DEF Inv, OneLive, Nobody
<1>5. Implements
  <2>1. nsent + 1 \in Abstract!Cmds
    BY <1>0, <1>1, ConstantsAssumption DEF Abstract!Cmds
  <2>2. Abstract!Send(nsent + 1)
    BY <1>0, <1>3, <1>4 DEF Abstract!Send
  <2> QED BY <2>1, <2>2 DEF Implements, Abstract!Next
<1>6. InOrder' /\ DisarmsGivenUp'
  <2>1. InOrder'
    BY <1>0, <1>1 DEF Inv, Numbered, InOrder, ArmedIn
  <2>2. DisarmsGivenUp'
    BY <1>0 DEF Inv, DisarmsGivenUp, ArmedIn
  <2> QED BY <2>1, <2>2
<1>7. PendedLast'
  BY <1>0, <1>1 DEF Inv, Numbered, InOrder, PendedLast, ArmedIn
<1>8. OneLive'
  BY <1>0, <1>3, <1>4 DEF OneLive
<1>9. RunsOff'
  BY <1>0, <1>1, <1>3 DEF Inv, Numbered, RunsOff
<1>10. Numbered'
  <2>1. /\ \A t \in Threads : run'[t].cmd <= nsent'
        /\ \A i \in DOMAIN owed' : owed'[i] <= nsent'
    BY <1>0, <1>1 DEF Inv, Numbered
  <2>2. busy' \in {Nobody, nsent'} /\ pending' <= nsent' /\ sender'.cmd <= nsent'
        /\ sender'.cmd # Nobody
    BY <1>0, <1>1 DEF Nobody
  <2> QED BY <1>0, <1>6, <1>7, <2>1, <2>2 DEF Inv, Numbered
<1> QED BY <1>5, <1>6, <1>8, <1>9, <1>10 DEF Inv

LEMMA ArmsInv == ASSUME Inv, TypeOK', SendArms PROVE Inv' /\ Implements
<1> USE DEF stateVars, accVars, linkVars, history
<1>0. /\ sender.pc = "pended" /\ mail' = Append(mail, Armed(sender.cmd))
      /\ sender' = [sender EXCEPT !.pc = "armed"]
      /\ UNCHANGED <<armed, run, owed, fed, abandoned, answers, busy, nsent, pending>>
  BY DEF SendArms, Post
<1>1. /\ sender' = [pc |-> "armed", cmd |-> sender.cmd]
      /\ sender.cmd = nsent /\ sender.cmd # Nobody
  BY <1>0 DEF Inv, TypeOK, Numbered, PendedLast
<1>2. Armed(sender.cmd) \in Msg /\ IsArmed(Armed(sender.cmd)) /\ Armed(sender.cmd).cmd = nsent
  BY <1>1, Letters, Typed DEF Inv
<1>3. mail \in Seq(Msg) /\ armed \in Nat /\ nsent \in Nat
      /\ \A i \in DOMAIN mail : mail[i].cmd \in Nat
  BY Typed, ConstantsAssumption DEF Inv
<1>4. /\ Len(mail) \in Nat
      /\ DOMAIN mail = 1 .. Len(mail) /\ DOMAIN mail' = 1 .. Len(mail) + 1
      /\ \A i \in DOMAIN mail : mail'[i] = mail[i]
      /\ mail'[Len(mail) + 1] = Armed(sender.cmd)
  BY <1>0, <1>2, <1>3
<1>5. ArmedIn(mail') = ArmedIn(mail) \cup {Len(mail) + 1} /\ ArmedIn(mail) \subseteq 1 .. Len(mail)
  BY <1>2, <1>4 DEF ArmedIn
<1>6. InMail' = InMail \cup {nsent}
  <2>1. InMail' = {mail'[i].cmd : i \in ArmedIn(mail')}
    BY DEF InMail, ArmedIn
  <2> QED BY <1>2, <1>4, <1>5, <2>1 DEF InMail
<1>7. Pended = {nsent} /\ Pended' = {}
  BY <1>0, <1>1 DEF Pended
<1>8. OnTheWire' = OnTheWire
  <2>1. (OnTheWire = InMail \cup ({armed} \ {Nobody}) \cup Pended)'
    BY Wire, PTL
  <2> QED BY <1>0, <1>6, <1>7, <2>1, Wire
<1>9. Implements
  BY <1>0, <1>8 DEF Implements, Abstract!vars
<1>10. InOrder'
  <2>1. \A i \in ArmedIn(mail) : armed < mail[i].cmd /\ mail[i].cmd < nsent
    BY <1>0 DEF Inv, Numbered, InOrder, PendedLast
  <2>2. armed < nsent
    BY <1>0 DEF Inv, Numbered, PendedLast
  <2>3. \A i \in ArmedIn(mail') : armed' < mail'[i].cmd /\ mail'[i].cmd <= nsent'
    BY <1>0, <1>2, <1>3, <1>4, <1>5, <2>1, <2>2
  <2>4. ASSUME NEW i \in ArmedIn(mail'), NEW j \in ArmedIn(mail'), i < j
        PROVE  mail'[i].cmd < mail'[j].cmd
    <3>1. i \in ArmedIn(mail)
      BY <1>4, <1>5, <2>4
    <3>2. CASE j \in ArmedIn(mail)
      BY <1>4, <1>5, <2>4, <3>1, <3>2 DEF Inv, Numbered, InOrder
    <3>3. CASE j = Len(mail) + 1
      BY <1>2, <1>4, <1>5, <2>1, <3>1, <3>3
    <3> QED BY <1>5, <3>2, <3>3
  <2>5. armed' <= nsent'
    BY <1>0 DEF Inv, Numbered, InOrder
  <2> QED BY <2>3, <2>4, <2>5 DEF InOrder, ArmedIn
<1>11. PendedLast'
  BY <1>1 DEF PendedLast
<1>12. DisarmsGivenUp'
  <2>1. SUFFICES ASSUME NEW i \in DOMAIN mail', mail'[i].kind = "Disarm"
                 PROVE  /\ armed \in abandoned \cup {Nobody}
                        /\ \A j \in ArmedIn(mail') : j < i => mail'[j].cmd \in abandoned
    BY <1>0 DEF DisarmsGivenUp, ArmedIn
  <2>2. i \in DOMAIN mail /\ mail[i].kind = "Disarm"
    BY <1>2, <1>4, <2>1 DEF IsArmed
  <2>3. /\ armed \in abandoned \cup {Nobody}
        /\ \A j \in ArmedIn(mail) : j < i => mail[j].cmd \in abandoned
    BY <2>2 DEF Inv, DisarmsGivenUp
  <2>4. \A j \in ArmedIn(mail') : j < i => j \in ArmedIn(mail) /\ mail'[j] = mail[j]
    BY <1>4, <1>5, <2>2
  <2> QED BY <2>3, <2>4
<1>13. OneLive' /\ RunsOff'
  BY <1>0, <1>8 DEF Inv, OneLive, RunsOff
<1>14. Numbered'
  <2>1. sender'.cmd <= nsent' /\ sender'.cmd # Nobody
    BY <1>0, <1>1, <1>3
  <2>2. /\ busy' \in {Nobody, nsent'} /\ pending' <= nsent'
        /\ \A t \in Threads : run'[t].cmd <= nsent'
        /\ \A i \in DOMAIN owed' : owed'[i] <= nsent'
        /\ \A i \in DOMAIN fed' : fed'[i].kind \notin {"Armed", "Disarm"}
    BY <1>0 DEF Inv, Numbered
  <2> QED BY <1>10, <1>11, <2>1, <2>2 DEF Numbered
<1> QED BY <1>9, <1>12, <1>13, <1>14 DEF Inv

(* A command that is settled past the wire, by its sender or by the host.  *)
LEMMA Settles ==
  ASSUME Inv, TypeOK', NEW t \in Threads, NEW c \in Cmds, c <= nsent,
         Answer(t, c, {}), mail' = Append(mail, Plain("Disarm")),
         abandoned' = abandoned \cup OnTheWire \cup {c},
         UNCHANGED <<armed, fed, busy, nsent, pending>>,
         \/ UNCHANGED sender
         \/ sender.pc = "armed" /\ sender' = [sender EXCEPT !.pc = "settling"],
         \A i \in DOMAIN owed' : owed'[i] <= nsent
  PROVE  Inv' /\ Implements
<1>1. Plain("Disarm") \in Msg /\ ~IsArmed(Plain("Disarm"))
  BY Letters
<1>2. sender'.pc = sender.pc \/ (sender.pc = "armed" /\ sender'.pc = "settling")
  BY DEF Inv, TypeOK
<1>3. InOrder' /\ PendedLast' /\ DisarmsGivenUp' /\ InMail' = InMail
  <2>1. sender' = sender \/ sender'.pc # "pended"
    BY <1>2
  <2> QED BY <1>1, <2>1, MailGrows
<1>4. Pended' = Pended
  BY <1>2 DEF Pended
<1>5. OnTheWire' = OnTheWire
  BY <1>3, <1>4, SameWire
<1>6. /\ RunsOff' /\ \A u \in Threads : run'[u].cmd <= nsent'
      /\ Abstract!Answered(c)
  BY <1>5, AnswerRuns
<1>7. OneLive'
  BY <1>5 DEF OneLive
<1>8. Implements
  <2>1. c \in 1 .. nsent /\ c \in Abstract!Cmds
    BY ConstantsAssumption, Typed DEF Inv, Cmds, Abstract!Cmds
  <2>2. Abstract!Settle(c)
    BY <1>5, <1>6, <2>1 DEF Abstract!Settle
  <2> QED BY <2>1, <2>2 DEF Implements, Abstract!Next
<1>9. Numbered'
  <2>1. /\ busy' \in {Nobody, nsent'} /\ pending' <= nsent'
        /\ \A i \in DOMAIN owed' : owed'[i] <= nsent'
        /\ \A i \in DOMAIN fed' : fed'[i].kind \notin {"Armed", "Disarm"}
    BY DEF Inv, Numbered
  <2>2. sender'.cmd = sender.cmd
    BY DEF Inv, TypeOK
  <2>3. sender'.cmd <= nsent' /\ (sender'.pc # "idle" => sender'.cmd # Nobody)
    BY <1>2, <2>2 DEF Inv, Numbered
  <2> QED BY <1>3, <1>6, <2>1, <2>3 DEF Numbered
<1> QED BY <1>3, <1>6, <1>7, <1>8, <1>9 DEF Inv

LEMMA SettlesInv == ASSUME Inv, TypeOK', SendSettles \/ ReceiveResponse PROVE Inv' /\ Implements
<1> USE DEF stateVars, accVars, linkVars, history
<1>1. CASE SendSettles
  <2>1. /\ sender.pc = "armed" /\ sender' = [sender EXCEPT !.pc = "settling"]
        /\ Answer("sender", sender.cmd, {}) /\ mail' = Append(mail, Plain("Disarm"))
        /\ abandoned' = abandoned \cup OnTheWire \cup {sender.cmd}
        /\ UNCHANGED <<armed, fed, busy, nsent, pending, owed>>
    BY <1>1 DEF SendSettles, Post
  <2>2. sender.cmd \in Cmds /\ sender.cmd <= nsent
    <3>1. sender.cmd # Nobody /\ sender.cmd <= nsent
      BY <2>1 DEF Inv, Numbered
    <3> QED BY <3>1, Typed, ConstantsAssumption DEF Inv, Cmds, Nobody
  <2>3. \A i \in DOMAIN owed' : owed'[i] <= nsent
    BY <2>1 DEF Inv, Numbered
  <2>4. "sender" \in Threads
    BY DEF Threads
  <2> QED BY <2>1, <2>2, <2>3, <2>4, Settles
<1>2. CASE ReceiveResponse
  <2>1. PICK i \in DOMAIN owed :
          /\ Answer("host", owed[i], {})
          /\ abandoned' = abandoned \cup OnTheWire \cup {owed[i]}
          /\ owed' = [j \in 1 .. (Len(owed) - 1) |-> IF j < i THEN owed[j] ELSE owed[j + 1]]
    BY <1>2 DEF ReceiveResponse
  <2>2. owed \in Seq(Cmds) /\ owed[i] \in Cmds /\ DOMAIN owed = 1 .. Len(owed) /\ Len(owed) \in Nat
    BY DEF Inv, TypeOK
  <2>3. \A j \in DOMAIN owed : owed[j] <= nsent
    BY DEF Inv, Numbered
  <2>4. \A j \in DOMAIN owed' : owed'[j] <= nsent
    BY <2>1, <2>2, <2>3
  <2>5. /\ mail' = Append(mail, Plain("Disarm"))
        /\ UNCHANGED <<armed, fed, busy, nsent, pending, sender>>
    BY <1>2 DEF ReceiveResponse, Post
  <2>6. "host" \in Threads
    BY DEF Threads
  <2> QED BY <2>1, <2>2, <2>3, <2>4, <2>5, <2>6, Settles
<1> QED BY <1>1, <1>2

(* The processor: it gives up, or its callbacks complete the command.      *)
LEMMA ProcessorInv ==
  ASSUME Inv, TypeOK', Abort \/ (\E t \in Threads : Callback(t)) PROVE Inv' /\ Implements
<1> USE DEF stateVars, accVars, linkVars, history
<1>0. UNCHANGED <<mail, armed, sender, owed, fed, nsent, pending, answers>>
  BY DEF Abort, Callback, DataCallback, CompletionCallback
<1>1. InMail' = InMail /\ Pended' = Pended
  BY <1>0 DEF InMail, ArmedIn, Pended
<1>2. OnTheWire' = OnTheWire
  BY <1>0, <1>1, SameWire
<1>3. InOrder' /\ PendedLast'
  BY <1>0 DEF Inv, Numbered, InOrder, PendedLast, ArmedIn
<1>4. CASE Abort
  <2>1. /\ busy # Nobody /\ nsent # 0 /\ busy' = Nobody /\ abandoned' = abandoned \cup {nsent}
        /\ UNCHANGED run
    BY <1>4 DEF Abort
  <2>2. busy = nsent
    BY <2>1 DEF Inv, Numbered
  <2>3. OneLive' /\ RunsOff'
    BY <1>2, <2>1, <2>2 DEF Inv, OneLive, RunsOff
  <2>4. DisarmsGivenUp'
    BY <1>0, <2>1 DEF Inv, DisarmsGivenUp, ArmedIn
  <2>5. Implements
    <3>1. Abstract!Abort
      BY <1>0, <1>2, <2>1 DEF Abstract!Abort
    <3> QED BY <3>1 DEF Implements, Abstract!Next
  <2>6. Numbered'
    <3>1. busy' \in {Nobody, nsent'}
      BY <2>1
    <3>2. /\ sender'.cmd <= nsent' /\ (sender'.pc # "idle" => sender'.cmd # Nobody)
          /\ \A u \in Threads : run'[u].cmd <= nsent'
      BY <1>0, <2>1 DEF Inv, Numbered
    <3>3. /\ \A i \in DOMAIN owed' : owed'[i] <= nsent'
          /\ \A i \in DOMAIN fed' : fed'[i].kind \notin {"Armed", "Disarm"}
          /\ pending' <= nsent'
      BY <1>0 DEF Inv, Numbered
    <3> QED BY <1>3, <3>1, <3>2, <3>3 DEF Numbered
  <2> QED BY <2>3, <2>4, <2>5, <2>6 DEF Inv
<1>5. ASSUME NEW t \in Threads, Callback(t) PROVE Inv' /\ Implements
  <2>1. PICK pc \in {"completion", "idle"}, c \in {run[t].cmd, Nobody} :
          /\ run[t].pc # "idle" /\ UNCHANGED abandoned
          /\ busy' = IF busy = run[t].cmd THEN Nobody ELSE busy
          /\ run' = [run EXCEPT ![t] = [pc |-> pc, cmd |-> c]]
          /\ pc # "idle" => c = run[t].cmd
    <3>1. CASE DataCallback(t)
      <4>1. run' = [run EXCEPT ![t].pc = "completion"] /\ run[t].pc = "data"
        BY <3>1 DEF DataCallback
      <4>2. run' = [run EXCEPT ![t] = [pc |-> "completion", cmd |-> run[t].cmd]]
        <5>1. run[t] \in [pc : {"idle", "data", "completion"}, cmd : 0 .. MaxSends]
          BY DEF Inv, TypeOK
        <5>2. [run[t] EXCEPT !.pc = "completion"] = [pc |-> "completion", cmd |-> run[t].cmd]
          BY <5>1
        <5> QED BY <4>1, <5>2
      <4>3. UNCHANGED abandoned /\ busy' = IF busy = run[t].cmd THEN Nobody ELSE busy
        BY <3>1 DEF DataCallback, Completes
      <4> QED BY <4>1, <4>2, <4>3
    <3>2. CASE CompletionCallback(t)
      BY <3>2 DEF CompletionCallback, Completes, Idle
    <3> QED BY <1>5, <3>1, <3>2 DEF Callback
  <2>2. /\ \A u \in Threads \ {t} : run'[u] = run[u]
        /\ run'[t].cmd \in {run[t].cmd, Nobody}
        /\ run'[t].pc # "idle" => run'[t].cmd = run[t].cmd
    BY <2>1 DEF Inv, TypeOK
  <2>3. RunsOff'
    BY <1>2, <2>1, <2>2 DEF Inv, RunsOff
  <2>4. OneLive'
    <3>1. run[t].cmd \notin OnTheWire \ abandoned
      BY <2>1 DEF Inv, RunsOff
    <3> QED BY <1>2, <2>1, <3>1 DEF Inv, OneLive
  <2>5. DisarmsGivenUp'
    BY <1>0, <2>1 DEF Inv, DisarmsGivenUp, ArmedIn
  <2>6. Implements
    BY <1>0, <1>2, <2>1 DEF Implements, Abstract!vars
  <2>7. Numbered'
    <3>1. Nobody <= nsent
      BY Typed, ConstantsAssumption DEF Inv, Nobody
    <3>2. \A u \in Threads : run'[u].cmd <= nsent
      BY <2>2, <3>1 DEF Inv, Numbered
    <3>3. busy' \in {Nobody, nsent'}
      BY <1>0, <2>1 DEF Inv, Numbered
    <3> QED BY <1>0, <1>3, <3>2, <3>3 DEF Inv, Numbered
  <2> QED BY <2>3, <2>4, <2>5, <2>6, <2>7 DEF Inv
<1> QED BY <1>4, <1>5

(* The delivery thread answers the armed command.                          *)
LEMMA Delivers ==
  ASSUME Inv, TypeOK', armed # Nobody, armed' = Nobody, NEW texts,
         Answer("delivery", armed, texts),
         UNCHANGED <<sender, nsent, pending, busy, abandoned, owed, fed>>,
         \/ mail' = mail
         \/ mail # <<>> /\ mail' = Tail(mail) /\ ~IsArmed(Head(mail))
  PROVE  Inv' /\ Implements
<1>1. InMail' = InMail
  <2>1. CASE mail' = mail
    BY <2>1 DEF InMail, ArmedIn
  <2>2. CASE mail # <<>> /\ mail' = Tail(mail) /\ ~IsArmed(Head(mail))
    BY <2>2, MailTaken
  <2> QED BY <2>1, <2>2
<1>2. Pended' = Pended
  BY DEF Pended
<1>3. OnTheWire' = OnTheWire \ {armed} /\ armed \in OnTheWire /\ armed \in Cmds /\ armed <= nsent
  BY <1>1, <1>2, ArmedLeaves
<1>4. InOrder' /\ PendedLast' /\ DisarmsGivenUp'
  BY MailShrinks
<1>5. /\ RunsOff' /\ \A u \in Threads : run'[u].cmd <= nsent'
      /\ Abstract!Answered(armed)
  <2>1. "delivery" \in Threads
    BY DEF Threads
  <2> QED BY <1>3, <2>1, AnswerRuns
<1>6. OneLive'
  BY <1>3 DEF Inv, OneLive
<1>7. Implements
  <2>1. armed \in Abstract!Cmds
    BY <1>3 DEF Cmds, Abstract!Cmds
  <2>2. Abstract!Deliver(armed)
    BY <1>3, <1>5 DEF Abstract!Deliver
  <2> QED BY <2>1, <2>2 DEF Implements, Abstract!Next
<1>8. Numbered'
  BY <1>4, <1>5 DEF Inv, Numbered
<1> QED BY <1>4, <1>5, <1>6, <1>7, <1>8 DEF Inv

(* The delivery thread lets a command go that was given up, or none.       *)
LEMMA LetsGo ==
  ASSUME Inv, TypeOK', mail # <<>>, mail' = Tail(mail), ~IsArmed(Head(mail)),
         UNCHANGED <<sender, nsent, pending, busy, abandoned, answers, run, owed, fed>>,
         armed' = armed \/ (armed' = Nobody /\ armed \in abandoned \cup {Nobody})
  PROVE  Inv' /\ Implements
<1>1. InMail' = InMail /\ Pended' = Pended
  BY MailTaken DEF Pended
<1>2. InOrder' /\ PendedLast' /\ DisarmsGivenUp'
  BY MailShrinks
<1>3. Numbered'
  BY <1>2 DEF Inv, Numbered
<1>4. CASE armed' = armed
  <2>1. OnTheWire' = OnTheWire
    BY <1>1, <1>4, SameWire
  <2>2. OneLive' /\ RunsOff'
    BY <2>1 DEF Inv, OneLive, RunsOff
  <2>3. Implements
    BY <2>1 DEF Implements, Abstract!vars
  <2> QED BY <1>2, <1>3, <2>2, <2>3 DEF Inv
<1>5. CASE armed' # armed
  <2>1. armed # Nobody /\ armed' = Nobody /\ armed \in abandoned
    BY <1>5
  <2>2. OnTheWire' = OnTheWire \ {armed} /\ armed \in OnTheWire /\ armed \in Cmds
    BY <1>1, <2>1, ArmedLeaves
  <2>3. OneLive' /\ RunsOff'
    BY <2>2 DEF Inv, OneLive, RunsOff
  <2>4. Abstract!Lose(armed) /\ armed \in Abstract!Cmds
    BY <2>1, <2>2 DEF Abstract!Lose, Abstract!Cmds, Cmds
  <2>5. Implements
    BY <2>4 DEF Implements, Abstract!Next
  <2> QED BY <1>2, <1>3, <2>3, <2>5 DEF Inv
<1> QED BY <1>4, <1>5

(* The next command is armed: whatever was armed before had been given up. *)
LEMMA TakeArmedInv == ASSUME Inv, TypeOK', TakeArmed PROVE Inv' /\ Implements
<1> USE DEF history
<1>0. /\ mail # <<>> /\ Head(mail).kind = "Armed" /\ mail' = Tail(mail)
      /\ armed' = Head(mail).cmd
      /\ UNCHANGED <<sender, nsent, pending, busy, abandoned, answers, run, owed, fed>>
  BY DEF TakeArmed, Takes, linkVars
<1>1. /\ Head(mail) = mail[1] /\ 1 \in DOMAIN mail /\ Head(mail).cmd \in 0 .. MaxSends
      /\ \A i \in DOMAIN mail' : i + 1 \in DOMAIN mail /\ mail'[i] = mail[i + 1]
                                 /\ i \in Nat \ {0}
      /\ \A i \in ArmedIn(mail') : i + 1 \in ArmedIn(mail) /\ mail'[i] = mail[i + 1]
                                   /\ i \in Nat \ {0}
      /\ InMail = InMail' \cup {Head(mail).cmd}
  BY <1>0, MailTaken DEF IsArmed
<1>2. 1 \in ArmedIn(mail) /\ armed' = mail[1].cmd
  BY <1>0, <1>1 DEF ArmedIn, IsArmed
<1>3. /\ armed < armed' /\ armed' <= nsent /\ armed \in Nat /\ armed' \in Nat /\ nsent \in Nat
  BY <1>0, <1>1, <1>2, Typed, ConstantsAssumption DEF Inv, Numbered, InOrder
<1>4. OnTheWire' = OnTheWire \ ({armed} \ {armed'}) 
  <2>1. (OnTheWire = InMail \cup ({armed} \ {Nobody}) \cup Pended)'
    BY Wire, PTL
  <2>2. OnTheWire = InMail \cup ({armed} \ {Nobody}) \cup Pended
    BY Wire
  <2>3. Pended' = Pended
    BY <1>0 DEF Pended
  <2>4. \A i \in ArmedIn(mail) : armed # mail[i].cmd
    <3>1. \A i \in ArmedIn(mail) : armed < mail[i].cmd /\ mail[i].cmd \in 0 .. MaxSends
      BY Typed DEF Inv, Numbered, InOrder, ArmedIn
    <3> QED BY <1>3, <3>1
  <2>5. armed \notin InMail
    BY <2>4 DEF InMail
  <2>6. armed \notin Pended
    BY <1>3 DEF Inv, Numbered, PendedLast, Pended
  <2>7. armed' # Nobody /\ armed' # armed
    BY <1>3 DEF Nobody
  <2> QED BY <1>0, <1>1, <2>1, <2>2, <2>3, <2>5, <2>6, <2>7
<1>5. armed # Nobody => armed \in OnTheWire /\ armed \in abandoned
  <2>1. armed # Nobody => armed \in OnTheWire
    BY Wire
  <2>2. armed # nsent
    BY <1>3
  <2> QED BY <2>1, <2>2 DEF Inv, OneLive, Numbered
<1>6. Implements
  <2>1. CASE armed = Nobody
    <3>1. Nobody \notin OnTheWire
      BY WireNumbered DEF Nobody, Cmds
    <3>2. OnTheWire' = OnTheWire
      BY <1>4, <2>1, <3>1
    <3> QED BY <1>0, <3>2 DEF Implements, Abstract!vars
  <2>2. CASE armed # Nobody
    <3>1. armed # armed'
      BY <1>3
    <3>2. Abstract!Lose(armed) /\ armed \in Abstract!Cmds
      <4>1. armed \in Cmds
        BY <2>2 DEF Inv, TypeOK
      <4> QED BY <1>0, <1>4, <1>5, <2>2, <3>1, <4>1 DEF Abstract!Lose, Abstract!Cmds, Cmds
    <3> QED BY <3>2 DEF Implements, Abstract!Next
  <2> QED BY <2>1, <2>2
<1>7. InOrder'
  <2>1. ASSUME NEW i \in ArmedIn(mail')
        PROVE  armed' < mail'[i].cmd /\ mail'[i].cmd <= nsent'
    <3>1. i + 1 \in ArmedIn(mail) /\ mail'[i] = mail[i + 1] /\ 1 < i + 1
      BY <1>1
    <3> QED BY <1>0, <1>2, <3>1 DEF Inv, Numbered, InOrder
  <2>2. ASSUME NEW i \in ArmedIn(mail'), NEW j \in ArmedIn(mail'), i < j
        PROVE  mail'[i].cmd < mail'[j].cmd
    <3>1. /\ i + 1 \in ArmedIn(mail) /\ j + 1 \in ArmedIn(mail) /\ i + 1 < j + 1
          /\ mail'[i] = mail[i + 1] /\ mail'[j] = mail[j + 1]
      BY <1>1, <2>2
    <3> QED BY <3>1 DEF Inv, Numbered, InOrder
  <2>3. armed' <= nsent'
    BY <1>0, <1>3
  <2> QED BY <2>1, <2>2, <2>3 DEF InOrder, ArmedIn
<1>8. PendedLast'
  <2>1. sender.pc = "pended" => /\ sender.cmd = nsent
                                /\ \A i \in ArmedIn(mail) : mail[i].cmd < nsent
    BY DEF Inv, Numbered, PendedLast
  <2>2. sender.pc = "pended" => /\ sender.cmd = nsent /\ armed' < nsent
                                /\ \A i \in ArmedIn(mail') : mail'[i].cmd < nsent
    BY <1>1, <1>2, <2>1
  <2> QED BY <1>0, <2>2 DEF PendedLast, ArmedIn
<1>9. DisarmsGivenUp'
  <2>1. SUFFICES ASSUME NEW i \in DOMAIN mail', mail'[i].kind = "Disarm"
                 PROVE  /\ armed' \in abandoned' \cup {Nobody}
                        /\ \A j \in ArmedIn(mail') : j < i => mail'[j].cmd \in abandoned'
    BY DEF DisarmsGivenUp, ArmedIn
  <2>2. \A j \in ArmedIn(mail) : j < i + 1 => mail[j].cmd \in abandoned
    BY <1>1, <2>1 DEF Inv, DisarmsGivenUp
  <2>3. 1 < i + 1
    BY <1>1
  <2>4. armed' \in abandoned'
    BY <1>0, <1>2, <2>2, <2>3
  <2>5. ASSUME NEW j \in ArmedIn(mail'), j < i PROVE mail'[j].cmd \in abandoned'
    <3>1. j + 1 \in ArmedIn(mail) /\ mail'[j] = mail[j + 1] /\ j + 1 < i + 1
      BY <1>1, <2>1, <2>5
    <3> QED BY <1>0, <2>2, <3>1
  <2> QED BY <2>4, <2>5
<1>10. OneLive' /\ RunsOff'
  BY <1>0, <1>4 DEF Inv, OneLive, RunsOff
<1>11. Numbered'
  BY <1>0, <1>7, <1>8 DEF Inv, Numbered
<1> QED BY <1>6, <1>9, <1>10, <1>11 DEF Inv

LEMMA WorkerInv == ASSUME Inv, TypeOK', WorkerMain PROVE Inv' /\ Implements
<1> USE DEF stateVars, linkVars, history
<1>1. CASE TakeArmed
  BY <1>1, TakeArmedInv
<1>2. CASE TakeDisarm
  <2>1. /\ mail # <<>> /\ Head(mail).kind = "Disarm" /\ mail' = Tail(mail) /\ armed' = Nobody
        /\ UNCHANGED <<sender, nsent, pending, busy, abandoned, answers, run, owed, fed>>
    BY <1>2 DEF TakeDisarm, Takes
  <2>2. Head(mail) = mail[1] /\ 1 \in DOMAIN mail
    BY <2>1, MailTaken
  <2>3. armed \in abandoned \cup {Nobody}
    BY <2>1, <2>2 DEF Inv, DisarmsGivenUp
  <2> QED BY <2>1, <2>3, LetsGo DEF IsArmed
<1>3. CASE TakeLine
  BY <1>3, LetsGo DEF TakeLine, Takes, IsArmed
<1>4. CASE TakeResponse
  <2>1. /\ mail # <<>> /\ Head(mail).kind = "Response" /\ mail' = Tail(mail)
        /\ UNCHANGED <<sender, nsent, pending, busy, abandoned, owed, fed>>
    BY <1>4 DEF TakeResponse, Takes
  <2>2. CASE armed = Nobody
    BY <1>4, <2>1, <2>2, LetsGo DEF TakeResponse, IsArmed
  <2>3. CASE armed # Nobody
    BY <1>4, <2>1, <2>3, Delivers DEF TakeResponse, IsArmed
  <2> QED BY <2>2, <2>3
<1>5. CASE TimerFires
  BY <1>5, Delivers DEF TimerFires
<1> QED BY <1>1, <1>2, <1>3, <1>4, <1>5 DEF WorkerMain

LEMMA PostInv == ASSUME Inv, TypeOK', PostEvent \/ DropPosts PROVE Inv' /\ Implements
<1> USE DEF stateVars, linkVars, history
<1>1. CASE PostEvent
  <2>1. /\ fed # <<>> /\ mail' = Append(mail, Head(fed)) /\ fed' = Tail(fed)
        /\ UNCHANGED <<sender, armed, nsent, pending, busy, abandoned, answers, run, owed>>
    BY <1>1 DEF PostEvent, Post
  <2>2. fed \in Seq(Msg)
    BY DEF Inv, TypeOK
  <2>3. Head(fed) \in Msg /\ Head(fed) = fed[1] /\ 1 \in DOMAIN fed
    BY <2>1, <2>2
  <2>4. \A i \in DOMAIN fed : fed[i].kind \notin {"Armed", "Disarm"}
    BY DEF Inv, Numbered
  <2>5. Head(fed).kind \notin {"Armed", "Disarm"}
    BY <2>3, <2>4
  <2>6. InOrder' /\ PendedLast' /\ DisarmsGivenUp' /\ InMail' = InMail
    BY <2>1, <2>3, <2>5, MailGrows DEF IsArmed
  <2>7. OnTheWire' = OnTheWire
    BY <2>1, <2>6, SameWire DEF Pended
  <2>8. \A i \in DOMAIN fed' : fed'[i].kind \notin {"Armed", "Disarm"}
    BY <2>1, <2>2, <2>4, TailOf
  <2>9. OneLive' /\ RunsOff'
    BY <2>1, <2>7 DEF Inv, OneLive, RunsOff
  <2>10. Numbered'
    BY <2>1, <2>6, <2>8 DEF Inv, Numbered
  <2>11. Implements
    BY <2>1, <2>7 DEF Implements, Abstract!vars
  <2> QED BY <2>6, <2>9, <2>10, <2>11 DEF Inv
<1>2. CASE DropPosts
  <2>1. /\ mail' = Append(mail, Plain("Disarm")) /\ owed' = <<>>
        /\ abandoned' = abandoned \cup OnTheWire
        /\ UNCHANGED <<sender, armed, nsent, pending, busy, answers, run, fed>>
    BY <1>2 DEF DropPosts, Post
  <2>2. InOrder' /\ PendedLast' /\ DisarmsGivenUp' /\ InMail' = InMail
    BY <2>1, Letters, MailGrows
  <2>3. OnTheWire' = OnTheWire
    BY <2>1, <2>2, SameWire DEF Pended
  <2>4. OneLive' /\ RunsOff'
    BY <2>1, <2>3 DEF Inv, OneLive, RunsOff
  <2>5. Numbered'
    <3>1. \A i \in DOMAIN owed' : owed'[i] <= nsent'
      BY <2>1
    <3>2. /\ busy' \in {Nobody, nsent'} /\ pending' <= nsent'
          /\ sender'.cmd <= nsent' /\ (sender'.pc # "idle" => sender'.cmd # Nobody)
          /\ \A t \in Threads : run'[t].cmd <= nsent'
          /\ \A i \in DOMAIN fed' : fed'[i].kind \notin {"Armed", "Disarm"}
      BY <2>1 DEF Inv, Numbered
    <3> QED BY <2>2, <3>1, <3>2 DEF Numbered
  <2>6. Abstract!Cut
    BY <2>1, <2>3 DEF Abstract!Cut
  <2>7. Implements
    BY <2>6 DEF Implements, Abstract!Next
  <2> QED BY <2>2, <2>4, <2>5, <2>7 DEF Inv
<1> QED BY <1>1, <1>2

LEMMA FailsInv == ASSUME Inv, TypeOK', DropFails PROVE Inv' /\ Implements
<1> USE DEF linkVars
<1>0. UNCHANGED <<mail, armed, sender, nsent, busy, owed, fed>>
  BY DEF DropFails
<1>1. InMail' = InMail /\ Pended' = Pended
  BY <1>0 DEF InMail, ArmedIn, Pended
<1>2. OnTheWire' = OnTheWire
  BY <1>0, <1>1, SameWire
<1>3. InOrder' /\ PendedLast'
  BY <1>0 DEF Inv, Numbered, InOrder, PendedLast, ArmedIn
<1>4. CASE ~(up /\ pending # Nobody)
  <2>1. UNCHANGED <<pending, run, answers, abandoned>>
    BY <1>4 DEF DropFails
  <2>2. \A i \in DOMAIN owed' : owed'[i] <= nsent
    BY <1>0 DEF Inv, Numbered
  <2>3. \A i \in DOMAIN fed' : fed'[i].kind \notin {"Armed", "Disarm"}
    BY <1>0 DEF Inv, Numbered
  <2> QED BY <1>0, <2>1, <2>2, <2>3, Aside
<1>5. CASE up /\ pending # Nobody
  <2>1. /\ pending' = Nobody /\ Answer("host", pending, {})
        /\ abandoned' = abandoned \cup {pending}
    BY <1>5 DEF DropFails
  <2>2. "host" \in Threads /\ pending <= nsent
    BY DEF Inv, Numbered, Threads
  <2>3. /\ RunsOff' /\ \A u \in Threads : run'[u].cmd <= nsent'
        /\ Abstract!Answered(pending)
    BY <1>0, <1>2, <2>1, <2>2, AnswerRuns
  <2>4. OneLive'
    BY <1>0, <1>2, <2>1 DEF Inv, OneLive
  <2>5. DisarmsGivenUp'
    BY <1>0, <2>1 DEF Inv, DisarmsGivenUp, ArmedIn
  <2>6. Abstract!FailPending
    BY <1>0, <1>2, <1>5, <2>1, <2>3 DEF Abstract!FailPending, Nobody
  <2>7. Implements
    BY <2>6 DEF Implements, Abstract!Next
  <2>8. Numbered'
    <3>1. pending' <= nsent'
      BY <1>0, <2>1, Typed, ConstantsAssumption DEF Inv, Nobody
    <3> QED BY <1>0, <1>3, <2>3, <3>1 DEF Inv, Numbered
  <2> QED BY <2>3, <2>4, <2>5, <2>7, <2>8 DEF Inv
<1> QED BY <1>4, <1>5

-----------------------------------------------------------------------------
LEMMA InitInv == Init => Inv /\ Abstract!Init
<1> SUFFICES ASSUME Init PROVE Inv /\ Abstract!Init
  OBVIOUS
<1>0. /\ mail = <<>> /\ fed = <<>> /\ owed = <<>> /\ air = <<>> /\ armed = Nobody
      /\ run = [t \in Threads |-> Idle]
      /\ sender = Idle /\ busy = Nobody /\ pending = Nobody /\ nsent = 0 /\ abandoned = {}
      /\ answers = [c \in Cmds |-> 0]
  BY DEF Init
<1>1. DOMAIN mail = {} /\ ArmedIn(mail) = {} /\ DOMAIN fed = {} /\ DOMAIN owed = {}
  BY <1>0 DEF ArmedIn
<1>2. InMail = {} /\ Pended = {}
  BY <1>0, <1>1 DEF InMail, Pended, Idle
<1>3. OnTheWire = {}
  BY <1>0, <1>2, Wire
<1>4. TypeOK
  <2>1. Idle \in [pc : {"idle", "pended", "armed", "settling"}, cmd : 0 .. MaxSends]
        /\ Idle \in [pc : {"idle", "data", "completion"}, cmd : 0 .. MaxSends]
    BY ConstantsAssumption DEF Idle, Nobody
  <2>2. /\ (run \in [Threads -> [pc : {"idle", "data", "completion"}, cmd : 0 .. MaxSends]])
        /\ sender \in [pc : {"idle", "pended", "armed", "settling"}, cmd : 0 .. MaxSends]
    BY <1>0, <2>1
  <2>3. mail \in Seq(Msg) /\ fed \in Seq(Msg) /\ owed \in Seq(Cmds) /\ air \in Seq(Bytes)
    BY <1>0
  <2>4. answers \in [Cmds -> Nat] /\ nsent \in 0 .. MaxSends /\ budget \in 0 .. MaxTrouble
    BY <1>0, ConstantsAssumption DEF Init
  <2>5. up \in BOOLEAN /\ tap \in BOOLEAN /\ injected \in BOOLEAN
    BY DEF Init
  <2> QED BY <2>2, <2>3, <2>4, <2>5 DEF Init, TypeOK, Modes
<1>5. Numbered
  BY <1>0, <1>1 DEF Numbered, InOrder, PendedLast, Idle, Nobody
<1>6. OneLive /\ RunsOff /\ DisarmsGivenUp
  BY <1>0, <1>1, <1>3 DEF OneLive, RunsOff, DisarmsGivenUp
<1>7. Abstract!Init
  BY <1>0, <1>3 DEF Abstract!Init, Abstract!Cmds, Cmds, Nobody
<1> QED BY <1>4, <1>5, <1>6, <1>7 DEF Inv

LEMMA NextInv == Inv /\ [Next]_vars => Inv' /\ Implements
<1> SUFFICES ASSUME Inv, [Next]_vars PROVE Inv' /\ Implements
  OBVIOUS
<1>1. CASE Next
  <2>1. TypeOK'
    BY <1>1, SenderTyped, WorkerTyped, HostTyped, ReaderTyped DEF Next
  <2>2. CASE Sender
    BY <2>1, <2>2, PendsInv, ArmsInv, SettlesInv, AsideSteps DEF Sender
  <2>3. CASE Abort \/ (\E t \in Threads : Callback(t))
    BY <2>1, <2>3, ProcessorInv
  <2>4. CASE Adapter \/ Monitor
    BY <2>1, <2>4, AsideSteps
  <2>5. CASE Reader
    BY <2>1, <2>5, AsideSteps, PostInv DEF Reader
  <2>6. CASE WorkerMain
    BY <2>1, <2>6, WorkerInv
  <2>7. CASE Host
    BY <2>1, <2>7, AsideSteps, PostInv, FailsInv, SettlesInv DEF Host
  <2> QED BY <1>1, <2>2, <2>3, <2>4, <2>5, <2>6, <2>7 DEF Next
<1>2. CASE UNCHANGED vars
  <2> USE DEF vars, stateVars, accVars, linkVars, history
  <2>1. TypeOK'
    BY <1>2 DEF Inv, TypeOK
  <2>2. \A i \in DOMAIN owed' : owed'[i] <= nsent
    BY <1>2 DEF Inv, Numbered
  <2>3. \A i \in DOMAIN fed' : fed'[i].kind \notin {"Armed", "Disarm"}
    BY <1>2 DEF Inv, Numbered
  <2> QED BY <1>2, <2>1, <2>2, <2>3, Aside
<1> QED BY <1>1, <1>2

(* Every state of the platform is well typed.                              *)
THEOREM TypeCorrect == Spec => []TypeOK
<1>1. Inv => TypeOK
  BY DEF Inv
<1> QED BY <1>1, InitInv, NextInv, PTL DEF Spec

(* Whatever the threads, the adapter, the host and the link do, the        *)
(* command processor sees the exchange: the safety half of                 *)
(* ImplementsExchange.                                                     *)
THEOREM ExchangeKept == Spec => Abstract!Spec
<1>1. Implements => [Abstract!Next]_(Abstract!vars)
  BY DEF Implements
<1> QED BY <1>1, InitInv, NextInv, PTL DEF Spec, Abstract!Spec

-----------------------------------------------------------------------------
(***************************************************************************)
(* What the exchange promises, seen through the platform's state; nothing  *)
(* but the exchange's own steps is used.                                   *)
(***************************************************************************)
(* Nothing is known of a command before it is sent.                        *)
UnsentUnknown ==
  /\ OnTheWire \cup abandoned \subseteq 1 .. nsent
  /\ pending <= nsent
  /\ \A c \in Abstract!Cmds : c > nsent => answers[c] = 0

ExchangeInv == Abstract!TypeOK /\ UnsentUnknown /\ Abstract!AnsweredOnce

LEMMA ExchangeStart == Abstract!Init => ExchangeInv
  BY ConstantsAssumption
     DEF Abstract!Init, ExchangeInv, Abstract!TypeOK, UnsentUnknown, Abstract!AnsweredOnce,
         Abstract!Cmds

(* What a callback of c does to the counts.                                *)
LEMMA AnsweredCounts ==
  ASSUME answers \in [Abstract!Cmds -> Nat], NEW c \in Abstract!Cmds, Abstract!Answered(c)
  PROVE  /\ answers' \in [Abstract!Cmds -> Nat]
         /\ answers'[c] = answers[c] + 1
         /\ \A d \in Abstract!Cmds \ {c} : answers'[d] = answers[d]
  BY DEF Abstract!Answered

LEMMA ExchangeStep == ExchangeInv /\ [Abstract!Next]_(Abstract!vars) => ExchangeInv'
<1> SUFFICES ASSUME ExchangeInv, [Abstract!Next]_(Abstract!vars) PROVE ExchangeInv'
  OBVIOUS
<1> USE DEF ExchangeInv, Abstract!TypeOK, UnsentUnknown, Abstract!Cmds
<1>1. ASSUME NEW c \in Abstract!Cmds, Abstract!Send(c) PROVE ExchangeInv'
  <2>1. c \notin OnTheWire /\ answers[c] = 0
    BY <1>1 DEF Abstract!Send
  <2>2. (Abstract!TypeOK /\ UnsentUnknown)'
    BY <1>1 DEF Abstract!Send
  <2>3. Abstract!AnsweredOnce'
    BY <1>1, <2>1 DEF Abstract!Send, Abstract!AnsweredOnce
  <2> QED BY <2>2, <2>3
<1>2. ASSUME NEW c \in Abstract!Cmds, Abstract!Deliver(c) PROVE ExchangeInv'
  <2>1. /\ answers' \in [Abstract!Cmds -> Nat] /\ answers'[c] = answers[c] + 1
        /\ \A d \in Abstract!Cmds \ {c} : answers'[d] = answers[d]
    BY <1>2, AnsweredCounts DEF Abstract!Deliver
  <2>2. (Abstract!TypeOK /\ UnsentUnknown)'
    BY <1>2, <2>1 DEF Abstract!Deliver
  <2>3. Abstract!AnsweredOnce'
    BY <1>2, <2>1 DEF Abstract!Deliver, Abstract!AnsweredOnce
  <2> QED BY <2>2, <2>3
<1>3. ASSUME NEW c \in Abstract!Cmds, Abstract!Lose(c) PROVE ExchangeInv'
  BY <1>3 DEF Abstract!Lose, Abstract!AnsweredOnce
<1>4. CASE Abstract!Abort
  BY <1>4 DEF Abstract!Abort, Abstract!AnsweredOnce
<1>5. CASE Abstract!Cut
  BY <1>5 DEF Abstract!Cut, Abstract!AnsweredOnce
<1>6. CASE Abstract!FailPending
  <2>1. pending \in Abstract!Cmds
    BY <1>6 DEF Abstract!FailPending
  <2>2. /\ answers' \in [Abstract!Cmds -> Nat]
        /\ \A d \in Abstract!Cmds \ {pending} : answers'[d] = answers[d]
    BY <1>6, <2>1, AnsweredCounts DEF Abstract!FailPending
  <2> QED BY <1>6, <2>1, <2>2 DEF Abstract!FailPending, Abstract!AnsweredOnce
<1>7. ASSUME NEW c \in Abstract!Cmds, Abstract!Settle(c) PROVE ExchangeInv'
  <2>1. /\ answers' \in [Abstract!Cmds -> Nat]
        /\ \A d \in Abstract!Cmds \ {c} : answers'[d] = answers[d]
    BY <1>7, AnsweredCounts DEF Abstract!Settle
  <2> QED BY <1>7, <2>1 DEF Abstract!Settle, Abstract!AnsweredOnce
<1>8. CASE UNCHANGED Abstract!vars
  BY <1>8 DEF Abstract!vars, Abstract!AnsweredOnce
<1> QED
  BY <1>1, <1>2, <1>3, <1>4, <1>5, <1>6, <1>7, <1>8 DEF Abstract!Next

(* Whatever is lost, aborted, cut or answered by the host, the callbacks   *)
(* run at most once for a command that was not abandoned, and not at all   *)
(* while it is still on the wire.                                          *)
THEOREM OnceAnswered ==
  Abstract!Spec => [](Abstract!TypeOK /\ Abstract!AnsweredOnce)
<1>1. Abstract!Init => ExchangeInv
  BY ExchangeStart
<1>2. ExchangeInv /\ [Abstract!Next]_(Abstract!vars) => ExchangeInv'
  BY ExchangeStep
<1>3. ExchangeInv => Abstract!TypeOK /\ Abstract!AnsweredOnce
  BY DEF ExchangeInv
<1> QED BY <1>1, <1>2, <1>3, PTL DEF Abstract!Spec

(* So the callbacks run once for a command that was not abandoned.         *)
THEOREM AnsweredAtMostOnce == Spec => []AnsweredOnce
<1>1. Abstract!AnsweredOnce => AnsweredOnce
  BY DEF AnsweredOnce
<1> QED BY <1>1, ExchangeKept, OnceAnswered, PTL

-----------------------------------------------------------------------------
(***************************************************************************)
(* A reply meets its command.  Every text is in one place on its way from  *)
(* the adapter to the mail, and behind the letter that armed its command.  *)
(***************************************************************************)
Owed == {owed[i] : i \in DOMAIN owed}
TextOf(b) == IF b.sym = "text" THEN {b.of} \ {Nobody} ELSE {}
Aired == UNION {TextOf(air[i]) : i \in DOMAIN air}
Held == Of(buffer)
InEvents(q) == UNION {Of(q[i].text) : i \in DOMAIN q}
Travelling == Owed \cup Aired \cup Held \cup InEvents(fed) \cup InEvents(mail)

(* Nothing is in a queue twice, nor in two places.                         *)
OnceQueued ==
  /\ \A i, j \in DOMAIN owed : i # j => owed[i] # owed[j]
  /\ \A i, j \in DOMAIN air : i # j => TextOf(air[i]) \cap TextOf(air[j]) = {}
  /\ \A i, j \in DOMAIN mail : i # j => Of(mail[i].text) \cap Of(mail[j].text) = {}
  /\ Len(fed) <= 1

OncePlaced ==
  /\ Owed \cap (Aired \cup Held \cup InEvents(fed) \cup InEvents(mail)) = {}
  /\ Aired \cap (Held \cup InEvents(fed) \cup InEvents(mail)) = {}
  /\ Held \cap (InEvents(fed) \cup InEvents(mail)) = {}
  /\ InEvents(fed) \cap InEvents(mail) = {}

(* A command that is not written yet has no text.                          *)
Unwritten ==
  /\ Travelling \subseteq 1 .. nsent
  /\ sender.pc \in {"pended", "armed"} => sender.cmd \notin Travelling

(* Who waits for a text, and who of them when the i-th letter is taken.    *)
Waiting == InMail \cup {armed}
Before(q, i) == {q[j].cmd : j \in {k \in ArmedIn(q) : k < i}}

Expected ==
  /\ Travelling \subseteq GivenUp \cup Waiting
  /\ \A i \in DOMAIN mail : Of(mail[i].text) \subseteq GivenUp \cup {armed} \cup Before(mail, i)
  /\ sender.pc = "armed" => sender.cmd \in GivenUp \cup Waiting

Meeting == OnceQueued /\ OncePlaced /\ Unwritten /\ Expected

-----------------------------------------------------------------------------
(* A text is a number of a command, in whatever it is carried.             *)
LEMMA OfUnion ==
  /\ Of({}) = {} /\ \A S, T : Of(S \cup T) = Of(S) \cup Of(T)
  /\ \A S, T : S \subseteq T => Of(S) \subseteq Of(T)
  BY DEF Of

LEMMA Carried ==
  ASSUME OncePlaced, Owed' \subseteq Owed, Aired' \subseteq Aired, Held' \subseteq Held,
         InEvents(fed)' \subseteq InEvents(fed), InEvents(mail)' \subseteq InEvents(mail)
  PROVE  OncePlaced' /\ Travelling' \subseteq Travelling
  BY DEF OncePlaced, Travelling

LEMMA StillExpected ==
  ASSUME Expected, UNCHANGED <<mail, armed>>, GivenUp \subseteq GivenUp',
         Travelling' \subseteq Travelling \cup GivenUp \cup Waiting,
         sender'.pc = "armed" => sender' = sender
  PROVE  Expected'
<1>1. InMail' = InMail /\ Waiting' = Waiting
  BY DEF InMail, Waiting, ArmedIn
<1>2. Travelling' \subseteq GivenUp' \cup Waiting'
  BY <1>1 DEF Expected
<1>3. \A i \in DOMAIN mail' :
        Of(mail'[i].text) \subseteq GivenUp' \cup {armed'} \cup Before(mail', i)
  BY DEF Expected
<1>4. sender'.pc = "armed" => sender'.cmd \in GivenUp' \cup Waiting'
  BY <1>1 DEF Expected
<1> QED BY <1>2, <1>3, <1>4 DEF Expected

(* Nothing moves; something may be given up.                               *)
LEMMA Quietly ==
  ASSUME Meeting, UNCHANGED <<owed, air, fed, mail, armed, nsent>>, buffer' \subseteq buffer,
         GivenUp \subseteq GivenUp', sender' = sender \/ sender'.pc \notin {"pended", "armed"}
  PROVE  Meeting'
<1>1. /\ Owed' = Owed /\ Aired' = Aired /\ Held' \subseteq Held
      /\ InEvents(fed)' = InEvents(fed) /\ InEvents(mail)' = InEvents(mail)
  BY OfUnion DEF Owed, Aired, Held, InEvents
<1>2. OnceQueued'
  BY DEF Meeting, OnceQueued
<1>3. OncePlaced' /\ Travelling' \subseteq Travelling
  BY <1>1, Carried DEF Meeting
<1>4. Unwritten'
  BY <1>3 DEF Meeting, Unwritten
<1>5. Expected'
  BY <1>3, StillExpected DEF Meeting
<1> QED BY <1>2, <1>3, <1>4, <1>5 DEF Meeting

-----------------------------------------------------------------------------
(* The mail grows by a letter, and loses its first.                        *)
LEMMA MailedOn ==
  ASSUME Inv, Meeting, NEW msg \in Msg, mail' = Append(mail, msg),
         Of(msg.text) \cap InEvents(mail) = {}
  PROVE  /\ InEvents(mail)' = InEvents(mail) \cup Of(msg.text)
         /\ \A i, j \in DOMAIN mail' : i # j => Of(mail'[i].text) \cap Of(mail'[j].text) = {}
         /\ DOMAIN mail' = DOMAIN mail \cup {Len(mail) + 1} /\ mail'[Len(mail) + 1] = msg
         /\ \A i \in DOMAIN mail : mail'[i] = mail[i] /\ Before(mail, i) \subseteq Before(mail', i)
         /\ InMail \subseteq Before(mail', Len(mail) + 1)
         /\ InMail' = InMail \cup (IF IsArmed(msg) THEN {msg.cmd} ELSE {})
<1>1. /\ Len(mail) \in Nat /\ DOMAIN mail = 1 .. Len(mail)
      /\ DOMAIN mail' = 1 .. Len(mail) + 1
      /\ \A i \in DOMAIN mail : mail'[i] = mail[i]
      /\ mail'[Len(mail) + 1] = msg
  <2>1. mail \in Seq(Msg)
    BY DEF Inv, TypeOK
  <2> QED BY <2>1
<1>2. /\ DOMAIN mail' = DOMAIN mail \cup {Len(mail) + 1} /\ Len(mail) + 1 \notin DOMAIN mail
      /\ \A i \in DOMAIN mail : i < Len(mail) + 1
  BY <1>1
<1>3. InEvents(mail)' = InEvents(mail) \cup Of(msg.text)
  BY <1>1, <1>2 DEF InEvents
<1>4. \A i, j \in DOMAIN mail' : i # j => Of(mail'[i].text) \cap Of(mail'[j].text) = {}
  <2>1. \A i, j \in DOMAIN mail : i # j => Of(mail[i].text) \cap Of(mail[j].text) = {}
    BY DEF Meeting, OnceQueued
  <2>2. \A i \in DOMAIN mail : Of(mail[i].text) \cap Of(msg.text) = {}
    BY DEF InEvents
  <2> HIDE DEF Of
  <2> QED BY <1>1, <1>2, <2>1, <2>2
<1>5. ArmedIn(mail) \subseteq DOMAIN mail
      /\ ArmedIn(mail') = ArmedIn(mail) \cup (IF IsArmed(msg) THEN {Len(mail) + 1} ELSE {})
  BY <1>1, <1>2 DEF ArmedIn
<1>6. \A i \in DOMAIN mail : Before(mail, i) \subseteq Before(mail', i)
  BY <1>1, <1>5 DEF Before
<1>7. InMail \subseteq Before(mail', Len(mail) + 1)
  BY <1>1, <1>2, <1>5 DEF Before, InMail
<1>8. InMail' = InMail \cup (IF IsArmed(msg) THEN {msg.cmd} ELSE {})
  BY <1>1, <1>5 DEF InMail
<1> QED BY <1>1, <1>2, <1>3, <1>4, <1>6, <1>7, <1>8

LEMMA MailedOff ==
  ASSUME Inv, Meeting, mail # <<>>, mail' = Tail(mail)
  PROVE  /\ InEvents(mail)' \subseteq InEvents(mail) /\ Of(Head(mail).text) \subseteq InEvents(mail)
         /\ InEvents(mail)' \cap Of(Head(mail).text) = {}
         /\ \A i, j \in DOMAIN mail' : i # j => Of(mail'[i].text) \cap Of(mail'[j].text) = {}
         /\ \A i \in DOMAIN mail' :
              /\ i + 1 \in DOMAIN mail /\ mail'[i] = mail[i + 1]
              /\ Before(mail, i + 1) \subseteq Before(mail', i)
                   \cup (IF IsArmed(Head(mail)) THEN {Head(mail).cmd} ELSE {})
<1>1. /\ Head(mail) = mail[1] /\ Len(mail) \in Nat
      /\ DOMAIN mail = 1 .. Len(mail) /\ DOMAIN mail' = 1 .. Len(mail) - 1
      /\ 1 \in DOMAIN mail
      /\ \A i \in DOMAIN mail' : mail'[i] = mail[i + 1] /\ i + 1 \in DOMAIN mail
  <2>1. mail \in Seq(Msg)
    BY DEF Inv, TypeOK
  <2> QED BY <2>1
<1>2. \A i, j \in DOMAIN mail : i # j => Of(mail[i].text) \cap Of(mail[j].text) = {}
  BY DEF Meeting, OnceQueued
<1>3. /\ InEvents(mail)' \subseteq InEvents(mail) /\ Of(Head(mail).text) \subseteq InEvents(mail)
  BY <1>1 DEF InEvents
<1>4. InEvents(mail)' \cap Of(Head(mail).text) = {}
  <2>1. \A i \in DOMAIN mail' : i + 1 # 1
    BY <1>1
  <2>2. \A i \in DOMAIN mail' : Of(mail'[i].text) \cap Of(mail[1].text) = {}
    BY <1>1, <1>2, <2>1
  <2> QED BY <1>1, <2>2 DEF InEvents
<1>5. \A i, j \in DOMAIN mail' : i # j => Of(mail'[i].text) \cap Of(mail'[j].text) = {}
  <2>1. SUFFICES ASSUME NEW i \in DOMAIN mail', NEW j \in DOMAIN mail', i # j
                 PROVE  Of(mail'[i].text) \cap Of(mail'[j].text) = {}
    OBVIOUS
  <2>2. i + 1 # j + 1 /\ i + 1 \in DOMAIN mail /\ j + 1 \in DOMAIN mail
    BY <1>1, <2>1
  <2>3. mail'[i] = mail[i + 1] /\ mail'[j] = mail[j + 1]
    BY <1>1
  <2> QED BY <1>2, <2>2, <2>3
<1>6. \A i \in DOMAIN mail' :
        Before(mail, i + 1) \subseteq Before(mail', i)
          \cup (IF IsArmed(Head(mail)) THEN {Head(mail).cmd} ELSE {})
  <2>1. SUFFICES ASSUME NEW i \in DOMAIN mail', NEW j \in ArmedIn(mail), j < i + 1
                 PROVE  mail[j].cmd \in Before(mail', i)
                          \cup (IF IsArmed(Head(mail)) THEN {Head(mail).cmd} ELSE {})
    BY DEF Before
  <2>2. CASE j = 1
    BY <1>1, <2>1, <2>2 DEF ArmedIn
  <2>3. CASE j # 1
    <3>1. j \in DOMAIN mail /\ IsArmed(mail[j])
      BY <2>1 DEF ArmedIn
    <3>2. j - 1 \in DOMAIN mail' /\ mail'[j - 1] = mail[j] /\ j - 1 < i
      BY <1>1, <2>1, <2>3, <3>1
    <3> QED BY <3>1, <3>2 DEF Before, ArmedIn
  <2> QED BY <2>2, <2>3
<1> QED BY <1>1, <1>3, <1>4, <1>5, <1>6

(* A letter without a text: nothing else travels.                          *)
LEMMA Lettered ==
  ASSUME Inv, Meeting, NEW msg \in Msg, msg.text = {}, mail' = Append(mail, msg),
         UNCHANGED <<fed, buffer, armed, nsent>>, Owed' \subseteq Owed, Aired' \subseteq Aired,
         \A i, j \in DOMAIN owed' : i # j => owed'[i] # owed'[j],
         \A i, j \in DOMAIN air' : i # j => TextOf(air'[i]) \cap TextOf(air'[j]) = {},
         GivenUp \subseteq GivenUp',
         sender'.pc \in {"pended", "armed"} =>
           sender.pc \in {"pended", "armed"} /\ sender'.cmd = sender.cmd,
         sender'.pc = "armed" => sender.pc = "armed" \/ sender'.cmd \in InMail'
  PROVE  Meeting'
<1>1. Of(msg.text) = {}
  BY OfUnion
<1>2. /\ InEvents(mail)' = InEvents(mail) \cup Of(msg.text)
      /\ \A i, j \in DOMAIN mail' : i # j => Of(mail'[i].text) \cap Of(mail'[j].text) = {}
      /\ DOMAIN mail' = DOMAIN mail \cup {Len(mail) + 1} /\ mail'[Len(mail) + 1] = msg
      /\ \A i \in DOMAIN mail : mail'[i] = mail[i] /\ Before(mail, i) \subseteq Before(mail', i)
      /\ InMail' = InMail \cup (IF IsArmed(msg) THEN {msg.cmd} ELSE {})
  <2>1. Of(msg.text) \cap InEvents(mail) = {}
    BY <1>1
  <2> QED BY <2>1, MailedOn
<1>3. Held' = Held /\ InEvents(fed)' = InEvents(fed)
  BY DEF Held, InEvents
<1>4. OncePlaced' /\ Travelling' \subseteq Travelling
  BY <1>1, <1>2, <1>3, Carried DEF Meeting
<1>5. OnceQueued'
  BY <1>2 DEF Meeting, OnceQueued
<1>6. Unwritten'
  BY <1>4 DEF Meeting, Unwritten
<1>7. Expected'
  <2>1. Waiting \subseteq Waiting'
    BY <1>2 DEF Waiting
  <2>2. Travelling' \subseteq GivenUp' \cup Waiting'
    BY <1>4, <2>1 DEF Meeting, Expected
  <2>3. \A i \in DOMAIN mail' :
          Of(mail'[i].text) \subseteq GivenUp' \cup {armed'} \cup Before(mail', i)
    <3>1. SUFFICES ASSUME NEW i \in DOMAIN mail'
                   PROVE  Of(mail'[i].text) \subseteq GivenUp' \cup {armed'} \cup Before(mail', i)
      OBVIOUS
    <3>2. CASE i \in DOMAIN mail
      BY <1>2, <3>2 DEF Meeting, Expected
    <3>3. CASE i = Len(mail) + 1
      BY <1>1, <1>2, <3>3
    <3> QED BY <1>2, <3>2, <3>3
  <2>4. sender'.pc = "armed" => sender'.cmd \in GivenUp' \cup Waiting'
    BY <2>1 DEF Meeting, Expected, Waiting
  <2> QED BY <2>2, <2>3, <2>4 DEF Expected
<1> QED BY <1>4, <1>5, <1>6, <1>7 DEF Meeting

-----------------------------------------------------------------------------
(* The sender and the link.                                                *)
LEMMA SenderMeets == ASSUME Inv, Meeting, Sender \/ Abort PROVE Meeting'
<1> USE DEF stateVars, accVars, linkVars, history, Trouble
<1>0. /\ owed \in Seq(Cmds) /\ nsent \in Nat
      /\ \A i, j \in DOMAIN owed : i # j => owed[i] # owed[j]
      /\ \A i, j \in DOMAIN air : i # j => TextOf(air[i]) \cap TextOf(air[j]) = {}
  BY WireNumbered DEF Inv, TypeOK, Meeting, OnceQueued
<1>1. CASE SendPends
  <2>1. /\ UNCHANGED <<owed, air, buffer, fed, mail, armed, abandoned, late>>
        /\ nsent' = nsent + 1 /\ sender'.pc = "pended" /\ sender'.cmd = nsent + 1
    BY <1>1 DEF SendPends
  <2>2. /\ Owed' = Owed /\ Aired' = Aired /\ Held' = Held
        /\ InEvents(fed)' = InEvents(fed) /\ InEvents(mail)' = InEvents(mail)
    BY <2>1 DEF Owed, Aired, Held, InEvents
  <2>3. OncePlaced' /\ Travelling' \subseteq Travelling
    BY <2>2, Carried DEF Meeting
  <2>4. OnceQueued'
    BY <2>1 DEF Meeting, OnceQueued
  <2>5. Unwritten'
    BY <1>0, <2>1, <2>3 DEF Meeting, Unwritten
  <2>6. Expected'
    <3>1. GivenUp' = GivenUp
      BY <2>1 DEF GivenUp
    <3> QED BY <2>1, <2>3, <3>1, StillExpected DEF Meeting
  <2> QED BY <2>3, <2>4, <2>5, <2>6 DEF Meeting
<1>2. CASE SendArms
  <2>1. /\ UNCHANGED <<owed, air, buffer, fed, armed, nsent, abandoned, late>>
        /\ mail' = Append(mail, Armed(sender.cmd)) /\ sender.pc = "pended"
        /\ sender'.pc = "armed" /\ sender'.cmd = sender.cmd
    BY <1>2 DEF SendArms, Post, Inv, TypeOK
  <2>2. /\ Armed(sender.cmd) \in Msg /\ Armed(sender.cmd).text = {}
        /\ IsArmed(Armed(sender.cmd)) /\ Armed(sender.cmd).cmd = sender.cmd
    BY Letters, Typed DEF Inv, Armed
  <2>3. /\ Owed' = Owed /\ Aired' = Aired /\ GivenUp' = GivenUp
    BY <2>1 DEF Owed, Aired, GivenUp
  <2>4. sender.cmd \in InMail'
    <3>1. Of(Armed(sender.cmd).text) \cap InEvents(mail) = {}
      BY <2>2, OfUnion
    <3> QED BY <2>1, <2>2, <3>1, MailedOn
  <2> QED BY <1>0, <2>1, <2>2, <2>3, <2>4, Lettered
<1>3. CASE SendWrites
  <2>1. /\ UNCHANGED <<air, buffer, fed, mail, armed, nsent, abandoned, late>>
        /\ sender.pc = "armed" /\ sender'.pc = "idle"
        /\ owed' \in {owed, Append(owed, sender.cmd)}
    BY <1>3 DEF SendWrites, Idle
  <2>2. /\ Aired' = Aired /\ Held' = Held /\ GivenUp' = GivenUp
        /\ InEvents(fed)' = InEvents(fed) /\ InEvents(mail)' = InEvents(mail)
    BY <2>1 DEF Aired, Held, InEvents, GivenUp
  <2>3. /\ Owed' \subseteq Owed \cup {sender.cmd}
        /\ \A i, j \in DOMAIN owed' : i # j => owed'[i] # owed'[j]
    <3>1. \A i \in DOMAIN owed : owed[i] # sender.cmd
      BY <2>1 DEF Meeting, Unwritten, Travelling, Owed
    <3>2. CASE owed' = Append(owed, sender.cmd)
      <4>1. /\ DOMAIN owed' = DOMAIN owed \cup {Len(owed) + 1} /\ owed'[Len(owed) + 1] = sender.cmd
            /\ \A i \in DOMAIN owed : owed'[i] = owed[i]
        BY <1>0, <3>2
      <4> QED BY <1>0, <3>1, <4>1 DEF Owed
    <3>3. CASE owed' = owed
      BY <1>0, <3>3 DEF Owed
    <3> QED BY <2>1, <3>2, <3>3
  <2>4. sender.cmd \notin Travelling /\ sender.cmd \in 1 .. nsent
    <3>1. sender.cmd <= nsent /\ sender.cmd # Nobody /\ sender.cmd \in Nat
      BY <2>1, Typed, ConstantsAssumption DEF Inv, Numbered
    <3> QED BY <1>0, <2>1, <3>1 DEF Meeting, Unwritten, Nobody
  <2>5. OncePlaced'
    BY <2>2, <2>3, <2>4 DEF Meeting, OncePlaced, Travelling
  <2>6. Travelling' \subseteq Travelling \cup {sender.cmd}
    BY <2>2, <2>3 DEF Travelling
  <2>7. OnceQueued'
    BY <2>1, <2>3 DEF Meeting, OnceQueued
  <2>8. Unwritten'
    BY <2>1, <2>4, <2>6 DEF Meeting, Unwritten
  <2>9. Expected'
    <3>1. sender.cmd \in GivenUp \cup Waiting
      BY <2>1 DEF Meeting, Expected
    <3> QED BY <2>1, <2>2, <2>6, <3>1, StillExpected DEF Meeting
  <2> QED BY <2>5, <2>7, <2>8, <2>9 DEF Meeting
<1>4. CASE SendSettles
  <2>1. /\ UNCHANGED <<owed, air, buffer, fed, armed, nsent>>
        /\ mail' = Append(mail, Plain("Disarm")) /\ sender'.pc = "settling"
        /\ abandoned \subseteq abandoned' /\ late \subseteq late'
    BY <1>4 DEF SendSettles, Post, Answer, Inv, TypeOK
  <2>2. Plain("Disarm") \in Msg /\ Plain("Disarm").text = {}
    BY Letters DEF Plain
  <2>3. /\ Owed' = Owed /\ Aired' = Aired /\ GivenUp \subseteq GivenUp'
    BY <2>1 DEF Owed, Aired, GivenUp
  <2> QED BY <1>0, <2>1, <2>2, <2>3, Lettered
<1>5. CASE SendReturns
  <2>1. GivenUp' = GivenUp /\ sender'.pc = "idle"
    BY <1>5 DEF SendReturns, GivenUp, Idle
  <2> QED BY <1>5, <2>1, Quietly DEF SendReturns
<1>6. CASE Abort
  <2>1. GivenUp \subseteq GivenUp'
    BY <1>6 DEF Abort, GivenUp
  <2> QED BY <1>6, <2>1, Quietly DEF Abort
<1> QED BY <1>1, <1>2, <1>3, <1>4, <1>5, <1>6 DEF Sender

-----------------------------------------------------------------------------
(* The adapter and the reader.                                             *)
TextsFrom(q, m, n) == UNION {TextOf(q[i]) : i \in {j \in DOMAIN q : m <= j /\ j <= n}}

(* Two stretches of the air share no text.                                 *)
LEMMA Stretches ==
  ASSUME Inv, OnceQueued, NEW k \in 1 .. Len(air)
  PROVE  /\ Aired = TextsFrom(air, 1, k) \cup TextsFrom(air, k + 1, Len(air))
         /\ TextsFrom(air, 1, k) \cap TextsFrom(air, k + 1, Len(air)) = {}
<1>1. Len(air) \in Nat /\ DOMAIN air = 1 .. Len(air)
  BY DEF Inv, TypeOK
<1>2. \A i \in DOMAIN air : i <= k \/ k + 1 <= i
  BY <1>1
<1>3. Aired \subseteq TextsFrom(air, 1, k) \cup TextsFrom(air, k + 1, Len(air))
  BY <1>1, <1>2 DEF Aired, TextsFrom
<1>4. TextsFrom(air, 1, k) \cup TextsFrom(air, k + 1, Len(air)) \subseteq Aired
  BY DEF Aired, TextsFrom
<1>5. \A i, j \in DOMAIN air : i <= k /\ k + 1 <= j => TextOf(air[i]) \cap TextOf(air[j]) = {}
  <2>1. \A i, j \in DOMAIN air : i <= k /\ k + 1 <= j => i # j
    BY <1>1
  <2> QED BY <2>1 DEF OnceQueued
<1>6. TextsFrom(air, 1, k) \cap TextsFrom(air, k + 1, Len(air)) = {}
  BY <1>5 DEF TextsFrom
<1> QED BY <1>3, <1>4, <1>6

(* A piece of a sequence of bytes, and the numbers of its texts.           *)
LEMMA PieceOf ==
  ASSUME NEW s \in Seq(Bytes), NEW m \in 1 .. Len(s) + 1, NEW n \in 0 .. Len(s)
  PROVE  /\ SubSeq(s, m, n) \in Seq(Bytes) /\ Len(SubSeq(s, m, n)) \in Nat
         /\ n - m + 1 >= 0 => Len(SubSeq(s, m, n)) = n - m + 1
         /\ \A i \in DOMAIN SubSeq(s, m, n) :
              i \in Nat \ {0} /\ i + m - 1 \in DOMAIN s /\ m <= i + m - 1 /\ i + m - 1 <= n
              /\ SubSeq(s, m, n)[i] = s[i + m - 1]
<1>1. m \in Int /\ n \in Int /\ Len(s) \in Nat /\ DOMAIN s = 1 .. Len(s)
  OBVIOUS
<1>2. SubSeq(s, m, n) \in Seq(Bytes)
  BY Cuts
<1>3. Len(SubSeq(s, m, n)) = IF m <= n THEN n - m + 1 ELSE 0
  BY <1>1
<1>4. DOMAIN SubSeq(s, m, n) = 1 .. Len(SubSeq(s, m, n))
  BY <1>2
<1>5. \A i \in 1 .. (IF m <= n THEN n - m + 1 ELSE 0) : SubSeq(s, m, n)[i] = s[i + m - 1]
  BY <1>1
<1>6. \A i \in DOMAIN SubSeq(s, m, n) :
        i \in Nat \ {0} /\ i + m - 1 \in 1 .. Len(s) /\ m <= i + m - 1 /\ i + m - 1 <= n
  BY <1>1, <1>3, <1>4
<1> QED BY <1>1, <1>2, <1>3, <1>4, <1>5, <1>6

LEMMA TextsOfPiece ==
  ASSUME NEW s \in Seq(Bytes), NEW m \in 1 .. Len(s) + 1, NEW n \in 0 .. Len(s)
  PROVE  Of(Texts(SubSeq(s, m, n))) \subseteq TextsFrom(s, m, n)
<1> DEFINE q == SubSeq(s, m, n)
<1>1. \A i \in DOMAIN q : i + m - 1 \in DOMAIN s /\ m <= i + m - 1 /\ i + m - 1 <= n
                          /\ q[i] = s[i + m - 1]
  BY PieceOf
<1> HIDE DEF q
<1>2. SUFFICES ASSUME NEW c \in Of(Texts(q)) PROVE c \in TextsFrom(s, m, n)
  BY DEF q
<1>3. PICK i \in DOMAIN q : q[i].sym = "text" /\ c = q[i].of /\ c # Nobody
  BY <1>2 DEF Of, Texts
<1>4. c \in TextOf(s[i + m - 1])
  BY <1>1, <1>3 DEF TextOf
<1> QED BY <1>1, <1>4 DEF TextsFrom

(* What the reader takes off the air it holds, or hands on, but not both.  *)
LEMMA Drained ==
  ASSUME Inv, Meeting, FeedBytes
  PROVE  \E k \in 1 .. Len(air) :
           /\ air' = SubSeq(air, k + 1, Len(air)) /\ Len(fed') <= 1
           /\ Held' \cup InEvents(fed)' \subseteq Held \cup TextsFrom(air, 1, k)
           /\ Held' \cap InEvents(fed)' = {}
<1>1. PICK k \in 1 .. Len(air) :
        LET chunk == SubSeq(air, 1, k)
        IN /\ IF mode = "Prompt" THEN DrainPrompt(chunk)
              ELSE Last(SubSeq(chunk, 1, k - 1), "eol") = 0 /\ DrainLines(chunk)
           /\ air' = SubSeq(air, k + 1, Len(air))
  BY DEF FeedBytes
<1> DEFINE chunk == SubSeq(air, 1, k)
<1>2. air \in Seq(Bytes) /\ Len(air) \in Nat /\ DOMAIN air = 1 .. Len(air)
  BY DEF Inv, TypeOK
<1>3. /\ chunk \in Seq(Bytes) /\ Len(chunk) = k /\ k \in Nat \ {0}
      /\ \A i \in DOMAIN chunk : i \in DOMAIN air /\ i <= k /\ chunk[i] = air[i] /\ i \in Int
  <2>1. 1 \in 1 .. Len(air) + 1 /\ k \in 0 .. Len(air) /\ k - 1 + 1 >= 0 /\ k \in Nat \ {0}
    BY <1>2
  <2>2. /\ chunk \in Seq(Bytes) /\ Len(chunk) = k - 1 + 1
        /\ \A i \in DOMAIN chunk : i \in Nat \ {0} /\ i + 1 - 1 \in DOMAIN air /\ i + 1 - 1 <= k
                                   /\ chunk[i] = air[i + 1 - 1]
    BY <1>2, <2>1, PieceOf
  <2>3. k - 1 + 1 = k /\ \A i \in DOMAIN chunk : i + 1 - 1 = i
    BY <2>1, <2>2
  <2> QED BY <2>1, <2>2, <2>3
<1> HIDE DEF chunk
<1>4. \A m, n \in Int : TextsFrom(chunk, m, n) \subseteq TextsFrom(air, 1, k)
  <2>1. SUFFICES ASSUME NEW i \in DOMAIN chunk
                 PROVE  TextOf(chunk[i]) \subseteq TextsFrom(air, 1, k)
    BY DEF TextsFrom
  <2>2. i \in DOMAIN air /\ 1 <= i /\ i <= k /\ chunk[i] = air[i]
    BY <1>2, <1>3
  <2> QED BY <2>2 DEF TextsFrom
<1>5. ASSUME NEW sym
      PROVE  LET e == Last(chunk, sym)
                 upTo == Of(Texts(SubSeq(chunk, 1, e)))
                 after == Of(Texts(SubSeq(chunk, e + 1, Len(chunk))))
             IN  upTo \cup after \subseteq TextsFrom(air, 1, k) /\ upTo \cap after = {}
  <2> DEFINE e == Last(chunk, sym)
  <2>1. e \in 0 .. k /\ 1 \in 1 .. Len(chunk) + 1 /\ e + 1 \in 1 .. Len(chunk) + 1
        /\ Len(chunk) \in 0 .. Len(chunk)
    BY <1>3, LastIn
  <2>2. /\ Of(Texts(SubSeq(chunk, 1, e))) \subseteq TextsFrom(chunk, 1, e)
        /\ Of(Texts(SubSeq(chunk, e + 1, Len(chunk)))) \subseteq TextsFrom(chunk, e + 1, Len(chunk))
    BY <1>3, <2>1, TextsOfPiece
  <2> HIDE DEF e
  <2>3. TextsFrom(chunk, 1, e) \cap TextsFrom(chunk, e + 1, Len(chunk)) = {}
    <3>1. \A i, j \in DOMAIN chunk : i <= e /\ e + 1 <= j =>
                                     TextOf(chunk[i]) \cap TextOf(chunk[j]) = {}
      <4>1. \A i, j \in DOMAIN chunk : i <= e /\ e + 1 <= j => i # j
        BY <1>3, <2>1
      <4> QED BY <1>3, <4>1 DEF Meeting, OnceQueued
    <3> QED BY <3>1 DEF TextsFrom
  <2>4. /\ TextsFrom(chunk, 1, e) \subseteq TextsFrom(air, 1, k)
        /\ TextsFrom(chunk, e + 1, Len(chunk)) \subseteq TextsFrom(air, 1, k)
    <3>1. e \in Int /\ e + 1 \in Int /\ 1 \in Int /\ Len(chunk) \in Int
      BY <1>3, <2>1
    <3> QED BY <1>4, <3>1
  <2> QED BY <2>2, <2>3, <2>4 DEF e
<1>6. Of(Texts(chunk)) \subseteq TextsFrom(air, 1, k)
  <2>1. SUFFICES ASSUME NEW c \in Of(Texts(chunk)) PROVE c \in TextsFrom(air, 1, k)
    OBVIOUS
  <2>2. PICK i \in DOMAIN chunk : chunk[i].sym = "text" /\ c = chunk[i].of /\ c # Nobody
    BY DEF Of, Texts
  <2>3. c \in TextOf(air[i]) /\ i \in DOMAIN air /\ 1 <= i /\ i <= k
    BY <1>2, <1>3, <2>2 DEF TextOf
  <2> QED BY <2>3 DEF TextsFrom
<1>7. \A kind, texts : /\ InEvents(<<Event(kind, texts)>>) = Of(texts)
                       /\ Len(<<Event(kind, texts)>>) = 1
  <2>1. SUFFICES ASSUME NEW kind, NEW texts
                 PROVE  /\ InEvents(<<Event(kind, texts)>>) = Of(texts)
                        /\ Len(<<Event(kind, texts)>>) = 1
    OBVIOUS
  <2>2. DOMAIN <<Event(kind, texts)>> = {1} /\ <<Event(kind, texts)>>[1].text = texts
    BY DEF Event
  <2> QED BY <2>2 DEF InEvents
<1>8. InEvents(<<>>) = {} /\ Len(<<>>) = 0 /\ Len(<<Plain("Dropped")>>) = 1
      /\ InEvents(<<Plain("Dropped")>>) = {}
  <2>1. DOMAIN <<Plain("Dropped")>> = {1} /\ <<Plain("Dropped")>>[1].text = {}
    BY DEF Plain
  <2> QED BY <2>1, OfUnion DEF InEvents
<1>9. CASE mode = "Prompt"
  <2>1. DrainPrompt(chunk)
    BY <1>1, <1>9 DEF chunk
  <2> DEFINE p == Last(chunk, "prompt")
             text == buffer \cup Texts(SubSeq(chunk, 1, p))
  <2>2. Of(text) \subseteq Held \cup TextsFrom(air, 1, k)
    <3>1. Of(text) = Of(buffer) \cup Of(Texts(SubSeq(chunk, 1, p)))
      BY OfUnion
    <3> QED BY <1>5, <3>1 DEF Held
  <2>3. CASE p = 0
    <3>1. buffer' = buffer \cup Texts(chunk) /\ fed' = <<>>
      BY <2>1, <2>3 DEF DrainPrompt
    <3>2. Held' = Held \cup Of(Texts(chunk)) /\ InEvents(fed)' = {} /\ Len(fed') <= 1
      BY <1>8, <3>1, OfUnion DEF Held
    <3> QED BY <1>1, <1>6, <3>2
  <2>4. CASE p # 0
    <3>1. buffer' = {} /\ fed' \in {<<Plain("Dropped")>>, <<Event("Response", text)>>}
      BY <2>1, <2>4 DEF DrainPrompt
    <3>2. Held' = {} /\ InEvents(fed)' \subseteq Of(text) /\ Len(fed') <= 1
      <4> HIDE DEF text
      <4>1. Held' = {}
        BY <3>1, OfUnion DEF Held
      <4>2. CASE fed' = <<Plain("Dropped")>>
        BY <1>8, <4>1, <4>2
      <4>3. CASE fed' = <<Event("Response", text)>>
        <5>1. InEvents(<<Event("Response", text)>>) = Of(text)
              /\ Len(<<Event("Response", text)>>) = 1
          BY <1>7
        <5> QED BY <4>1, <4>3, <5>1
      <4> QED BY <3>1, <4>2, <4>3
    <3> QED BY <1>1, <2>2, <3>2
  <2> QED BY <2>3, <2>4
<1>10. CASE mode # "Prompt"
  <2>1. DrainLines(chunk)
    BY <1>1, <1>10 DEF chunk
  <2> DEFINE e == Last(chunk, "eol")
             line == buffer \cup Texts(SubSeq(chunk, 1, e))
             rest == Texts(SubSeq(chunk, e + 1, Len(chunk)))
  <2>2. /\ Of(line) \subseteq Held \cup TextsFrom(air, 1, k)
        /\ Of(rest) \subseteq TextsFrom(air, 1, k)
        /\ Of(line) \cap Of(rest) = {}
    <3>1. Of(line) = Held \cup Of(Texts(SubSeq(chunk, 1, e)))
      BY OfUnion DEF Held
    <3>2. /\ Of(Texts(SubSeq(chunk, 1, e))) \cup Of(rest) \subseteq TextsFrom(air, 1, k)
          /\ Of(Texts(SubSeq(chunk, 1, e))) \cap Of(rest) = {}
      BY <1>5
    <3>3. TextsFrom(air, 1, k) \cap Held = {}
      <4>1. TextsFrom(air, 1, k) \subseteq Aired
        BY DEF TextsFrom, Aired
      <4> QED BY <4>1 DEF Meeting, OncePlaced
    <3> HIDE DEF line, rest, e
    <3> QED BY <3>1, <3>2, <3>3
  <2>3. CASE e = 0
    <3>1. buffer' = buffer \cup Texts(chunk) /\ fed' = <<>>
      BY <2>1, <2>3 DEF DrainLines
    <3>2. Held' = Held \cup Of(Texts(chunk)) /\ InEvents(fed)' = {} /\ Len(fed') <= 1
      BY <1>8, <3>1, OfUnion DEF Held
    <3> QED BY <1>1, <1>6, <3>2
  <2>4. CASE e # 0
    <3>1. buffer' = rest /\ fed' \in {<<>>, <<Event("Line", line)>>}
      BY <2>1, <2>4 DEF DrainLines
    <3>2. Held' = Of(rest) /\ InEvents(fed)' \subseteq Of(line) /\ Len(fed') <= 1
      <4> HIDE DEF line, rest
      <4>1. Held' = Of(rest)
        BY <3>1 DEF Held
      <4>2. CASE fed' = <<>>
        BY <1>8, <4>1, <4>2
      <4>3. CASE fed' = <<Event("Line", line)>>
        <5>1. InEvents(<<Event("Line", line)>>) = Of(line) /\ Len(<<Event("Line", line)>>) = 1
          BY <1>7
        <5> QED BY <4>1, <4>3, <5>1
      <4> QED BY <3>1, <4>2, <4>3
    <3> QED BY <1>1, <2>2, <3>2
  <2> QED BY <2>3, <2>4
<1> QED BY <1>9, <1>10

LEMMA LinkMeets == ASSUME Inv, Meeting, Adapter \/ Reader PROVE Meeting'
<1> USE DEF stateVars, accVars, linkVars, history, Trouble
<1>0. /\ owed \in Seq(Cmds) /\ air \in Seq(Bytes) /\ fed \in Seq(Msg) /\ Len(air) \in Nat
      /\ DOMAIN air = 1 .. Len(air)
      /\ \A i, j \in DOMAIN owed : i # j => owed[i] # owed[j]
      /\ \A i, j \in DOMAIN air : i # j => TextOf(air[i]) \cap TextOf(air[j]) = {}
  BY DEF Inv, TypeOK, Meeting, OnceQueued
<1>1. ASSUME owed # <<>>
      PROVE  /\ Head(owed) \in Owed /\ Head(owed) \in Cmds
             /\ \A i \in DOMAIN Tail(owed) : Tail(owed)[i] \in Owed \ {Head(owed)}
             /\ \A i, j \in DOMAIN Tail(owed) : i # j => Tail(owed)[i] # Tail(owed)[j]
  <2>1. /\ Head(owed) = owed[1] /\ 1 \in DOMAIN owed /\ Head(owed) \in Cmds
        /\ \A i \in DOMAIN Tail(owed) : i + 1 \in DOMAIN owed /\ Tail(owed)[i] = owed[i + 1]
                                        /\ i + 1 # 1 /\ i \in Int
    BY <1>0, <1>1
  <2>2. \A i \in DOMAIN Tail(owed) : Tail(owed)[i] \in Owed \ {Head(owed)}
    BY <1>0, <2>1 DEF Owed
  <2>3. ASSUME NEW i \in DOMAIN Tail(owed), NEW j \in DOMAIN Tail(owed), i # j
        PROVE  Tail(owed)[i] # Tail(owed)[j]
    <3>1. i + 1 # j + 1
      BY <2>1, <2>3
    <3> QED BY <1>0, <2>1, <3>1
  <2> QED BY <2>1, <2>2, <2>3 DEF Owed
<1>2. CASE Reply
  <2> DEFINE word == [i \in 1 .. 3 |->
                        [of |-> Head(owed), sym |-> <<"text", "eol", "prompt">>[i]]]
  <2>1. /\ owed # <<>> /\ air' = air \o word /\ owed' = Tail(owed)
        /\ UNCHANGED <<buffer, fed, mail, armed, sender, nsent, abandoned, late>>
    BY <1>2 DEF Reply
  <2>2. /\ word \in Seq(Bytes) /\ Len(word) = 3 /\ DOMAIN word = 1 .. 3
        /\ TextOf(word[1]) = {Head(owed)} /\ TextOf(word[2]) = {} /\ TextOf(word[3]) = {}
    <3>1. Head(owed) \in Cmds /\ Cmds \subseteq 0 .. MaxSends /\ Nobody \notin Cmds
      BY <1>1, <2>1, ConstantsAssumption DEF Cmds, Nobody
    <3>2. \A i \in 1 .. 3 : <<"text", "eol", "prompt">>[i] \in {"text", "eol", "prompt"}
      OBVIOUS
    <3>3. word \in [1 .. 3 -> Bytes]
      BY <3>1, <3>2 DEF Bytes
    <3>4. /\ word[1] = [of |-> Head(owed), sym |-> "text"]
          /\ word[2] = [of |-> Head(owed), sym |-> "eol"]
          /\ word[3] = [of |-> Head(owed), sym |-> "prompt"]
      OBVIOUS
    <3>5. /\ TextOf(word[1]) = {Head(owed)} /\ TextOf(word[2]) = {} /\ TextOf(word[3]) = {}
      BY <3>1, <3>4 DEF TextOf
    <3>6. word \in Seq(Bytes) /\ Len(word) = 3 /\ DOMAIN word = 1 .. 3
      BY <3>3, SeqOf
    <3> QED BY <3>5, <3>6
  <2> HIDE DEF word
  <2>3. /\ DOMAIN air' = 1 .. Len(air) + 3
        /\ \A i \in DOMAIN air : air'[i] = air[i]
        /\ air'[Len(air) + 1] = word[1] /\ air'[Len(air) + 2] = word[2]
        /\ air'[Len(air) + 3] = word[3]
    <3>1. /\ air' \in Seq(Bytes) /\ Len(air') = Len(air) + 3
          /\ \A i \in 1 .. Len(air) + 3 :
               air'[i] = IF i <= Len(air) THEN air[i] ELSE word[i - Len(air)]
      <4>1. /\ air \o word \in Seq(Bytes) /\ Len(air \o word) = Len(air) + Len(word)
            /\ \A i \in 1 .. Len(air) + Len(word) :
                 (air \o word)[i] = IF i <= Len(air) THEN air[i] ELSE word[i - Len(air)]
        <5>1. air \in Seq(Bytes) /\ word \in Seq(Bytes)
          BY <1>0, <2>2
        <5> QED BY <5>1, ConcatProperties, Zenon
      <4> QED BY <2>1, <2>2, <4>1
    <3>2. DOMAIN air' = 1 .. Len(air) + 3
      BY <3>1
    <3>3. /\ \A i \in DOMAIN air : i \in 1 .. Len(air) + 3 /\ i <= Len(air)
          /\ \A j \in 1 .. 3 : Len(air) + j \in 1 .. Len(air) + 3 /\ ~(Len(air) + j <= Len(air))
                               /\ Len(air) + j - Len(air) = j
      BY <1>0
    <3>4. \A j \in 1 .. 3 : air'[Len(air) + j] = word[j]
      BY <3>1, <3>3
    <3> QED BY <3>1, <3>2, <3>3, <3>4
  <2>4. \A i \in DOMAIN air' : \/ i \in DOMAIN air /\ air'[i] = air[i]
                               \/ i = Len(air) + 1 /\ i \notin DOMAIN air
                                                   /\ TextOf(air'[i]) = {Head(owed)}
                               \/ TextOf(air'[i]) = {}
    <3>1. \A i \in DOMAIN air' : i \in DOMAIN air \/ i = Len(air) + 1 \/ i = Len(air) + 2
                                 \/ i = Len(air) + 3
      BY <1>0, <2>3
    <3>2. Len(air) + 1 \notin DOMAIN air
      BY <1>0
    <3> QED BY <2>2, <2>3, <3>1, <3>2
  <2>5. Aired' \subseteq Aired \cup {Head(owed)}
    BY <2>4 DEF Aired
  <2>6. Owed' \subseteq Owed \ {Head(owed)} /\ Head(owed) \in Owed
    BY <1>1, <2>1 DEF Owed
  <2>7. Held' = Held /\ InEvents(fed)' = InEvents(fed) /\ InEvents(mail)' = InEvents(mail)
    BY <2>1 DEF Held, InEvents
  <2>8. OncePlaced' /\ Travelling' \subseteq Travelling
    BY <2>5, <2>6, <2>7 DEF Meeting, OncePlaced, Travelling
  <2>9. OnceQueued'
    <3>1. \A i \in DOMAIN air : Head(owed) \notin TextOf(air[i])
      BY <2>6 DEF Meeting, OncePlaced, Aired
    <3>2. \A i, j \in DOMAIN air' : i # j => TextOf(air'[i]) \cap TextOf(air'[j]) = {}
      BY <1>0, <2>4, <3>1
    <3>3. \A i, j \in DOMAIN owed' : i # j => owed'[i] # owed'[j]
      BY <1>1, <2>1
    <3> QED BY <2>1, <3>2, <3>3 DEF Meeting, OnceQueued
  <2>10. Unwritten'
    BY <2>1, <2>8 DEF Meeting, Unwritten
  <2>11. Expected'
    BY <2>1, <2>8, StillExpected DEF Meeting, GivenUp
  <2> QED BY <2>8, <2>9, <2>10, <2>11 DEF Meeting
<1>3. ASSUME Aired' \subseteq Aired, Owed' \subseteq Owed,
             \A i, j \in DOMAIN air' : i # j => TextOf(air'[i]) \cap TextOf(air'[j]) = {},
             \A i, j \in DOMAIN owed' : i # j => owed'[i] # owed'[j],
             UNCHANGED <<buffer, fed, mail, armed, sender, nsent, abandoned, late>>
      PROVE  Meeting'
  <2>1. Held' = Held /\ InEvents(fed)' = InEvents(fed) /\ InEvents(mail)' = InEvents(mail)
    BY <1>3 DEF Held, InEvents
  <2>2. OncePlaced' /\ Travelling' \subseteq Travelling
    BY <1>3, <2>1, Carried DEF Meeting
  <2>3. OnceQueued'
    BY <1>3 DEF Meeting, OnceQueued
  <2>4. Unwritten'
    BY <1>3, <2>2 DEF Meeting, Unwritten
  <2>5. Expected'
    BY <1>3, <2>2, StillExpected DEF Meeting, GivenUp
  <2> QED BY <2>2, <2>3, <2>4, <2>5 DEF Meeting
<1>4. CASE Skip
  <2>1. /\ owed # <<>> /\ owed' = Tail(owed)
        /\ UNCHANGED <<air, buffer, fed, mail, armed, sender, nsent, abandoned, late>>
    BY <1>4 DEF Skip
  <2>2. Owed' \subseteq Owed /\ \A i, j \in DOMAIN owed' : i # j => owed'[i] # owed'[j]
    BY <1>1, <2>1 DEF Owed
  <2>3. Aired' = Aired
    BY <2>1 DEF Aired
  <2> QED BY <1>0, <1>3, <2>1, <2>2, <2>3
<1>5. CASE Noise
  <2> DEFINE text == [of |-> Nobody, sym |-> "text"]
             eol == [of |-> Nobody, sym |-> "eol"]
             prompt == [of |-> Nobody, sym |-> "prompt"]
  <2>1. TextOf(text) = {} /\ TextOf(eol) = {} /\ TextOf(prompt) = {}
    BY DEF TextOf
  <2>2. /\ air' = air \o <<text, eol>> \/ air' = Append(air, prompt)
        /\ UNCHANGED <<owed, buffer, fed, mail, armed, sender, nsent, abandoned, late>>
    BY <1>5 DEF Noise
  <2> HIDE DEF text, eol, prompt
  <2>3. \A i \in DOMAIN air' : (i \in DOMAIN air /\ air'[i] = air[i]) \/ TextOf(air'[i]) = {}
    <3>1. CASE air' = air \o <<text, eol>>
      <4>1. /\ DOMAIN air' = 1 .. Len(air) + 2 /\ \A i \in DOMAIN air : air'[i] = air[i]
            /\ air'[Len(air) + 1] = text /\ air'[Len(air) + 2] = eol
        BY <1>0, <3>1
      <4>2. \A i \in DOMAIN air' : i \in DOMAIN air \/ i = Len(air) + 1 \/ i = Len(air) + 2
        BY <1>0, <4>1
      <4> QED BY <2>1, <4>1, <4>2
    <3>2. CASE air' = Append(air, prompt)
      <4>1. /\ DOMAIN air' = 1 .. Len(air) + 1 /\ \A i \in DOMAIN air : air'[i] = air[i]
            /\ air'[Len(air) + 1] = prompt
        BY <1>0, <3>2
      <4>2. \A i \in DOMAIN air' : i \in DOMAIN air \/ i = Len(air) + 1
        BY <1>0, <4>1
      <4> QED BY <2>1, <4>1, <4>2
    <3> QED BY <2>2, <3>1, <3>2
  <2>4. Aired' \subseteq Aired
    BY <2>3 DEF Aired
  <2>5. \A i, j \in DOMAIN air' : i # j => TextOf(air'[i]) \cap TextOf(air'[j]) = {}
    BY <1>0, <2>3
  <2>6. Owed' = Owed
    BY <2>2 DEF Owed
  <2> QED BY <1>0, <1>3, <2>2, <2>4, <2>5, <2>6
<1>6. CASE FeedBytes
  <2>1. PICK k \in 1 .. Len(air) :
          /\ air' = SubSeq(air, k + 1, Len(air)) /\ Len(fed') <= 1
          /\ Held' \cup InEvents(fed)' \subseteq Held \cup TextsFrom(air, 1, k)
          /\ Held' \cap InEvents(fed)' = {}
    BY <1>6, Drained
  <2>2. /\ Aired = TextsFrom(air, 1, k) \cup TextsFrom(air, k + 1, Len(air))
        /\ TextsFrom(air, 1, k) \cap TextsFrom(air, k + 1, Len(air)) = {}
    BY Stretches DEF Meeting
  <2>3. \A i \in DOMAIN air' : /\ i + (k + 1) - 1 \in DOMAIN air /\ k + 1 <= i + (k + 1) - 1
                               /\ i + (k + 1) - 1 <= Len(air) /\ i \in Nat
                               /\ air'[i] = air[i + (k + 1) - 1]
    <3>1. k + 1 \in 1 .. Len(air) + 1 /\ Len(air) \in 0 .. Len(air)
      BY <1>0
    <3> QED BY <1>0, <2>1, <3>1, PieceOf
  <2>4. Aired' \subseteq TextsFrom(air, k + 1, Len(air))
    BY <2>3 DEF Aired, TextsFrom
  <2>5. \A i, j \in DOMAIN air' : i # j => TextOf(air'[i]) \cap TextOf(air'[j]) = {}
    <3>1. SUFFICES ASSUME NEW i \in DOMAIN air', NEW j \in DOMAIN air', i # j
                   PROVE  TextOf(air'[i]) \cap TextOf(air'[j]) = {}
      OBVIOUS
    <3>2. i + (k + 1) - 1 # j + (k + 1) - 1
      BY <2>3, <3>1
    <3> QED BY <1>0, <2>3, <3>2
  <2>6. UNCHANGED <<owed, mail, armed, sender, nsent, abandoned, late>>
    BY <1>6 DEF FeedBytes
  <2>7. Owed' = Owed /\ InEvents(mail)' = InEvents(mail)
    BY <2>6 DEF Owed, InEvents
  <2>8. OncePlaced' /\ Travelling' \subseteq Travelling
    <3>1. InEvents(fed) = {}
      BY <1>6 DEF FeedBytes, InEvents
    <3> QED BY <2>1, <2>2, <2>4, <2>7, <3>1 DEF Meeting, OncePlaced, Travelling
  <2>9. OnceQueued'
    BY <2>1, <2>5, <2>6 DEF Meeting, OnceQueued
  <2>10. Unwritten'
    BY <2>6, <2>8 DEF Meeting, Unwritten
  <2>11. Expected'
    BY <2>6, <2>8, StillExpected DEF Meeting, GivenUp
  <2> QED BY <2>8, <2>9, <2>10, <2>11 DEF Meeting
<1>7. CASE PostEvent
  <2>1. /\ fed # <<>> /\ mail' = Append(mail, Head(fed)) /\ fed' = Tail(fed)
        /\ UNCHANGED <<owed, air, buffer, armed, sender, nsent, abandoned, late>>
    BY <1>7 DEF PostEvent, Post
  <2>2. /\ Head(fed) \in Msg /\ fed' = <<>> /\ Head(fed) = fed[1] /\ 1 \in DOMAIN fed
    BY <1>0, <2>1 DEF Meeting, OnceQueued
  <2>3. Of(Head(fed).text) \subseteq InEvents(fed) /\ ~IsArmed(Head(fed))
    <3>1. Of(Head(fed).text) \subseteq InEvents(fed)
      BY <2>2 DEF InEvents
    <3>2. fed[1].kind \notin {"Armed", "Disarm"}
      BY <2>2 DEF Inv, Numbered
    <3> QED BY <2>2, <3>1, <3>2 DEF IsArmed
  <2>4. Of(Head(fed).text) \cap InEvents(mail) = {}
    BY <2>3 DEF Meeting, OncePlaced
  <2>5. /\ InEvents(mail)' = InEvents(mail) \cup Of(Head(fed).text)
        /\ \A i, j \in DOMAIN mail' : i # j => Of(mail'[i].text) \cap Of(mail'[j].text) = {}
        /\ DOMAIN mail' = DOMAIN mail \cup {Len(mail) + 1} /\ mail'[Len(mail) + 1] = Head(fed)
        /\ \A i \in DOMAIN mail : mail'[i] = mail[i] /\ Before(mail, i) \subseteq Before(mail', i)
        /\ InMail \subseteq Before(mail', Len(mail) + 1)
        /\ InMail' = InMail \cup (IF IsArmed(Head(fed)) THEN {Head(fed).cmd} ELSE {})
    <3> HIDE DEF Inv, Meeting
    <3> QED BY <2>1, <2>2, <2>4, MailedOn
  <2>6. Owed' = Owed /\ Aired' = Aired /\ Held' = Held /\ InEvents(fed)' = {}
    BY <2>1, <2>2 DEF Owed, Aired, Held, InEvents
  <2>7. OncePlaced' /\ Travelling' \subseteq Travelling
    BY <2>3, <2>5, <2>6 DEF Meeting, OncePlaced, Travelling
  <2>8. OnceQueued'
    <3>1. Len(fed') <= 1
      BY <2>2
    <3> QED BY <1>0, <2>1, <2>5, <3>1 DEF OnceQueued
  <2>9. Unwritten'
    BY <2>1, <2>7 DEF Meeting, Unwritten
  <2>10. Expected'
    <3>1. Waiting' = Waiting /\ GivenUp' = GivenUp
      BY <2>1, <2>3, <2>5 DEF Waiting, GivenUp
    <3>2. Of(Head(fed).text) \subseteq GivenUp \cup Waiting
      BY <2>3 DEF Meeting, Expected, Travelling
    <3>3. \A i \in DOMAIN mail' :
            Of(mail'[i].text) \subseteq GivenUp' \cup {armed'} \cup Before(mail', i)
      <4>1. SUFFICES ASSUME NEW i \in DOMAIN mail'
                     PROVE  Of(mail'[i].text) \subseteq GivenUp \cup {armed} \cup Before(mail', i)
        BY <2>1, <3>1
      <4>2. CASE i \in DOMAIN mail
        BY <2>5, <4>2 DEF Meeting, Expected
      <4>3. CASE i = Len(mail) + 1
        BY <2>5, <3>2, <4>3 DEF Waiting
      <4> QED BY <2>5, <4>2, <4>3
    <3>4. Travelling' \subseteq GivenUp' \cup Waiting'
      BY <2>7, <3>1 DEF Meeting, Expected
    <3>5. sender'.pc = "armed" => sender'.cmd \in GivenUp' \cup Waiting'
      BY <2>1, <3>1 DEF Meeting, Expected
    <3> QED BY <3>3, <3>4, <3>5 DEF Expected
  <2> QED BY <2>7, <2>8, <2>9, <2>10 DEF Meeting
<1> QED BY <1>2, <1>4, <1>5, <1>6, <1>7 DEF Adapter, Reader

-----------------------------------------------------------------------------
(* The delivery thread.  Whoever stops waiting is given up, or his text is *)
(* on its way no longer and was written.                                   *)
LEMMA Taken ==
  ASSUME Inv, Meeting, mail # <<>>, mail' = Tail(mail),
         UNCHANGED <<owed, air, fed, buffer, nsent, sender>>, GivenUp \subseteq GivenUp',
         \A c \in {armed} \cup (IF IsArmed(Head(mail)) THEN {Head(mail).cmd} ELSE {}) :
           \/ c \in GivenUp' \cup {armed', Nobody}
           \/ c \notin Travelling' /\ (sender.pc = "armed" => c # sender.cmd)
  PROVE  Meeting'
<1>1. /\ InEvents(mail)' \subseteq InEvents(mail)
      /\ \A i, j \in DOMAIN mail' : i # j => Of(mail'[i].text) \cap Of(mail'[j].text) = {}
      /\ \A i \in DOMAIN mail' :
           /\ i + 1 \in DOMAIN mail /\ mail'[i] = mail[i + 1]
           /\ Before(mail, i + 1) \subseteq Before(mail', i)
                \cup (IF IsArmed(Head(mail)) THEN {Head(mail).cmd} ELSE {})
  BY MailedOff
<1>2. InMail = InMail' \cup (IF IsArmed(Head(mail)) THEN {Head(mail).cmd} ELSE {})
  BY MailTaken
<1>3. /\ Owed' = Owed /\ Aired' = Aired /\ Held' = Held /\ InEvents(fed)' = InEvents(fed)
  BY DEF Owed, Aired, Held, InEvents
<1>4. OncePlaced' /\ Travelling' \subseteq Travelling
  BY <1>1, <1>3, Carried DEF Meeting
<1>5. OnceQueued'
  BY <1>1 DEF Meeting, OnceQueued
<1>6. Unwritten'
  BY <1>4 DEF Meeting, Unwritten
<1>7. Expected'
  <2> DEFINE gone == {armed} \cup (IF IsArmed(Head(mail)) THEN {Head(mail).cmd} ELSE {})
  <2>1. Nobody \notin Travelling'
    <3>1. nsent \in Nat
      BY WireNumbered
    <3> QED BY <1>4, <3>1 DEF Meeting, Unwritten, Nobody
  <2>2. \A c \in gone : c \in Travelling' => c \in GivenUp' \cup {armed'}
    BY <2>1
  <2>3. Waiting \subseteq Waiting' \cup gone
    BY <1>2 DEF Waiting
  <2>4. \A c \in gone : c # sender.cmd \/ sender.pc # "armed" \/ c \in GivenUp' \cup {armed'}
    BY DEF Inv, Numbered
  <2> HIDE DEF gone
  <2>5. Travelling' \subseteq GivenUp' \cup Waiting'
    BY <1>4, <2>2, <2>3 DEF Meeting, Expected, Waiting
  <2>6. \A i \in DOMAIN mail' :
          Of(mail'[i].text) \subseteq GivenUp' \cup {armed'} \cup Before(mail', i)
    <3>1. SUFFICES ASSUME NEW i \in DOMAIN mail', NEW c \in Of(mail'[i].text)
                   PROVE  c \in GivenUp' \cup {armed'} \cup Before(mail', i)
      OBVIOUS
    <3>2. c \in Travelling'
      BY DEF Travelling, InEvents
    <3>3. c \in GivenUp \cup {armed} \cup Before(mail, i + 1)
      BY <1>1 DEF Meeting, Expected
    <3>4. c \in GivenUp' \cup gone \cup Before(mail', i)
      BY <1>1, <3>3 DEF gone
    <3> QED BY <2>2, <3>2, <3>4
  <2>7. sender'.pc = "armed" => sender'.cmd \in GivenUp' \cup Waiting'
    BY <2>3, <2>4 DEF Meeting, Expected, Waiting
  <2> QED BY <2>5, <2>6, <2>7 DEF Expected
<1> QED BY <1>4, <1>5, <1>6, <1>7 DEF Meeting

LEMMA WorkerMeets == ASSUME Inv, Meeting, WorkerMain PROVE Meeting'
<1> USE DEF stateVars, accVars, linkVars, history
<1>1. CASE TakeArmed
  <2>1. /\ mail # <<>> /\ mail' = Tail(mail) /\ Head(mail).kind = "Armed"
        /\ armed' = Head(mail).cmd
        /\ UNCHANGED <<owed, air, fed, buffer, nsent, sender, abandoned, late>>
    BY <1>1 DEF TakeArmed, Takes
  <2>2. GivenUp' = GivenUp
    BY <2>1 DEF GivenUp
  <2>3. armed \in abandoned \cup {Nobody}
    <3>1. 1 \in ArmedIn(mail) /\ Head(mail) = mail[1]
      BY <2>1, MailTaken DEF ArmedIn, IsArmed
    <3>2. armed < mail[1].cmd /\ mail[1].cmd <= nsent
      BY <3>1 DEF Inv, Numbered, InOrder
    <3>3. armed \in Nat /\ mail[1].cmd \in Nat /\ nsent \in Nat
      BY <3>1, Typed, ConstantsAssumption DEF Inv, ArmedIn
    <3>4. armed # nsent
      BY <3>2, <3>3
    <3>5. armed # Nobody => armed \in OnTheWire
      BY Wire
    <3> QED BY <3>4, <3>5 DEF Inv, OneLive, Numbered
  <2>4. IsArmed(Head(mail))
    BY <2>1 DEF IsArmed
  <2> HIDE DEF Meeting
  <2> QED BY <2>1, <2>2, <2>3, <2>4, Taken DEF GivenUp
<1>2. CASE TakeDisarm
  <2>1. /\ mail # <<>> /\ mail' = Tail(mail) /\ Head(mail).kind = "Disarm"
        /\ UNCHANGED <<owed, air, fed, buffer, nsent, sender, abandoned, late>>
    BY <1>2 DEF TakeDisarm, Takes
  <2>2. GivenUp' = GivenUp
    BY <2>1 DEF GivenUp
  <2>3. armed \in abandoned \cup {Nobody}
    <3>1. 1 \in DOMAIN mail /\ Head(mail) = mail[1]
      BY <2>1, MailTaken
    <3> QED BY <2>1, <3>1 DEF Inv, DisarmsGivenUp
  <2>4. ~IsArmed(Head(mail))
    BY <2>1 DEF IsArmed
  <2> QED BY <2>1, <2>2, <2>3, <2>4, Taken DEF GivenUp
<1>3. CASE TakeLine
  <2>1. /\ mail # <<>> /\ mail' = Tail(mail) /\ Head(mail).kind # "Armed" /\ armed' = armed
        /\ UNCHANGED <<owed, air, fed, buffer, nsent, sender, abandoned, late>>
    BY <1>3 DEF TakeLine, Takes
  <2>2. GivenUp' = GivenUp /\ ~IsArmed(Head(mail))
    BY <2>1 DEF GivenUp, IsArmed
  <2> QED BY <2>1, <2>2, Taken
<1>4. CASE TakeResponse
  <2>1. /\ mail # <<>> /\ mail' = Tail(mail) /\ Head(mail).kind = "Response"
        /\ UNCHANGED <<owed, air, fed, buffer, nsent, sender, abandoned>>
    BY <1>4 DEF TakeResponse, Takes
  <2>2. ~IsArmed(Head(mail))
    BY <2>1 DEF IsArmed
  <2>3. CASE armed = Nobody
    <3>1. late' = late /\ GivenUp' = GivenUp
      BY <1>4, <2>1, <2>3 DEF TakeResponse, GivenUp
    <3> QED BY <2>1, <2>2, <2>3, <3>1, Taken
  <2>4. CASE armed # Nobody
    <3>1. Answer("delivery", armed, IF injected THEN {} ELSE Head(mail).text)
      BY <1>4, <2>4 DEF TakeResponse
    <3>2. late \subseteq late' /\ (armed \in Of(Head(mail).text) \/ armed \in late')
      BY <3>1, OfUnion DEF Answer
    <3>3. GivenUp \subseteq GivenUp' /\ (armed \in late' => armed \in GivenUp')
      BY <2>1, <3>2 DEF GivenUp
    <3>4. ASSUME armed \in Of(Head(mail).text)
          PROVE  armed \notin Travelling' /\ (sender.pc = "armed" => armed # sender.cmd)
      <4>1. armed \in InEvents(mail) /\ armed \notin InEvents(mail)'
        BY <2>1, <3>4, MailedOff
      <4>2. armed \notin Owed \cup Aired \cup Held \cup InEvents(fed)
        BY <4>1 DEF Meeting, OncePlaced
      <4>3. /\ Owed' = Owed /\ Aired' = Aired /\ Held' = Held /\ InEvents(fed)' = InEvents(fed)
        BY <2>1 DEF Owed, Aired, Held, InEvents
      <4>4. armed \in Travelling
        BY <4>1 DEF Travelling
      <4>5. armed \notin Travelling'
        BY <4>1, <4>2, <4>3 DEF Travelling
      <4> QED BY <4>4, <4>5 DEF Meeting, Unwritten
    <3> QED BY <2>1, <2>2, <3>2, <3>3, <3>4, Taken
  <2> QED BY <2>3, <2>4
<1>5. CASE TimerFires
  <2>1. /\ mail = <<>> /\ armed' = Nobody /\ buffer' = {} /\ Answer("delivery", armed, {})
        /\ UNCHANGED <<owed, air, fed, mail, nsent, sender, abandoned>>
    BY <1>5 DEF TimerFires
  <2>2. late' = late \cup {armed} /\ GivenUp' = GivenUp \cup {armed}
    BY <2>1, OfUnion DEF Answer, GivenUp
  <2>3. /\ Owed' = Owed /\ Aired' = Aired /\ Held' = {} /\ InEvents(fed)' = InEvents(fed)
        /\ InEvents(mail)' = InEvents(mail)
    BY <2>1, OfUnion DEF Owed, Aired, Held, InEvents
  <2>4. OncePlaced' /\ Travelling' \subseteq Travelling
    <3>1. Held' \subseteq Held
      BY <2>3
    <3> QED BY <2>3, <3>1, Carried DEF Meeting
  <2>5. OnceQueued'
    BY <2>1 DEF Meeting, OnceQueued
  <2>6. Unwritten'
    BY <2>1, <2>4 DEF Meeting, Unwritten
  <2>7. Expected'
    <3>1. Waiting \subseteq Waiting' \cup {armed}
      BY <2>1 DEF Waiting, InMail, ArmedIn
    <3>2. \A i \in DOMAIN mail' : FALSE
      BY <2>1
    <3>3. Travelling' \subseteq GivenUp' \cup Waiting'
      BY <2>2, <2>4, <3>1 DEF Meeting, Expected
    <3>4. sender'.pc = "armed" => sender'.cmd \in GivenUp' \cup Waiting'
      BY <2>1, <2>2, <3>1 DEF Meeting, Expected
    <3> QED BY <3>2, <3>3, <3>4 DEF Expected
  <2> QED BY <2>4, <2>5, <2>6, <2>7 DEF Meeting
<1> QED BY <1>1, <1>2, <1>3, <1>4, <1>5 DEF WorkerMain

-----------------------------------------------------------------------------
(* The callbacks, the host and the monitor.                                *)
LEMMA HostMeets ==
  ASSUME Inv, Meeting, Host \/ Monitor \/ \E t \in Threads : Callback(t) PROVE Meeting'
<1> USE DEF stateVars, accVars, linkVars, history, Trouble
<1>0. /\ owed \in Seq(Cmds) /\ Len(owed) \in Nat /\ DOMAIN owed = 1 .. Len(owed)
      /\ \A i, j \in DOMAIN owed : i # j => owed[i] # owed[j]
      /\ \A i, j \in DOMAIN air : i # j => TextOf(air[i]) \cap TextOf(air[j]) = {}
      /\ Plain("Disarm") \in Msg /\ Plain("Disarm").text = {}
  BY Letters DEF Inv, TypeOK, Meeting, OnceQueued, Plain
<1>1. CASE DropPosts
  <2>1. /\ owed' = <<>> /\ air' = <<>> /\ mail' = Append(mail, Plain("Disarm"))
        /\ abandoned \subseteq abandoned'
        /\ UNCHANGED <<fed, buffer, armed, nsent, sender, late>>
    BY <1>1 DEF DropPosts, Post
  <2>2. /\ Owed' = {} /\ Aired' = {} /\ GivenUp \subseteq GivenUp'
    BY <2>1 DEF Owed, Aired, GivenUp
  <2>3. (\A i \in DOMAIN owed' : FALSE) /\ (\A i \in DOMAIN air' : FALSE)
    BY <2>1
  <2> HIDE DEF Inv, Meeting
  <2> QED BY <1>0, <2>1, <2>2, <2>3, Lettered
<1>2. CASE DropResets
  <2>1. GivenUp' = GivenUp
    BY <1>2 DEF DropResets, GivenUp
  <2> QED BY <1>2, <2>1, Quietly DEF DropResets
<1>3. CASE DropFails
  <2>1. GivenUp \subseteq GivenUp'
    BY <1>3 DEF DropFails, Answer, GivenUp
  <2> QED BY <1>3, <2>1, Quietly DEF DropFails
<1>4. CASE Reconnect
  <2>1. GivenUp' = GivenUp
    BY <1>4 DEF Reconnect, GivenUp
  <2> QED BY <1>4, <2>1, Quietly DEF Reconnect
<1>5. CASE ReceiveResponse
  <2>1. PICK i \in DOMAIN owed :
          /\ Answer("host", owed[i], {})
          /\ abandoned' = abandoned \cup OnTheWire \cup {owed[i]}
          /\ owed' = [j \in 1 .. (Len(owed) - 1) |-> IF j < i THEN owed[j] ELSE owed[j + 1]]
    BY <1>5 DEF ReceiveResponse
  <2>2. /\ mail' = Append(mail, Plain("Disarm"))
        /\ UNCHANGED <<fed, buffer, armed, nsent, sender, air>>
    BY <1>5 DEF ReceiveResponse, Post
  <2>3. GivenUp \subseteq GivenUp'
    BY <2>1 DEF Answer, GivenUp
  <2>4. DOMAIN owed' = 1 .. (Len(owed) - 1)
        /\ \A j \in DOMAIN owed' : /\ j \in DOMAIN owed /\ j + 1 \in DOMAIN owed /\ j \in Int
                                   /\ owed'[j] = IF j < i THEN owed[j] ELSE owed[j + 1]
    BY <1>0, <2>1
  <2>5. \A j, k \in DOMAIN owed' : j # k => owed'[j] # owed'[k]
    <3>1. SUFFICES ASSUME NEW j \in DOMAIN owed', NEW k \in DOMAIN owed', j # k
                   PROVE  owed'[j] # owed'[k]
      OBVIOUS
    <3>2. /\ j + 1 # k + 1
          /\ j # k + 1 \/ ~(j < i /\ ~(k < i))
          /\ j + 1 # k \/ ~(k < i /\ ~(j < i))
      BY <1>0, <2>4, <3>1
    <3> QED BY <1>0, <2>4, <3>1, <3>2
  <2>6. Owed' \subseteq Owed /\ Aired' = Aired
    BY <2>2, <2>4 DEF Owed, Aired
  <2> HIDE DEF Inv, Meeting
  <2> QED BY <1>0, <2>2, <2>3, <2>5, <2>6, Lettered
<1>6. CASE InjectError
  <2>1. GivenUp' = GivenUp
    BY <1>6 DEF InjectError, GivenUp
  <2> QED BY <1>6, <2>1, Quietly DEF InjectError
<1>7. CASE Monitor
  <2>1. /\ UNCHANGED <<owed, air, fed, mail, armed, nsent, sender, abandoned, late>>
        /\ buffer' \subseteq buffer
    BY <1>7 DEF Monitor, EnterMonitor, EnterMode, ExitMonitor, ExitMode, MonitorMoves, SetMode
  <2>2. GivenUp' = GivenUp
    BY <2>1 DEF GivenUp
  <2> QED BY <2>1, <2>2, Quietly
<1>8. ASSUME NEW t \in Threads, Callback(t) PROVE Meeting'
  <2>1. UNCHANGED <<owed, air, fed, mail, armed, nsent, sender, abandoned, late, buffer>>
    BY <1>8 DEF Callback, DataCallback, CompletionCallback
  <2>2. GivenUp' = GivenUp
    BY <2>1 DEF GivenUp
  <2> QED BY <2>1, <2>2, Quietly
<1> QED BY <1>1, <1>2, <1>3, <1>4, <1>5, <1>6, <1>7, <1>8 DEF Host

LEMMA MeetingInit == Init => Meeting
<1> SUFFICES ASSUME Init PROVE Meeting
  OBVIOUS
<1>1. /\ owed = <<>> /\ air = <<>> /\ fed = <<>> /\ mail = <<>> /\ buffer = {}
      /\ sender.pc = "idle"
  BY DEF Init, Idle
<1>2. Owed = {} /\ Aired = {} /\ Held = {} /\ InEvents(fed) = {} /\ InEvents(mail) = {}
  BY <1>1, OfUnion DEF Owed, Aired, Held, InEvents
<1> QED BY <1>1, <1>2 DEF Meeting, OnceQueued, OncePlaced, Unwritten, Expected, Travelling

LEMMA MeetingNext == Inv /\ Meeting /\ [Next]_vars => Meeting'
<1> SUFFICES ASSUME Inv, Meeting, [Next]_vars PROVE Meeting'
  OBVIOUS
<1>1. CASE UNCHANGED vars
  <2>1. UNCHANGED <<owed, air, fed, mail, armed, nsent, sender, abandoned, late, buffer>>
    BY <1>1 DEF vars, stateVars, accVars, linkVars, history
  <2>2. GivenUp' = GivenUp
    BY <2>1 DEF GivenUp
  <2> QED BY <2>1, <2>2, Quietly
<1>2. CASE Next
  BY <1>2, SenderMeets, LinkMeets, WorkerMeets, HostMeets DEF Next
<1> QED BY <1>1, <1>2

(* A response never finds its own command unarmed, nor another one armed,  *)
(* unless its command was given up: only then is it dropped, or handed to  *)
(* the next command.                                                       *)
THEOREM RepliesMeet == Spec => []ReplyMeetsCommand
<1>1. Inv /\ Meeting => ReplyMeetsCommand
  <2> SUFFICES ASSUME Inv, Meeting, mail # <<>>
               PROVE  Of(Head(mail).text) \subseteq GivenUp \cup {armed}
    BY DEF ReplyMeetsCommand
  <2>1. Head(mail) = mail[1] /\ 1 \in DOMAIN mail
    BY DEF Inv, TypeOK
  <2>2. Before(mail, 1) = {}
    <3>1. \A i \in DOMAIN mail : ~(i < 1)
      BY DEF Inv, TypeOK
    <3> QED BY <3>1 DEF Before, ArmedIn
  <2> QED BY <2>1, <2>2 DEF Meeting, Expected
<1>2. Inv /\ [Next]_vars => Inv'
  BY NextInv
<1> QED BY <1>1, <1>2, InitInv, MeetingInit, MeetingNext, PTL DEF Spec
=============================================================================
