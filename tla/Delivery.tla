------------------------------ MODULE Delivery ------------------------------
(***************************************************************************)
(* The platform and its delivery thread (src/src/external_platform.rs),    *)
(* with the accumulator that frames the adapter's bytes                    *)
(* (src/src/accumulator.rs).                                               *)
(*                                                                         *)
(* Threads: the command processor's worker inside send_command; the reader *)
(* that feeds bytes and posts what they complete; the delivery thread,     *)
(* which arms the fallback timer, correlates and runs the callbacks; and   *)
(* the host, which reports the link's status and may answer by itself.     *)
(* They share the mail of the delivery thread, the state lock and the      *)
(* accumulator's lock; each step is one of these accesses.                 *)
(*                                                                         *)
(* Commands are numbered in the order they are sent; the platform never    *)
(* looks at their text.  The adapter's reply to a command is its text, an  *)
(* end of line and a prompt, cut into chunks anywhere.                     *)
(***************************************************************************)
EXTENDS Integers, Sequences, FiniteSets

CONSTANTS
  MaxSends,      \* bound: commands sent
  MaxTrouble,    \* bound: what happens besides commands and their replies
  MaxAir         \* bound: bytes on their way from the adapter

ASSUME ConstantsAssumption ==
  MaxSends \in Nat /\ MaxTrouble \in Nat /\ MaxAir \in Nat

Cmds == 1 .. MaxSends
Nobody == 0                             \* no command; as text: a monitor line

Threads == {"delivery", "host", "sender"}
Modes == {"Prompt", "Line"}
Bytes == [of : 0 .. MaxSends, sym : {"text", "eol", "prompt"}]
(* A text the accumulator holds, with the mode it was fed under.           *)
Piece == [of : 0 .. MaxSends, mode : Modes]
Msg == [kind : {"Armed", "Disarm", "Response", "Line", "Dropped"},
        cmd : 0 .. MaxSends, text : SUBSET Piece]

VARIABLES
  pending,     \* pending_command
  up,          \* connection_status = Connected (or Connecting)
  tap,         \* sink_on_line is set
  injected,    \* injected_error is set
  mode,        \* the accumulator's mode
  buffer,      \* the accumulator's buffer: the texts it holds
  fed,         \* events of the last chunk the reader has still to post
  mail,        \* the channel of the delivery thread
  armed,       \* worker_main's outstanding command
  run,         \* [pc, cmd] of the callbacks each thread runs
  sender,      \* [pc, cmd] of send_command
  report,      \* where update_connection_status(Disconnected) is
  monitor,     \* where enter_monitor_mode / exit_monitor_mode is
  busy,        \* the command processor's outstanding command
  nsent,       \* commands sent
  owed, air,   \* the adapter: commands to answer, bytes under way
  budget,      \* of MaxTrouble, what is left
  abandoned,   \* history: commands aborted, cut or settled elsewhere
  late,        \* history: answered with something else than their own text
  answers      \* history: how often each command was answered

stateVars == <<pending, up, tap, injected>>
accVars   == <<mode, buffer>>
linkVars  == <<owed, air>>
history   == <<abandoned, late, answers>>
vars == <<stateVars, accVars, fed, mail, armed, run, sender, report, monitor,
          busy, nsent, linkVars, budget, history>>

TypeOK ==
  /\ pending \in Cmds \cup {Nobody} /\ up \in BOOLEAN /\ tap \in BOOLEAN
  /\ injected \in BOOLEAN
  /\ mode \in Modes /\ buffer \subseteq Piece
  /\ fed \in Seq(Msg) /\ mail \in Seq(Msg)
  /\ armed \in Cmds \cup {Nobody}
  /\ run \in [Threads -> [pc : {"idle", "data", "completion"},
                          cmd : 0 .. MaxSends]]
  /\ sender \in [pc : {"idle", "pended", "armed", "settling"},
                 cmd : 0 .. MaxSends]
  /\ report \in {"off", "posted", "reset"}
  /\ monitor \in {"off", "entering", "on", "leaving"}
  /\ busy \in Cmds \cup {Nobody} /\ nsent \in 0 .. MaxSends
  /\ owed \in Seq(Cmds) /\ air \in Seq(Bytes)
  /\ budget \in 0 .. MaxTrouble
  /\ abandoned \subseteq Cmds /\ late \subseteq Cmds
  /\ answers \in [Cmds -> Nat]

Idle == [pc |-> "idle", cmd |-> Nobody]

Init ==
  /\ pending = Nobody /\ up = TRUE /\ tap = FALSE /\ injected = FALSE
  /\ mode = "Prompt" /\ buffer = {} /\ fed = <<>> /\ mail = <<>>
  /\ armed = Nobody /\ run = [t \in Threads |-> Idle] /\ sender = Idle
  /\ report = "off" /\ monitor = "off" /\ busy = Nobody /\ nsent = 0
  /\ owed = <<>> /\ air = <<>>
  /\ budget = MaxTrouble
  /\ abandoned = {} /\ late = {} /\ answers = [c \in Cmds |-> 0]

-----------------------------------------------------------------------------
Plain(kind) == [kind |-> kind, cmd |-> Nobody, text |-> {}]
Armed(c) == [kind |-> "Armed", cmd |-> c, text |-> {}]
Event(kind, text) == [kind |-> kind, cmd |-> Nobody, text |-> text]

Post(msg) == mail' = Append(mail, msg)
Trouble == budget > 0 /\ budget' = budget - 1

(* Every armed command nobody has taken: what the processor is waiting for *)
(* or, once abandoned, what may still surprise it.                         *)
Mailed == {mail[i].cmd : i \in {j \in DOMAIN mail : mail[j].kind = "Armed"}}
OnTheWire ==
  Mailed \cup ({armed} \ {Nobody})
    \cup (IF sender.pc = "pended" THEN {sender.cmd} ELSE {})

Of(texts) == {p.of : p \in texts} \ {Nobody}

(* deliver_with: thread t starts the callbacks that answer command c with  *)
(* these texts, or with an error when there are none.                      *)
Answer(t, c, texts) ==
  /\ run[t].pc = "idle"
  /\ run' = [run EXCEPT ![t] = [pc |-> "data", cmd |-> c]]
  /\ answers' = [answers EXCEPT ![c] = @ + 1]
  /\ late' = IF c \in Of(texts) THEN late ELSE late \cup {c}

-----------------------------------------------------------------------------
(* send_command, on the processor's worker: store, arm, write.             *)
SendPends ==
  /\ sender.pc = "idle" /\ busy = Nobody /\ nsent < MaxSends
  /\ nsent' = nsent + 1 /\ busy' = nsent + 1 /\ pending' = nsent + 1
  /\ sender' = [pc |-> "pended", cmd |-> nsent + 1]
  /\ UNCHANGED <<up, tap, injected, accVars, fed, mail, armed, run, report,
                 monitor, linkVars, budget, history>>

(* The fallback timer is not armed.                                        *)
MutantSendArms ==
  /\ sender.pc = "pended"
  /\ sender' = [sender EXCEPT !.pc = "armed"]
  /\ UNCHANGED <<stateVars, accVars, fed, mail, armed, run, report, monitor,
                 busy, nsent, linkVars, budget, history>>

SendArms ==
  /\ sender.pc = "pended"
  /\ Post(Armed(sender.cmd))
  /\ sender' = [sender EXCEPT !.pc = "armed"]
  /\ UNCHANGED <<stateVars, accVars, fed, armed, run, report, monitor, busy,
                 nsent, linkVars, budget, history>>

SendWrites ==           \* a host without a link drops the bytes
  /\ sender.pc = "armed"
  /\ sender' = Idle
  /\ owed' = IF up THEN Append(owed, sender.cmd) ELSE owed
  /\ UNCHANGED <<stateVars, accVars, fed, mail, armed, run, report, monitor,
                 busy, nsent, air, budget, history>>

(* A refused write (receive_error), or a command the dialect answers       *)
(* without the wire (complete_pending): disarm, and run the callbacks here.*)
SendSettles ==
  /\ Trouble /\ sender.pc = "armed"
  /\ Post(Plain("Disarm"))
  /\ sender' = [sender EXCEPT !.pc = "settling"]
  /\ Answer("sender", sender.cmd, {})
  /\ abandoned' = abandoned \cup OnTheWire \cup {sender.cmd}
  /\ UNCHANGED <<stateVars, accVars, fed, armed, report, monitor, busy, nsent,
                 linkVars>>

SendReturns ==
  /\ sender.pc = "settling" /\ run["sender"].pc = "idle"
  /\ sender' = Idle
  /\ UNCHANGED <<stateVars, accVars, fed, mail, armed, run, report, monitor,
                 busy, nsent, linkVars, budget, history>>

(* The command processor's abort: it no longer waits.                      *)
Abort ==
  /\ Trouble /\ busy # Nobody /\ nsent # 0
  /\ busy' = Nobody /\ abandoned' = abandoned \cup {nsent}
  /\ UNCHANGED <<stateVars, accVars, fed, mail, armed, run, sender, report,
                 monitor, nsent, linkVars, late, answers>>

-----------------------------------------------------------------------------
(* The adapter (external) answers what it was sent in order, or skips it:  *)
(* a new command interrupts the one it works on.                           *)
Reply ==
  /\ owed # <<>> /\ Len(air) + 3 <= MaxAir
  /\ air' = air \o [i \in 1 .. 3 |->
                      [of |-> Head(owed), sym |-> <<"text", "eol", "prompt">>[i]]]
  /\ owed' = Tail(owed)
  /\ UNCHANGED <<stateVars, accVars, fed, mail, armed, run, sender, report,
                 monitor, busy, nsent, budget, history>>

Skip ==
  /\ Len(owed) > 1 /\ Trouble
  /\ owed' = Tail(owed)
  /\ UNCHANGED <<stateVars, accVars, fed, mail, armed, run, sender, report,
                 monitor, busy, nsent, air, history>>

Noise ==                \* a monitored line, or a prompt nobody asked for
  /\ Trouble /\ Len(air) + 2 <= MaxAir /\ up
  /\ \/ /\ tap
        /\ air' = air \o <<[of |-> Nobody, sym |-> "text"],
                           [of |-> Nobody, sym |-> "eol"]>>
     \/ air' = Append(air, [of |-> Nobody, sym |-> "prompt"])
  /\ UNCHANGED <<stateVars, accVars, fed, mail, armed, run, sender, report,
                 monitor, busy, nsent, owed, history>>

-----------------------------------------------------------------------------
(* The reader: feed_bytes under the accumulator's lock, then one post per  *)
(* event with no lock held.                                                *)
Texts(chunk) == {[of |-> b.of, mode |-> mode] :
                   b \in {chunk[i] : i \in {j \in DOMAIN chunk :
                                              chunk[j].sym = "text"}}}
Last(chunk, sym) ==
  LET at == {i \in DOMAIN chunk : chunk[i].sym = sym}
  IN  IF at = {} THEN 0 ELSE CHOOSE i \in at : \A j \in at : j <= i

(* What is before the last prompt is one response; the buffer is cleared,  *)
(* with whatever followed the prompt.                                      *)
DrainPrompt(chunk) ==
  LET p == Last(chunk, "prompt")
      text == buffer \cup Texts(SubSeq(chunk, 1, p))
  IN  IF p = 0
      THEN buffer' = buffer \cup Texts(chunk) /\ fed' = <<>>
      ELSE /\ buffer' = {}
           /\ fed' = IF text = {} THEN <<Plain("Dropped")>>
                     ELSE <<Event("Response", text)>>

(* Complete lines, one event each, and the tail carried over.  A chunk is  *)
(* at most one line here, so the carry and its first text are one line.    *)
DrainLines(chunk) ==
  LET e == Last(chunk, "eol")
      line == buffer \cup Texts(SubSeq(chunk, 1, e))
  IN  /\ buffer' = IF e = 0 THEN buffer \cup Texts(chunk)
                   ELSE Texts(SubSeq(chunk, e + 1, Len(chunk)))
      /\ fed' = IF e = 0 \/ line = {} THEN <<>> ELSE <<Event("Line", line)>>

FeedBytes ==
  /\ fed = <<>> /\ air # <<>>
  /\ \E k \in 1 .. Len(air) :
       LET chunk == SubSeq(air, 1, k)
       IN /\ IF mode = "Prompt" THEN DrainPrompt(chunk)
             ELSE Last(SubSeq(chunk, 1, k - 1), "eol") = 0 /\ DrainLines(chunk)
          /\ air' = SubSeq(air, k + 1, Len(air))
  /\ UNCHANGED <<stateVars, mode, mail, armed, run, sender, report, monitor,
                 busy, nsent, owed, budget, history>>

PostEvent ==
  /\ fed # <<>>
  /\ Post(Head(fed)) /\ fed' = Tail(fed)
  /\ UNCHANGED <<stateVars, accVars, armed, run, sender, report, monitor, busy,
                 nsent, linkVars, budget, history>>

-----------------------------------------------------------------------------
(* worker_main.  It takes one message at a time and runs the callbacks of  *)
(* an answer to their end before the next.                                 *)
Takes(kind) ==
  /\ run["delivery"].pc = "idle" /\ mail # <<>> /\ Head(mail).kind = kind
  /\ mail' = Tail(mail)
  /\ UNCHANGED <<pending, up, tap, fed, sender, report, monitor, busy, nsent,
                 linkVars, budget, abandoned>>

TakeArmed ==
  /\ Takes("Armed")
  /\ armed' = Head(mail).cmd
  /\ UNCHANGED <<injected, accVars, run, late, answers>>

TakeDisarm ==
  /\ Takes("Disarm")
  /\ armed' = Nobody
  /\ UNCHANGED <<injected, accVars, run, late, answers>>

TakeLine ==             \* to the tap, if there is one by now
  /\ Takes("Line") \/ Takes("Dropped")
  /\ UNCHANGED <<injected, accVars, armed, run, late, answers>>

TakeResponse ==         \* with nothing outstanding it is dropped
  /\ Takes("Response")
  /\ injected' = FALSE
  /\ IF armed = Nobody
     THEN UNCHANGED <<armed, run, late, answers>>
     ELSE /\ armed' = Nobody
          /\ Answer("delivery", armed, IF injected THEN {} ELSE Head(mail).text)
  /\ UNCHANGED accVars

TimerFires ==           \* recv_timeout looks at the mail before the clock
  /\ armed # Nobody /\ mail = <<>>
  /\ armed' = Nobody /\ buffer' = {}
  /\ Answer("delivery", armed, {})
  /\ UNCHANGED <<stateVars, mode, fed, mail, sender, report, monitor, busy,
                 nsent, linkVars, budget, abandoned>>

(* The data callback completes the command in the processor, and so does   *)
(* the completion callback after it.                                       *)
Completes(t) ==
  busy' = IF busy = run[t].cmd THEN Nobody ELSE busy

DataCallback(t) ==
  /\ run[t].pc = "data"
  /\ run' = [run EXCEPT ![t].pc = "completion"]
  /\ Completes(t)
  /\ UNCHANGED <<stateVars, accVars, fed, mail, armed, sender, report, monitor,
                 nsent, linkVars, budget, history>>

CompletionCallback(t) ==
  /\ run[t].pc = "completion"
  /\ run' = [run EXCEPT ![t] = Idle]
  /\ Completes(t)
  /\ UNCHANGED <<stateVars, accVars, fed, mail, armed, sender, report, monitor,
                 nsent, linkVars, budget, history>>

-----------------------------------------------------------------------------
(* update_connection_status(Disconnected): disarm, reset the accumulator,  *)
(* then fail the pending command, unless the link was down already.        *)
DropPosts ==
  /\ report = "off" /\ run["host"].pc = "idle" /\ Trouble
  /\ report' = "posted"
  /\ Post(Plain("Disarm"))
  /\ owed' = <<>> /\ air' = <<>>
  /\ abandoned' = abandoned \cup OnTheWire
  /\ UNCHANGED <<stateVars, accVars, fed, armed, run, sender, monitor, busy,
                 nsent, late, answers>>

DropResets ==
  /\ report = "posted"
  /\ report' = "reset"
  /\ buffer' = {}
  /\ UNCHANGED <<stateVars, mode, fed, mail, armed, run, sender, monitor, busy,
                 nsent, linkVars, budget, history>>

(* pending_command is failed without being forgotten.                      *)
MutantDropFails ==
  /\ report = "reset" /\ run["host"].pc = "idle"
  /\ report' = "off"
  /\ up' = FALSE
  /\ IF pending # Nobody
     THEN Answer("host", pending, {})
     ELSE UNCHANGED <<run, answers, late>>
  /\ UNCHANGED <<pending, tap, injected, accVars, fed, mail, armed, sender,
                 monitor, busy, nsent, linkVars, budget, abandoned>>

DropFails ==
  /\ report = "reset" /\ run["host"].pc = "idle"
  /\ report' = "off"
  /\ up' = FALSE
  /\ IF up /\ pending # Nobody
     THEN /\ pending' = Nobody
          /\ Answer("host", pending, {})
          /\ abandoned' = abandoned \cup {pending}
     ELSE UNCHANGED <<pending, run, answers, late, abandoned>>
  /\ UNCHANGED <<tap, injected, accVars, fed, mail, armed, sender, monitor,
                 busy, nsent, linkVars, budget>>

Reconnect ==            \* connect_rust resets the accumulator, a host does not
  /\ ~up /\ report = "off"
  /\ up' = TRUE
  /\ buffer' \in {buffer, {}}
  /\ UNCHANGED <<pending, tap, injected, mode, fed, mail, armed, run, sender,
                 report, monitor, busy, nsent, linkVars, budget, history>>

(* The string API: the host answers a command it was given by itself.      *)
ReceiveResponse ==
  /\ Trouble /\ report = "off" /\ run["host"].pc = "idle"
  /\ \E i \in DOMAIN owed :
       /\ Answer("host", owed[i], {})
       /\ abandoned' = abandoned \cup OnTheWire \cup {owed[i]}
       /\ owed' = [j \in 1 .. (Len(owed) - 1) |->
                     IF j < i THEN owed[j] ELSE owed[j + 1]]
  /\ Post(Plain("Disarm"))
  /\ UNCHANGED <<stateVars, accVars, fed, armed, sender, report, monitor, busy,
                 nsent, air>>

InjectError ==
  /\ Trouble /\ ~injected
  /\ injected' = TRUE
  /\ UNCHANGED <<pending, up, tap, accVars, fed, mail, armed, run, sender,
                 report, monitor, busy, nsent, linkVars, history>>

-----------------------------------------------------------------------------
(* enter_monitor_mode sets the tap and then the mode, exit_monitor_mode    *)
(* clears the tap and then the mode; set_mode clears the buffer.           *)
SetMode(m) == mode' = m /\ buffer' = {}

MonitorMoves(from, to) ==
  /\ monitor = from /\ monitor' = to
  /\ UNCHANGED <<pending, up, injected, fed, mail, armed, run, sender, report,
                 busy, nsent, linkVars, history>>

EnterMonitor ==
  /\ MonitorMoves("off", "entering") /\ Trouble
  /\ tap' = TRUE
  /\ UNCHANGED accVars

EnterMode ==
  /\ MonitorMoves("entering", "on")
  /\ SetMode("Line") /\ UNCHANGED <<tap, budget>>

ExitMonitor ==
  /\ MonitorMoves("on", "leaving")
  /\ tap' = FALSE /\ UNCHANGED <<accVars, budget>>

ExitMode ==
  /\ MonitorMoves("leaving", "off")
  /\ SetMode("Prompt") /\ UNCHANGED <<tap, budget>>

-----------------------------------------------------------------------------
Sender == SendPends \/ SendArms \/ SendWrites \/ SendSettles \/ SendReturns
Adapter == Reply \/ Skip \/ Noise
Reader == FeedBytes \/ PostEvent
Callback(t) == DataCallback(t) \/ CompletionCallback(t)
WorkerMain == TakeArmed \/ TakeDisarm \/ TakeLine \/ TakeResponse \/ TimerFires
Host == DropPosts \/ DropResets \/ DropFails \/ Reconnect \/ ReceiveResponse
          \/ InjectError
Monitor == EnterMonitor \/ EnterMode \/ ExitMonitor \/ ExitMode

Next ==
  \/ Sender \/ Abort \/ Adapter \/ Reader \/ WorkerMain
  \/ \E t \in Threads : Callback(t)
  \/ Host \/ Monitor

Spec == Init /\ [][Next]_vars

(* The threads run and the clock ticks; nothing is assumed of the adapter, *)
(* the host's reports or the monitor.                                      *)
Fairness ==
  /\ WF_vars(SendArms \/ SendWrites \/ SendSettles \/ SendReturns)
  /\ WF_vars(WorkerMain)
  /\ \A t \in Threads : WF_vars(Callback(t))

FairSpec == Spec /\ Fairness

-----------------------------------------------------------------------------
(* What the command processor sees of all this is the abstract exchange:   *)
(* a command is answered once unless it was abandoned, and is never        *)
(* forgotten (the fallback timer of worker_main).                          *)
Abstract == INSTANCE Exchange WITH wire <- OnTheWire, lastSent <- pending
ImplementsExchange == Abstract!FairSpec

(* A second run of the callbacks completes, and accounts, a command sent   *)
(* later: it only happens to commands that were abandoned.                 *)
AnsweredOnce == Abstract!AnsweredOnce

(* Given up: whoever waits for this command does not wait for its text.    *)
GivenUp == abandoned \cup late

(* The timer is armed before the write, so a response never finds its own  *)
(* command unarmed, nor another one armed, unless its command was given up:*)
(* only then is it dropped, or handed to the next command.                 *)
ReplyMeetsCommand ==
  run["delivery"].pc = "idle" /\ mail # <<>> /\ Head(mail).kind = "Response" =>
    Of(Head(mail).text) \subseteq GivenUp \cup {armed}

(* "A command buffer must not leak into the monitor tap, and vice versa":  *)
(* no event mixes what was fed in one mode with what was fed in the other. *)
ModesApart ==
  /\ \A p \in buffer : p.mode = mode
  /\ \A q \in {fed, mail} : \A i \in DOMAIN q : \A p \in q[i].text :
       p.mode = IF q[i].kind = "Line" THEN "Line" ELSE "Prompt"
=============================================================================
