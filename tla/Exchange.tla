------------------------------ MODULE Exchange ------------------------------
(***************************************************************************)
(* What the platform promises the command processor about the commands it  *)
(* is handed: the interface of OBDPlatformInterface (src/src/platform.rs)  *)
(* as the processor relies on it, with no thread, queue or byte in sight.  *)
(*                                                                         *)
(* A command is on the wire from send_command until its answer, or until   *)
(* nobody will answer it any more.  It is answered once, unless it was     *)
(* abandoned: aborted by the processor, cut by a disconnect, or settled by *)
(* somebody else than the thread that delivers what the adapter says.      *)
(* Commands are numbered in the order they are sent.                       *)
(***************************************************************************)
EXTENDS Naturals

CONSTANT MaxSends      \* bound: commands sent

Cmds == 1 .. MaxSends

VARIABLES
  nsent,        \* commands sent so far
  wire,         \* sent, and its answer still to come
  lastSent,     \* the command a disconnect would fail, 0 when none
  abandoned,    \* given up by the processor or cut off
  answers       \* how often the callbacks ran for each command

vars == <<nsent, wire, lastSent, abandoned, answers>>

TypeOK ==
  /\ nsent \in 0 .. MaxSends /\ wire \subseteq Cmds
  /\ lastSent \in Cmds \cup {0} /\ abandoned \subseteq Cmds
  /\ answers \in [Cmds -> Nat]

Init ==
  /\ nsent = 0 /\ wire = {} /\ lastSent = 0 /\ abandoned = {}
  /\ answers = [c \in Cmds |-> 0]

Answered(c) == answers' = [answers EXCEPT ![c] = @ + 1]

(* One live command at a time: what is still on the wire was abandoned.    *)
Send(c) ==
  /\ c = nsent + 1 /\ wire \subseteq abandoned
  /\ nsent' = c /\ wire' = wire \cup {c} /\ lastSent' = c
  /\ UNCHANGED <<abandoned, answers>>

Deliver(c) ==           \* a reply, an error or the fallback timeout
  /\ c \in wire
  /\ wire' = wire \ {c}
  /\ Answered(c)
  /\ UNCHANGED <<nsent, lastSent, abandoned>>

Lose(c) ==              \* an abandoned command may stay without an answer
  /\ c \in wire \cap abandoned
  /\ wire' = wire \ {c}
  /\ UNCHANGED <<nsent, lastSent, abandoned, answers>>

Abort ==                \* the processor gives up what it waits for
  /\ abandoned' = abandoned \cup {nsent}
  /\ nsent # 0
  /\ UNCHANGED <<nsent, wire, lastSent, answers>>

Cut ==                  \* the link goes down: what is on the wire is disarmed
  /\ abandoned' = abandoned \cup wire
  /\ UNCHANGED <<nsent, wire, lastSent, answers>>

FailPending ==          \* and the last command sent is failed, answered or not
  /\ lastSent # 0
  /\ abandoned' = abandoned \cup {lastSent}
  /\ lastSent' = 0
  /\ Answered(lastSent)
  /\ UNCHANGED <<nsent, wire>>

Settle(c) ==            \* answered by the sender or the host, past the wire
  /\ c \in 1 .. nsent
  /\ abandoned' = abandoned \cup wire \cup {c}
  /\ Answered(c)
  /\ UNCHANGED <<nsent, wire, lastSent>>

Next ==
  \/ \E c \in Cmds : Send(c) \/ Deliver(c) \/ Lose(c) \/ Settle(c)
  \/ Abort \/ Cut \/ FailPending

Spec == Init /\ [][Next]_vars

(* Nothing stays on the wire for ever.                                     *)
Leaves(c) == Deliver(c) \/ Lose(c)
FairSpec == Spec /\ \A c \in Cmds : WF_vars(Leaves(c))

-----------------------------------------------------------------------------
(* The callbacks run once for each command nobody abandoned: a second run  *)
(* would complete, and count, a command that was sent later.               *)
AnsweredOnce ==
  \A c \in Cmds \ abandoned : answers[c] + (IF c \in wire THEN 1 ELSE 0) <= 1

(* Every command is answered in the end, unless it was abandoned.          *)
EventuallyAnswered ==
  \A c \in Cmds : (nsent >= c) ~> (answers[c] > 0 \/ c \in abandoned)
=============================================================================
