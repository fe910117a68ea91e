---------------------------- MODULE SerialTurns ----------------------------
(***************************************************************************)
(* What a chat thread promises its turns: they run one at a time, in the   *)
(* order in which they were accepted, and every accepted turn gets its     *)
(* go.  ThreadTurns is shown to implement this when all its turns are      *)
(* delivered through the queue.                                            *)
(***************************************************************************)
EXTENDS Sequences

CONSTANT Turns

VARIABLES
  line,       \* the accepted turns still to finish; the first one is running
  over        \* the turns that have finished

vars == <<line, over>>

Init == line = <<>> /\ over = {}

InLine(t) == \E i \in DOMAIN line : line[i] = t

Accept(t) ==
  /\ ~InLine(t) /\ t \notin over
  /\ line' = Append(line, t)
  /\ UNCHANGED over

Finish ==
  /\ line # <<>>
  /\ line' = Tail(line)
  /\ over' = over \cup {Head(line)}

Next == Finish \/ \E t \in Turns : Accept(t)

Spec == Init /\ [][Next]_vars /\ WF_vars(Finish)
=============================================================================
