------------------------------ MODULE TaskLife ------------------------------
(***************************************************************************)
(* What a task promises to the code that waits in it and to the code that   *)
(* wakes it, without threads, queues, epochs and atomic words:              *)
(*   - a suspended task becomes ready only by a signal of its present       *)
(*     sleep, and by the first such signal only;                            *)
(*   - a sleep that was signalled before it suspended does not suspend;     *)
(*   - a sleep returns one of the signals it received, the deadline only if *)
(*     it has one, or returns at once;                                      *)
(*   - a finished task does nothing.                                        *)
(* engine::impl::TaskContext implements it (module TaskContext).            *)
(***************************************************************************)

VARIABLES
  life,      \* "new", "ready", "running", "asleep" or "finished"
  phase,     \* the task is "awake", "entering" Sleep(), or has "slept" in it
  timed,     \* this sleep has a deadline of its own
  signals,   \* the signals this sleep has received
  outcome    \* what the last sleep returned, until the next one

vars == <<life, phase, timed, signals, outcome>>

Signals == {"kNotify", "kDeadlineTimer", "kCancelRequest"}

Init ==
  /\ life = "new"
  /\ phase = "awake"
  /\ timed = FALSE
  /\ signals = {}
  /\ outcome = "kNone"

\* The first start, and the start after a wakeup.
Bootstrap == life = "new" /\ life' = "ready" /\ UNCHANGED <<phase, timed, signals, outcome>>

Resume == life = "ready" /\ life' = "running" /\ UNCHANGED <<phase, timed, signals, outcome>>

BeginSleep ==
  /\ life = "running" /\ phase = "awake"
  /\ phase' = "entering"
  /\ timed' \in BOOLEAN
  /\ outcome' = "kNone"
  /\ UNCHANGED <<life, signals>>

\* A signal readies a suspended task, and is only noted in any other.
Signal(s) ==
  /\ phase # "awake"
  /\ s = "kDeadlineTimer" => timed
  /\ signals' = signals \cup {s}
  /\ life' = IF life = "asleep" THEN "ready" ELSE life
  /\ UNCHANGED <<phase, timed, outcome>>

Suspend ==
  /\ life = "running" /\ phase = "entering"
  /\ phase' = "slept"
  /\ life' = IF signals = {} THEN "asleep" ELSE "ready"
  /\ UNCHANGED <<timed, signals, outcome>>

\* The sleep returns without suspending, or with a signal it received.
EndSleep ==
  /\ life = "running"
  /\ \/ phase = "entering" /\ outcome' \in {"kNotify", "kCancelRequest"}
     \/ phase = "slept" /\ outcome' \in signals
  /\ phase' = "awake"
  /\ timed' = FALSE
  /\ signals' = {}
  /\ UNCHANGED life

Finish ==
  /\ life = "running" /\ phase = "awake"
  /\ life' = "finished"
  /\ UNCHANGED <<phase, timed, signals, outcome>>

Next ==
  \/ Bootstrap \/ Resume \/ BeginSleep \/ Suspend \/ EndSleep \/ Finish
  \/ \E s \in Signals : Signal(s)

Spec == Init /\ [][Next]_vars
=============================================================================
