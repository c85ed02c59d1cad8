-------------------------------- MODULE JobLife --------------------------------
(***************************************************************************)
(* What the queue promises to those who submit jobs and to whoever reads   *)
(* the dead letters: a job is in one place at a time; the line is served   *)
(* in its order; a job that fails is retried as often as it may be, and is *)
(* given up only after that; and only while it is worked on can it be      *)
(* lost.  Nothing is said of workers, counters or what a job carries.      *)
(***************************************************************************)
EXTENDS Naturals, Sequences

CONSTANTS Jobs, MaxRetries

VARIABLES
  line,     \* the jobs that wait, in their order
  letters,  \* the jobs that were given up, in their order
  places,   \* places[j]: where job j is
  starts    \* starts[j]: how often its handler was started

vars == <<line, letters, places, starts>>

Init ==
  /\ line = <<>> /\ letters = <<>>
  /\ places = [j \in Jobs |-> {"new"}]
  /\ starts = [j \in Jobs |-> 0]

Move(j, from, to) ==
  places[j] = {from} /\ places' = [places EXCEPT ![j] = {to}]

Submit(j) ==
  /\ Move(j, "new", "waiting")
  /\ line' = Append(line, j)
  /\ UNCHANGED <<letters, starts>>

Start(j) ==
  /\ line # <<>> /\ j = Head(line)
  /\ Move(j, "waiting", "running")
  /\ line' = Tail(line)
  /\ starts' = [starts EXCEPT ![j] = @ + 1]
  /\ UNCHANGED letters

Succeed(j) ==
  /\ Move(j, "running", "handled")
  /\ UNCHANGED <<line, letters, starts>>

Fail(j) ==
  /\ Move(j, "running", "failed")
  /\ UNCHANGED <<line, letters, starts>>

Retry(j) ==
  /\ starts[j] <= MaxRetries
  /\ Move(j, "failed", "waiting")
  /\ line' = Append(line, j)
  /\ UNCHANGED <<letters, starts>>

GiveUp(j) ==
  /\ starts[j] = MaxRetries + 1
  /\ Move(j, "failed", "dead")
  /\ letters' = Append(letters, j)
  /\ UNCHANGED <<line, starts>>

Lose(j) ==
  /\ places[j] \in {{"running"}, {"failed"}}
  /\ places' = [places EXCEPT ![j] = {}]
  /\ UNCHANGED <<line, letters, starts>>

Next ==
  \E j \in Jobs : \/ Submit(j) \/ Start(j) \/ Succeed(j) \/ Fail(j)
                  \/ Retry(j) \/ GiveUp(j) \/ Lose(j)

Spec == Init /\ [][Next]_vars
=============================================================================
