-------------------------- MODULE MCTemporalVision --------------------------
(***************************************************************************)
(* Instances of TemporalVision: two commands look at one session.          *)
(***************************************************************************)
EXTENDS TemporalVision, TLC

CONSTANTS m1, m2, here, there

Job(job, output) == [job |-> job, output |-> output, frames |-> FrameCount]
Burst(output, count) == [job |-> "burst", output |-> output, frames |-> count]
Beside(first, second) == (m1 :> first) @@ (m2 :> second)

StableWait == {Beside(Job("stable", here), Job("screenshot", there))}

\* Every job beside a screenshot, and two bursts over the session's scratch file.
EveryJob ==
    StableWait
    \cup {Beside(Job("burst", here), Job("screenshot", there)),
          Beside(Burst(here, 2), Burst(there, 1)),
          Beside(Job("exit", here), Job("screenshot", there))}

\* Two bursts with one output.
SharedOutput == {Beside(Job("burst", here), Job("burst", here))}

=============================================================================
