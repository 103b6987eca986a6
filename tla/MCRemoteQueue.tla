--------------------------- MODULE MCRemoteQueue ---------------------------
(***************************************************************************)
(* RemoteQueue with the queues and commands of its model checking runs.    *)
(***************************************************************************)
EXTENDS RemoteQueue

CONSTANTS a, b, c

A_AB == {<<a>>, <<a, b>>}
AB == {<<a, b>>}
ABC == {<<a, b, c>>}

Scenario(lists, added, room, commands, continuous) ==
  [lists |-> lists, added |-> added, room |-> room, commands |-> commands,
   continuous |-> continuous, repeat |-> "off", shuffle |-> FALSE, failure |-> "stop"]

\* Every way to skip, advance and wrap around.
Skipping ==
  Scenario(ABC, {}, 3, {"start", "repeat", "shuffle", "failure"}, FALSE)

\* Every edit of the queue and the navigation by index.
Editing ==
  Scenario(AB, {a, b}, 3, {"start", "append", "move", "remove", "clear"}, FALSE)

\* Timers against everything that ends or moves playback.
Timing ==
  Scenario(AB, {}, 2, {"start", "timer", "pause", "local", "stop", "seek",
                       "next", "previous", "select", "failure", "gain"}, FALSE)

\* What a continuous session lives with: timers, and modes.
Gapless(commands) ==
  Scenario(A_AB, {a, b}, 2, {"start", "append", "seek"} \cup commands, TRUE)

\* Failures between boundaries, which keep what failed before.
SkippingOn ==
  [Scenario(ABC, {}, 3, {"start"}, TRUE) EXCEPT
     !.repeat = "all", !.shuffle = TRUE, !.failure = "skip"]

MCScenarios ==
  {Skipping, SkippingOn, Editing, Timing, Gapless({"timer"}), Gapless({"repeat", "play"})}

\* The two disagreements of README section 5: a removal while a continuous
\* session moves on, and a skip that gives up on another track.
Removing == {Scenario(AB, {}, 2, {"start", "remove"}, TRUE)}
GivingUp == {Scenario(ABC, {}, 3, {"start", "repeat", "failure", "seek"}, FALSE)}
=============================================================================
