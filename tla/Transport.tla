----------------------------- MODULE Transport -----------------------------
(***************************************************************************)
(* What the server's player promises its clients, whatever the goroutines  *)
(* of internal/app/remote.go do: there is one receiver transport at a time,*)
(* a playback request is numbered when it supersedes the one before it,    *)
(* what the status turns to "play" is the latest request with its own      *)
(* transport open, and the end of a playback ends that playback only,      *)
(* however late the report of it comes.                                    *)
(***************************************************************************)
EXTENDS Integers

VARIABLES
  request,  \* number of the latest playback request
  mode,     \* what GET /remote reports: "stop", "pause", "loading", "play"
  heard,    \* the requests that hold an open receiver transport
  ended,    \* the requests whose playback reported an end not yet dealt with
  turn      \* the request whose end the player is acting on, 0 if none

vars == <<request, mode, heard, ended, turn>>

Resting == {"stop", "pause"}

Init ==
  /\ request = 0
  /\ mode \in Resting
  /\ heard = {}
  /\ ended = {}
  /\ turn = 0

\* The user, the timer or the shutdown supersedes the request: nothing is
\* playing until the new one loads.
Ask ==
  /\ turn = 0
  /\ request' = request + 1
  /\ mode' \in Resting
  /\ UNCHANGED <<heard, ended, turn>>

\* The playback of a request reports its end, at any time from then on.
Report ==
  /\ \E r \in 1..request : ended' = ended \cup {r}
  /\ UNCHANGED <<request, mode, heard, turn>>

\* A report is dropped when it was dealt with, came too late or is not waited
\* for any more.
Forget ==
  /\ ended' \in SUBSET ended
  /\ UNCHANGED <<request, mode, heard, turn>>

\* Only the end of the latest request is acted on ...
Heed ==
  /\ turn = 0 /\ request \in ended
  /\ turn' = request
  /\ UNCHANGED <<request, mode, heard, ended>>

\* ... and it is that request which it ends.
Finish ==
  /\ turn = request /\ turn # 0
  /\ request' = request + 1
  /\ mode' \in Resting
  /\ turn' = 0
  /\ UNCHANGED <<heard, ended>>

\* The resting mode may be corrected once the request is settled.
Settle ==
  /\ mode \in Resting
  /\ mode' \in Resting
  /\ UNCHANGED <<request, heard, ended, turn>>

Load ==
  /\ mode \in Resting /\ turn = 0
  /\ mode' = "loading"
  /\ UNCHANGED <<request, heard, ended, turn>>

\* Playing is reported for the latest request, once its transport is open.
Play ==
  /\ mode = "loading" /\ heard = {request}
  /\ mode' = "play"
  /\ UNCHANGED <<request, heard, ended, turn>>

\* A transport opens only after the one before it was closed.
Open ==
  /\ heard = {}
  /\ \E r \in 1..request : heard' = {r}
  /\ UNCHANGED <<request, mode, ended, turn>>

Close ==
  /\ heard # {}
  /\ heard' = {}
  /\ UNCHANGED <<request, mode, ended, turn>>

Next ==
  \/ Ask \/ Report \/ Forget \/ Heed \/ Finish
  \/ Settle \/ Load \/ Play \/ Open \/ Close

Spec == Init /\ [][Next]_vars
=============================================================================
