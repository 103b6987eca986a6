--------------------------- MODULE LibraryService ---------------------------
(***************************************************************************)
(* What the store promises its callers: every request takes effect at one  *)
(* instant between the call and the answer, on the library as all requests *)
(* before it left it; a request that is answered with an error has no      *)
(* effect; and what was answered survives a crash. A request that a crash  *)
(* interrupts may have taken effect, but at most one may.                  *)
(***************************************************************************)
CONSTANTS
  Clients,
  Seeds,          \* libraries to start from
  Requests,       \* what may be asked
  Permits(_, _),  \* whether a library lets a request take effect
  After(_, _)     \* what the request makes of it

VARIABLES
  library,  \* what a reader sees
  request,  \* what each client asked for, NoRequest when it asked for nothing
  answer    \* what it was told: "none" until the request is over

vars == <<library, request, answer>>

NoRequest == [kind |-> "none"]

Init ==
  /\ library \in Seeds
  /\ request = [c \in Clients |-> NoRequest]
  /\ answer = [c \in Clients |-> "none"]

Asks(c) == request[c] # NoRequest /\ answer[c] = "none"

Ask(c) ==
  /\ request[c] = NoRequest
  /\ request'[c] \in Requests
  /\ request' = [request EXCEPT ![c] = request'[c]]
  /\ UNCHANGED <<library, answer>>

Effect(c) ==
  /\ Asks(c)
  /\ Permits(library, request[c])
  /\ library' = After(library, request[c])
  /\ answer' = [answer EXCEPT ![c] = "ok"]
  /\ UNCHANGED request

Refuse(c) ==
  /\ Asks(c)
  /\ ~Permits(library, request[c])
  /\ answer' = [answer EXCEPT ![c] = "refused"]
  /\ UNCHANGED <<library, request>>

\* The disk failed.
Fail(c) ==
  /\ Asks(c)
  /\ answer' = [answer EXCEPT ![c] = "failed"]
  /\ UNCHANGED <<library, request>>

Return(c) ==
  /\ answer[c] # "none"
  /\ request' = [request EXCEPT ![c] = NoRequest]
  /\ answer' = [answer EXCEPT ![c] = "none"]
  /\ UNCHANGED library

Crash ==
  /\ \/ UNCHANGED library
     \/ \E c \in Clients :
          /\ Asks(c)
          /\ Permits(library, request[c])
          /\ library' = After(library, request[c])
  /\ request' = [c \in Clients |-> NoRequest]
  /\ answer' = [c \in Clients |-> "none"]

Next ==
  \/ \E c \in Clients :
       Ask(c) \/ Effect(c) \/ Refuse(c) \/ Fail(c) \/ Return(c)
  \/ Crash

Spec == Init /\ [][Next]_vars
=============================================================================
