------------------------ MODULE AirPlaySessionProofs ------------------------
(***************************************************************************)
(* Proofs about AirPlaySession for every modulus of the packet numbers,    *)
(* every smaller window, every first number and streams of every length.   *)
(***************************************************************************)
EXTENDS AirPlaySession, TLAPS

-----------------------------------------------------------------------------
(* The inductive strengthenings.                                           *)

\* Where Stream is when it has passed waitForClock and has not returned.
Playing == {"reading", "framed", "kept", "draining"}

SessionType ==
  /\ stream \in {"idle", "waiting", "returned"} \cup Playing
  /\ counter \in Nat /\ first \in 0..(Wrap - 1)
  /\ packets \in [DOMAIN packets -> Nat]
  /\ sent \subseteq Nat
  /\ stream # "idle" => step = "connected"

\* The number on the wire is that of the packet.
Numbered == seq = (first + counter) % Wrap

\* A stream that counts as not started has counted no packet, and nothing is out
\* beyond the packet in hand.
NothingYet == outcome = "not started" => stream = "returned" /\ counter = 0
NothingAhead == \A c \in sent : c <= counter

\* Packets are made, kept and sent after the clock.
Begun == sent # {} \/ DOMAIN packets # {}

ClockHeld ==
  /\ Begun => stream \in Playing \cup {"returned"}
  /\ stream \in Playing \/ Begun => probe # "never" /\ (ptp => settling = "done")

\* Between Keep and Send the packet in hand is kept too.
WindowHeld ==
  \A n \in DOMAIN packets :
    /\ (first + packets[n]) % Wrap = n
    /\ IF stream = "kept" THEN packets[n] \in (counter - Window + 1)..counter
       ELSE packets[n] \in (counter - Window)..counter
    /\ stream \in {"idle", "waiting", "reading", "framed"} => packets[n] < counter

AudioInv == Numbered /\ NothingYet /\ NothingAhead /\ ClockHeld /\ WindowHeld

-----------------------------------------------------------------------------
(* Numbers that wrap.                                                      *)

LEMMA ModAdd ==
  ASSUME NEW a \in Int, NEW b \in Int, NEW w \in Nat \ {0}
  PROVE  ((a % w) + b) % w = (a + b) % w
<1> DEFINE q == a \div w
           r == a % w
           p == (r + b) \div w
           s == (r + b) % w
<1>1. a = w * q + r /\ q \in Int /\ r \in 0..(w - 1)
  OBVIOUS
<1>2. r + b = w * p + s /\ p \in Int /\ s \in 0..(w - 1)
  BY <1>1
<1>3. \A x \in Int, y \in 0..(w - 1) : (w * x + y) % w = y
  OBVIOUS
<1> SUFFICES (a + b) % w = s
  OBVIOUS
<1> HIDE DEF q, r, p, s
<1>4. a + b = w * (q + p) + s /\ q + p \in Int
  BY <1>1, <1>2
<1> QED
  BY <1>2, <1>3, <1>4

-----------------------------------------------------------------------------
(* Steps that have nothing to do with the audio.                           *)

LEMMA ConnectedIsNoStep == step = "connected" => ~Connecting
BY DEF Connecting, Steps

Aside ==
  \/ Connect \/ ConnectFails \/ Cancel
  \/ \E p \in Requesters : Request(p) \/ Reply(p) \/ Fails(p)
  \/ FeedbackLeaves \/ EventsEnd \/ RetransmitsLeaves
  \/ Receiver \/ ClockFails
  \/ BeginClose \/ Close

LEMMA AsideSteps ==
  ASSUME Aside
  PROVE  /\ UNCHANGED audio /\ UNCHANGED settling
         /\ probe # "never" => probe' # "never"
         /\ step = "connected" => step' = "connected" /\ ptp' = ptp
<1> USE ConnectedIsNoStep
<1>1. CASE Connect \/ ConnectFails \/ Cancel
  BY <1>1 DEF Connect, ConnectFails, Cancel, clock
<1>2. ASSUME NEW p \in Requesters, Request(p) \/ Reply(p) \/ Fails(p)
      PROVE  UNCHANGED <<setup, clock, audio>>
  BY <1>2 DEF Request, Reply, Fails, Release
<1>3. CASE FeedbackLeaves \/ EventsEnd \/ RetransmitsLeaves \/ ClockFails
  BY <1>3 DEF FeedbackLeaves, EventsEnd, RetransmitsLeaves, ClockFails, clock, setup
<1>4. CASE Receiver
  BY <1>4 DEF Receiver, Answer, Probe, Age, clock, setup
<1>5. CASE BeginClose \/ Close
  BY <1>5 DEF BeginClose, Close, Teardown, TeardownEnds, CloseConn, CloseRest, Closed, clock,
     setup
<1> QED
  BY <1>1, <1>2, <1>3, <1>4, <1>5 DEF Aside, setup, clock

\* A step of Stream that only moves it on, or returns.
LEMMA ReturnIs ==
  ASSUME NEW r, Return(r)
  PROVE  /\ stream' = "returned"
         /\ outcome' = Returned(r)
         /\ UNCHANGED <<step, ptp, probe, settling, first, seq, counter, packets, sent>>
BY DEF Return, setup, clock

LEMMA GoIs ==
  ASSUME NEW to, Go(to)
  PROVE  /\ stream' = to
         /\ UNCHANGED <<step, ptp, probe, outcome, first, seq, counter, packets, sent>>
BY DEF Go, setup

Returns == WaitEnds \/ ReadFails \/ SendFails \/ Drained \/ (ReadNothing /\ counter = 0)
Moves == Stream \/ WaitForClock \/ Settle \/ Read \/ (ReadNothing /\ counter # 0)

LEMMA SessionSteps ==
  ASSUME [Next]_vars
  PROVE  Aside \/ Returns \/ Moves \/ Keep \/ Send \/ Resend \/ UNCHANGED vars
BY DEF Next, Aside, Streaming, Returns, Moves

LEMMA ReturnsStep ==
  ASSUME Returns
  PROVE  /\ stream # "idle" /\ stream' = "returned"
         /\ \E r \in {"failed", "cancelled", "timing", "no audio", "played"} :
              outcome' = Returned(r)
         /\ UNCHANGED <<step, ptp, probe, settling, first, seq, counter, packets, sent>>
BY ReturnIs DEF Returns, WaitEnds, ReadFails, SendFails, Drained, ReadNothing

LEMMA MovesStep ==
  ASSUME Moves
  PROVE  /\ UNCHANGED <<step, ptp, probe, outcome, first, seq, counter, packets, sent>>
         /\ \/ stream = "idle" /\ step = "connected" /\ stream' = "waiting"
            \/ stream = "waiting" /\ stream' = "waiting"
            \/ stream = "waiting" /\ stream' = "reading" /\ Settled /\ UNCHANGED settling
            \/ stream = "reading" /\ stream' \in {"framed", "draining"} /\ UNCHANGED settling
<1>1. CASE Stream
  BY <1>1, GoIs DEF Stream
<1>2. CASE WaitForClock
  BY <1>2, GoIs DEF WaitForClock
<1>3. CASE Settle
  BY <1>3 DEF Settle, setup, audio
<1>4. CASE Read \/ (ReadNothing /\ counter # 0)
  BY <1>4, GoIs DEF Read, ReadNothing
<1> QED
  BY <1>1, <1>2, <1>3, <1>4 DEF Moves

LEMMA KeepIs ==
  ASSUME SessionType, Keep
  PROVE  /\ stream = "framed" /\ stream' = "kept"
         /\ UNCHANGED <<step, ptp, probe, settling, outcome, first, seq, counter, sent>>
         /\ DOMAIN packets' = (DOMAIN packets \cup {seq}) \ {(seq - Window) % Wrap}
         /\ \A n \in DOMAIN packets' : packets'[n] = IF n = seq THEN counter ELSE packets[n]
         /\ packets' \in [DOMAIN packets' -> Nat]
<1>1. /\ stream = "framed" /\ stream' = "kept"
      /\ UNCHANGED <<step, ptp, probe, settling, outcome, first, seq, counter, sent>>
      /\ packets' = [n \in (DOMAIN packets \cup {seq}) \ {(seq - Window) % Wrap} |->
                       IF n = seq THEN counter ELSE packets[n]]
  BY DEF Keep, DropOldest, setup, clock
<1> QED
  BY <1>1 DEF SessionType

LEMMA SendIs ==
  ASSUME Send
  PROVE  /\ stream = "kept" /\ stream' \in {"draining", "reading"}
         /\ UNCHANGED <<step, ptp, probe, settling, outcome, first, packets>>
         /\ sent' = sent \cup {counter} /\ counter' = counter + 1 /\ seq' = (seq + 1) % Wrap
BY DEF Send, setup, clock

LEMMA ResendIs ==
  ASSUME Resend
  PROVE  /\ UNCHANGED <<step, ptp, probe, settling, outcome, first, stream, seq, counter, packets>>
         /\ \E n \in DOMAIN packets : sent' = sent \cup {packets[n]}
BY DEF Resend, setup, clock

-----------------------------------------------------------------------------
(* The proof.                                                              *)

LEMMA TypeInit == Init => SessionType /\ AudioInv
<1> SUFFICES ASSUME Init PROVE SessionType /\ AudioInv
  OBVIOUS
<1>1. first \in 0..(Wrap - 1) /\ seq = first /\ counter = 0
  BY SessionAssumption DEF Init
<1>2. (first + counter) % Wrap = first
  BY <1>1, SessionAssumption
<1> QED
  BY <1>1, <1>2 DEF Init, NoPackets, SessionType, AudioInv, Numbered, NothingYet, NothingAhead,
     ClockHeld, WindowHeld, Begun, Playing

LEMMA TypeStep ==
  ASSUME SessionType, [Next]_vars
  PROVE  SessionType'
<1> USE DEF SessionType, Playing
<1>1. CASE Aside
  BY <1>1, AsideSteps DEF audio
<1>2. CASE Returns
  BY <1>2, ReturnsStep
<1>3. CASE Moves
  BY <1>3, MovesStep
<1>4. CASE Keep
  BY <1>4, KeepIs
<1>5. CASE Send
  BY <1>5, SendIs
<1>6. CASE Resend
  BY <1>6, ResendIs
<1>7. CASE UNCHANGED vars
  BY <1>7 DEF vars, audio, setup
<1> QED
  BY <1>1, <1>2, <1>3, <1>4, <1>5, <1>6, <1>7, SessionSteps

LEMMA NumberedStep ==
  ASSUME SessionType, Numbered, [Next]_vars
  PROVE  Numbered'
<1> USE DEF Numbered
<1>1. CASE Send
  <2>1. first + counter \in Int /\ Wrap \in Nat \ {0}
    BY SessionAssumption DEF SessionType
  <2>2. (((first + counter) % Wrap) + 1) % Wrap = (first + counter + 1) % Wrap
    BY <2>1, ModAdd
  <2>3. first + counter + 1 = first + (counter + 1)
    BY SessionAssumption DEF SessionType
  <2> QED
    BY <1>1, <2>2, <2>3, SendIs
<1>2. CASE ~Send
  BY <1>2, SessionSteps, AsideSteps, ReturnsStep, MovesStep, KeepIs, ResendIs DEF vars, audio
<1> QED
  BY <1>1, <1>2

LEMMA NothingYetStep ==
  ASSUME SessionType, NothingYet, [Next]_vars
  PROVE  NothingYet'
<1> USE DEF NothingYet
<1>1. CASE Aside \/ UNCHANGED vars
  BY <1>1, AsideSteps DEF vars, audio
<1>2. CASE Returns
  BY <1>2, ReturnsStep DEF Returned
<1>3. CASE Moves
  BY <1>3, MovesStep
<1>4. CASE Keep
  BY <1>4, KeepIs
<1>5. CASE Send
  BY <1>5, SendIs
<1>6. CASE Resend
  BY <1>6, ResendIs
<1> QED
  BY <1>1, <1>2, <1>3, <1>4, <1>5, <1>6, SessionSteps

LEMMA NothingAheadStep ==
  ASSUME SessionType, NothingAhead, WindowHeld, [Next]_vars
  PROVE  NothingAhead'
<1> SUFFICES ASSUME NEW c \in sent' PROVE c <= counter'
  BY DEF NothingAhead
<1>1. sent \subseteq Nat /\ counter \in Nat /\ \A n \in DOMAIN packets : packets[n] \in Nat
  BY DEF SessionType
<1>2. c \in sent => c \in Nat /\ c <= counter
  BY <1>1 DEF NothingAhead
<1>3. CASE Send
  BY <1>1, <1>2, <1>3, SendIs
<1>4. CASE Resend
  <2>1. ASSUME NEW n \in DOMAIN packets PROVE packets[n] <= counter
    BY <1>1, SessionAssumption DEF WindowHeld
  <2> QED
    BY <1>2, <1>4, <2>1, ResendIs
<1>5. CASE ~Send /\ ~Resend
  BY <1>2, <1>5, SessionSteps, AsideSteps, ReturnsStep, MovesStep, KeepIs DEF vars, audio
<1> QED
  BY <1>3, <1>4, <1>5

LEMMA ClockHeldStep ==
  ASSUME SessionType, ClockHeld, [Next]_vars
  PROVE  ClockHeld'
<1> USE DEF ClockHeld, Begun, Playing
<1>1. CASE Aside
  <2>1. UNCHANGED <<stream, sent, packets, settling>>
    BY <1>1, AsideSteps DEF audio
  <2>2. stream \in Playing \/ Begun => step = "connected"
    BY DEF SessionType
  <2>3. /\ probe # "never" => probe' # "never"
        /\ step = "connected" => ptp' = ptp
    BY <1>1, AsideSteps
  <2> QED
    BY <2>1, <2>2, <2>3
<1>2. CASE Returns
  <2>1. stream' = "returned" /\ UNCHANGED <<ptp, probe, settling, sent, packets>>
    BY <1>2, ReturnsStep
  <2> QED
    BY <2>1
<1>3. CASE Moves
  <2>1. /\ UNCHANGED <<ptp, probe, sent, packets>>
        /\ \/ stream \in {"idle", "waiting"} /\ stream' = "waiting"
           \/ stream = "waiting" /\ stream' = "reading" /\ Settled /\ UNCHANGED settling
           \/ stream = "reading" /\ stream' \in {"framed", "draining"} /\ UNCHANGED settling
    BY <1>3, MovesStep
  <2>2. CASE stream \in {"idle", "waiting"} /\ stream' = "waiting"
    BY <2>1, <2>2
  <2>3. CASE stream = "waiting" /\ stream' = "reading" /\ Settled /\ UNCHANGED settling
    BY <2>1, <2>3 DEF Settled
  <2>4. CASE stream = "reading" /\ stream' \in {"framed", "draining"} /\ UNCHANGED settling
    BY <2>1, <2>4
  <2> QED
    BY <2>1, <2>2, <2>3, <2>4
<1>4. CASE Keep
  BY <1>4, KeepIs
<1>5. CASE Send
  BY <1>5, SendIs
<1>6. CASE Resend
  BY <1>6, ResendIs
<1>7. CASE UNCHANGED vars
  BY <1>7 DEF vars, audio, setup, clock
<1> QED
  BY <1>1, <1>2, <1>3, <1>4, <1>5, <1>6, <1>7, SessionSteps

LEMMA WindowHeldStep ==
  ASSUME SessionType, Numbered, WindowHeld, [Next]_vars
  PROVE  WindowHeld'
<1> USE DEF WindowHeld
<1>1. CASE Aside \/ Resend \/ UNCHANGED vars
  BY <1>1, AsideSteps, ResendIs DEF vars, audio
<1>2. CASE Returns
  <2>1. UNCHANGED <<first, counter, packets>> /\ stream' = "returned"
    BY <1>2, ReturnsStep
  <2>2. counter \in Nat /\ Window \in Nat
    BY SessionAssumption DEF SessionType
  <2>3. (counter - Window + 1)..counter \subseteq (counter - Window)..counter
    BY <2>2
  <2> QED
    BY <2>1, <2>3
<1>3. CASE Moves
  BY <1>3, MovesStep
<1>4. CASE Keep
  <2> SUFFICES ASSUME NEW n \in DOMAIN packets'
               PROVE  /\ (first + packets'[n]) % Wrap = n
                      /\ packets'[n] \in (counter - Window + 1)..counter
    BY <1>4, KeepIs
  <2>1. /\ n \in DOMAIN packets \cup {seq} /\ n # (seq - Window) % Wrap
        /\ packets'[n] = IF n = seq THEN counter ELSE packets[n]
    BY <1>4, KeepIs
  <2>2. CASE n = seq
    BY <2>1, <2>2, SessionAssumption DEF Numbered, SessionType
  <2>3. CASE n # seq
    <3>1. /\ (first + packets[n]) % Wrap = n
          /\ packets[n] \in (counter - Window)..counter
      BY <1>4, <2>1, <2>3, KeepIs
    <3>2. packets[n] # counter - Window
      <4> SUFFICES ASSUME packets[n] = counter - Window PROVE FALSE
        OBVIOUS
      <4>1. /\ first + counter \in Int /\ -Window \in Int /\ Wrap \in Nat \ {0}
            /\ seq - Window = seq + (-Window)
            /\ first + packets[n] = (first + counter) + (-Window)
        BY SessionAssumption DEF SessionType, Numbered
      <4>2. (((first + counter) % Wrap) + (-Window)) % Wrap
              = ((first + counter) + (-Window)) % Wrap
        BY <4>1, ModAdd
      <4>3. (seq - Window) % Wrap = n
        BY <3>1, <4>1, <4>2 DEF Numbered
      <4> QED
        BY <2>1, <4>3
    <3> QED
      BY <2>1, <2>3, <3>1, <3>2, SessionAssumption DEF SessionType
  <2> QED
    BY <2>2, <2>3
<1>5. CASE Send
  BY <1>5, SendIs, SessionAssumption DEF SessionType
<1> QED
  BY <1>1, <1>2, <1>3, <1>4, <1>5, SessionSteps

LEMMA NoneAboveZero ==
  ASSUME NEW S \in SUBSET Nat, \A c \in S : c <= 0
  PROVE  S \subseteq {0}
OBVIOUS

LEMMA AudioSafe ==
  ASSUME SessionType, AudioInv
  PROVE  AudioIsSafe
<1>1. NothingReplayed
  <2>1. ASSUME outcome = "not started" PROVE sent \in SUBSET Nat /\ \A c \in sent : c <= 0
    BY <2>1 DEF AudioInv, NothingYet, NothingAhead, SessionType
  <2> QED
    BY <2>1, NoneAboveZero DEF NothingReplayed
<1>2. WindowIsRecent
  BY SessionAssumption DEF AudioInv, WindowHeld, WindowIsRecent, SessionType
<1>3. AudioAfterClock
  BY DEF AudioInv, ClockHeld, Begun, AudioAfterClock
<1> QED
  BY <1>1, <1>2, <1>3 DEF AudioIsSafe

\* A second attempt repeats no audio but a first packet that the receiver asked
\* for before it was sent, audio waits for the clock, and a receiver that asks
\* for a number gets the packet in hand or the one it was last sent under it,
\* wherever the numbers wrap.
THEOREM AudioIsSafeHolds == Spec => []AudioIsSafe
<1>1. SessionType /\ AudioInv /\ [Next]_vars => (SessionType /\ AudioInv)'
  BY TypeStep, NumberedStep, NothingYetStep, NothingAheadStep, ClockHeldStep, WindowHeldStep DEF AudioInv
<1> QED
  BY <1>1, TypeInit, AudioSafe, PTL DEF Spec

-----------------------------------------------------------------------------
(* The session ends as a whole.                                            *)

\* What holds until the end of SessionEnds, and from then on.
EndInv ==
  /\ goroutine \in [Goroutines -> {"none", "running", "gone"}]
  /\ step = "dial" => Quiet
  /\ step = "failed" /\ closing = "no" => Quiet
  /\ closing = "wait" => open = {}
  /\ closing = "closed" => Quiet

\* Only Connect, before Close, opens or starts anything.
Shrinks ==
  /\ open' \subseteq open
  /\ \A g \in Goroutines : goroutine'[g] = "running" => goroutine[g] = "running"
  /\ goroutine' \in [Goroutines -> {"none", "running", "gone"}]

LEMMA AfterIsNotDial ==
  ASSUME Connecting
  PROVE  After(step) # "dial" /\ After(step) # "failed"
<1>1. CASE legacy
  BY <1>1 DEF Connecting, After, Steps
<1>2. CASE ~legacy
  BY <1>2 DEF Connecting, After, Steps
<1> QED
  BY <1>1, <1>2

LEMMA OthersShrink ==
  ASSUME EndInv, [Next]_vars, ~Connect
  PROVE  Shrinks
<1> USE DEF EndInv, Shrinks
<1>1. CASE ConnectFails \/ Cancel
  BY <1>1 DEF ConnectFails, Cancel
<1>2. ASSUME NEW p \in Requesters, Request(p) \/ Reply(p) \/ Fails(p)
      PROVE  Shrinks
  BY <1>2 DEF Request, Reply, Fails, Release, setup, Goroutines, Requesters
<1>3. CASE FeedbackLeaves \/ EventsEnd \/ RetransmitsLeaves \/ Resend
  BY <1>3 DEF FeedbackLeaves, EventsEnd, RetransmitsLeaves, Resend, Gone, setup, Goroutines
<1>4. CASE Receiver \/ ClockFails
  BY <1>4 DEF Receiver, Answer, Probe, Age, ClockFails, setup
<1>5. CASE Stream \/ Settle \/ Streaming
  BY <1>5 DEF Stream, Settle, Streaming, WaitForClock, WaitEnds, Read, ReadNothing, ReadFails,
     Keep, Send, SendFails, Drained, Go, Return, setup
<1>6. CASE BeginClose \/ Close
  BY <1>6 DEF BeginClose, Close, Teardown, TeardownEnds, CloseConn, CloseRest, Closed, setup
<1>7. CASE UNCHANGED vars
  BY <1>7 DEF vars, setup
<1> QED
  BY <1>1, <1>2, <1>3, <1>4, <1>5, <1>6, <1>7 DEF Next

LEMMA OthersStay ==
  ASSUME [Next]_vars, ~Connect
  PROVE  ConnectFails \/ BeginClose \/ Close \/ UNCHANGED <<step, closing>>
<1>1. ASSUME NEW p \in Requesters, Request(p) \/ Reply(p) \/ Fails(p)
      PROVE  UNCHANGED <<step, closing>>
  BY <1>1 DEF Request, Reply, Fails, Release, setup
<1>2. CASE Cancel \/ FeedbackLeaves \/ EventsEnd \/ RetransmitsLeaves \/ Resend
  BY <1>2 DEF Cancel, FeedbackLeaves, EventsEnd, RetransmitsLeaves, Resend, Gone, setup
<1>3. CASE Receiver \/ ClockFails
  BY <1>3 DEF Receiver, Answer, Probe, Age, ClockFails, setup
<1>4. CASE Stream \/ Settle \/ Streaming
  BY <1>4 DEF Stream, Settle, Streaming, WaitForClock, WaitEnds, Read, ReadNothing, ReadFails,
     Keep, Send, SendFails, Drained, Go, Return, setup
<1>5. CASE UNCHANGED vars
  BY <1>5 DEF vars, setup
<1> QED
  BY <1>1, <1>2, <1>3, <1>4, <1>5 DEF Next

LEMMA EndStep ==
  ASSUME EndInv, [Next]_vars
  PROVE  EndInv'
<1>1. CASE Connect
  <2>1. /\ Connecting /\ closing = "no" /\ closing' = "no" /\ step' = After(step)
        /\ goroutine' \in [Goroutines -> {"none", "running", "gone"}]
    BY <1>1 DEF Connect, Running, EndInv, Goroutines
  <2> QED
    BY <2>1, AfterIsNotDial DEF EndInv
<1>2. CASE ~Connect
  <2>1. Shrinks
    BY <1>2, OthersShrink
  <2>2. Quiet => Quiet'
    BY <2>1 DEF Shrinks, Quiet
  <2>3. CASE ConnectFails
    BY <2>2, <2>3 DEF ConnectFails, CloseSession, EndInv, Quiet
  <2>4. CASE BeginClose \/ Teardown \/ TeardownEnds \/ CloseConn \/ CloseRest \/ Closed
    BY <2>1, <2>2, <2>4 DEF BeginClose, Teardown, TeardownEnds, CloseConn, CloseRest, Closed,
       EndInv, Quiet, Shrinks, setup
  <2>5. CASE UNCHANGED <<step, closing>>
    BY <2>1, <2>2, <2>5 DEF EndInv, Shrinks
  <2> QED
    BY <1>2, <2>3, <2>4, <2>5, OthersStay DEF Close
<1> QED
  BY <1>1, <1>2

\* A set-up that fails is closed unless nothing was opened, and after Close no
\* socket, clock or goroutine is left, whatever comes late.
THEOREM SessionStaysEnded ==
  Spec => [](/\ step = "failed" => closing # "no" \/ Quiet
             /\ closing = "closed" => Quiet)
<1>1. Init => EndInv
  BY DEF Init, EndInv, Quiet, Goroutines
<1>2. EndInv => /\ step = "failed" => closing # "no" \/ Quiet
                /\ closing = "closed" => Quiet
  BY DEF EndInv
<1> QED
  BY <1>1, <1>2, EndStep, PTL DEF Spec
=============================================================================
