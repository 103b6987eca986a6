--------------------------- MODULE AirPlaySession ---------------------------
(***************************************************************************)
(* One session with an AirPlay receiver (internal/airplay session.go,      *)
(* raop.go, clock.go, wire.go): how it is set up and what a failed set-up  *)
(* leaves, the goroutines that serve the receiver while audio is sent, the *)
(* control channel they share, and how all of it ends.                     *)
(*                                                                         *)
(* A packet of audio is the number it has in the stream, which is also the *)
(* nonce it is sealed with; the number it has on the wire wraps. Times are *)
(* left out but for their order: a timer may fire at any moment, and does  *)
(* fire. What the receiver does is any choice: it may answer, or not, or   *)
(* hang up, and it may ask for any packet again, even for one that is not  *)
(* sent yet.                                                               *)
(***************************************************************************)
EXTENDS Integers, Sequences, FiniteSets

CONSTANTS
  Wrap,         \* sequence numbers of packets: 2^16 in the code
  Window,       \* packets kept for retransmission: 512
  First,        \* sequence numbers a stream may begin with
  MaxFrames,    \* bound on the packets of a stream
  MaxRequests   \* bound on the control requests of a behaviour

ASSUME SessionAssumption ==
  /\ Wrap \in Nat \ {0} /\ Window \in 1..(Wrap - 1)
  /\ First \subseteq 0..(Wrap - 1) /\ MaxFrames \in Nat /\ MaxRequests \in Nat

VARIABLES
  legacy,     \* AirPlay 1; never changes
  step,       \* the step of the set-up, "connected" after the last, or "failed"
  open,       \* the sockets and the clock that are open
  ptp,        \* the clock is PTP, not NTP
  active,     \* Session.active: the receiver has allocated a session
  cancelled,  \* the context of Connect and Stream
  failure,    \* Session.failure: "none", "eof" or "other"
  goroutine,  \* events, feedback and retransmits: "none", "running", "gone"
  closing,    \* Close: "no", "begun", "teardown", "conn", "rest", "wait", "closed"
  lock,       \* control.mu: who holds it, or "free"
  cseq,       \* control.seq, from the end of the set-up on
  asked,      \* requests the receiver has not answered
  replies,    \* answers that nobody has read
  probe,      \* clockServer.lastProbe: "never", "fresh", or "stale" after 5 s
  settling,   \* firstProbe: "no", "yes", or "done" after 2.5 s
  stream,     \* where Stream is
  outcome,    \* what it returned
  first, seq, counter,  \* the first and the next number; packets sent
  last,       \* the packet in hand is the last of the stream
  packets,    \* Session.packets: number on the wire -> packet
  sent        \* packets that went out, from Stream or on request

setup == <<legacy, step, open, ptp, active, cancelled>>
channel == <<lock, cseq, asked, replies>>
clock == <<probe, settling>>
audio == <<stream, outcome, first, seq, counter, last, packets, sent>>
vars == <<setup, failure, goroutine, closing, channel, clock, audio>>

Goroutines == {"events", "feedback", "retransmits"}
Requesters == {"feedback", "caller"}
NoPackets == [n \in {} |-> 0]

Steps ==
  IF legacy THEN <<"dial", "options", "clock", "data", "rtcp", "announce", "setup", "record">>
  ELSE <<"dial", "authenticate", "clock", "data", "rtcp", "setup", "event", "record",
         "peers", "streams">>
Exchanges == {"authenticate", "options", "announce", "setup", "record", "peers", "streams"}

Init ==
  /\ legacy \in BOOLEAN
  /\ step = "dial" /\ open = {} /\ ptp = FALSE /\ active = FALSE /\ cancelled = FALSE
  /\ failure = "none" /\ goroutine = [g \in Goroutines |-> "none"] /\ closing = "no"
  /\ lock = "free" /\ cseq = 0 /\ asked = <<>> /\ replies = <<>>
  /\ probe = "never" /\ settling = "no"
  /\ stream = "idle" /\ outcome = "none"
  /\ first \in First /\ seq = first /\ counter = 0 /\ last = FALSE
  /\ packets = NoPackets /\ sent = {}

-----------------------------------------------------------------------------
(* Connect and connectRAOP. Until they return nobody else has the session:  *)
(* the exchanges of a step are one step, which succeeds or not.             *)

Connecting == step \in {Steps[i] : i \in DOMAIN Steps}

After(s) ==
  LET i == CHOOSE i \in DOMAIN Steps : Steps[i] = s
  IN  IF i = Len(Steps) THEN "connected" ELSE Steps[i + 1]

Running(g) == [goroutine EXCEPT ![g] = "running"]

\* A step succeeds. A receiver without an event port has no event channel; one
\* with an NTP clock is told of no peers.
Connect ==
  /\ Connecting /\ closing = "no"
  /\ step \in Exchanges => "ctrl" \in open
  /\ step' = After(step)
  /\ open' \in CASE step = "dial" -> {open \cup {"ctrl"}}
                 [] step \in {"clock", "data", "rtcp"} -> {open \cup {step}}
                 [] step = "event" -> {open, open \cup {"event"}}
                 [] OTHER -> {open}
  /\ ptp' \in IF step = "clock" /\ ~legacy THEN BOOLEAN ELSE {ptp}
  /\ active' = (active \/ step = "setup")
  /\ goroutine' =
       IF "event" \in open' \ open THEN Running("events")
       ELSE IF step' = "connected"
       THEN [goroutine EXCEPT !["feedback"] = "running", !["retransmits"] = "running"]
       ELSE goroutine
  /\ UNCHANGED <<legacy, cancelled, failure, closing, channel, clock, audio>>

\* A step fails, and what there is is closed: the session that the deferred
\* function was given, not the result, which is nil by now. Without a
\* connection there is no session.
CloseResult == "no"
CloseSession == IF step = "dial" THEN "no" ELSE "begun"

ConnectFails ==
  /\ Connecting
  /\ step' = "failed"
  /\ closing' = CloseSession
  /\ UNCHANGED <<legacy, open, ptp, active, cancelled, failure, goroutine, channel, clock, audio>>

\* The context ends: while connecting, this closes the connection.
Cancel ==
  /\ ~cancelled /\ cancelled' = TRUE
  /\ open' = IF Connecting THEN open \ {"ctrl"} ELSE open
  /\ UNCHANGED <<legacy, step, ptp, active, failure, goroutine, closing, channel, clock, audio>>

-----------------------------------------------------------------------------
(* control.request: one at a time, with a time limit. A request that has    *)
(* timed out leaves its answer to be read by the next.                      *)

Fail(e) == failure' = IF failure = "none" THEN e ELSE failure

Write ==
  /\ cseq' = cseq + 1
  /\ asked' = IF "ctrl" \in open THEN Append(asked, cseq + 1) ELSE asked

\* feedback asks every five seconds; a caller sets the volume, sends metadata,
\* or tears the session down before it closes it (Stop).
Request(p) ==
  /\ step = "connected" /\ lock = "free" /\ cseq < MaxRequests
  /\ p = "feedback" => goroutine[p] = "running"
  /\ lock' = p
  /\ Write
  /\ UNCHANGED <<setup, failure, goroutine, closing, replies, clock, audio>>

\* The end of a request, with one of the errors: only a failed feedback fails
\* the session.
Release(p, errors) ==
  /\ lock' = "free"
  /\ IF p = "feedback" /\ errors # {}
     THEN (\E e \in errors : Fail(e)) /\ goroutine' = [goroutine EXCEPT ![p] = "gone"]
     ELSE UNCHANGED <<failure, goroutine>>
  /\ UNCHANGED <<setup, closing, cseq, asked, clock, audio>>

Reply(p) ==
  /\ lock = p /\ replies # <<>> /\ "ctrl" \in open
  /\ replies' = Tail(replies)
  /\ \E refused \in BOOLEAN :
       Release(p, IF refused \/ Head(replies) # cseq THEN {"other"} ELSE {})

\* The time is up, or the connection is gone: a receiver that hangs up leaves
\* the end of the stream to be read.
Fails(p) ==
  /\ lock = p
  /\ replies = <<>> \/ "ctrl" \notin open
  /\ Release(p, {"eof", "other"})
  /\ UNCHANGED replies

Answer ==
  /\ asked # <<>>
  /\ asked' = Tail(asked) /\ replies' = Append(replies, Head(asked))
  /\ UNCHANGED <<setup, failure, goroutine, closing, lock, cseq, clock, audio>>

-----------------------------------------------------------------------------
(* The goroutines of a session.                                             *)

Done == closing # "no"
Gone(g) == goroutine' = [goroutine EXCEPT ![g] = "gone"]

\* feedback leaves when the session is closed, if it is not in a request.
FeedbackLeaves ==
  /\ goroutine["feedback"] = "running" /\ lock # "feedback" /\ Done
  /\ Gone("feedback")
  /\ UNCHANGED <<setup, failure, closing, channel, clock, audio>>

\* The event channel ends. If the session is not closing that is a failure:
\* the receiver hung up ("eof"), or the channel broke.
EventsEnd ==
  /\ goroutine["events"] = "running"
  /\ Gone("events")
  /\ IF Done THEN UNCHANGED failure ELSE \E e \in {"eof", "other"} : Fail(e)
  /\ UNCHANGED <<setup, closing, channel, clock, audio>>

\* A receiver asks for a number at any time and gets what is kept under it: also
\* the packet in hand, which Stream has kept and not sent yet.
Resend ==
  /\ goroutine["retransmits"] = "running" /\ {"rtcp", "data"} \subseteq open
  /\ \E n \in DOMAIN packets : sent' = sent \cup {packets[n]}
  /\ UNCHANGED <<setup, failure, goroutine, closing, channel, clock, stream, outcome, first, seq,
                 counter, last, packets>>

\* It leaves when its socket is closed, or when sending fails.
RetransmitsLeaves ==
  /\ goroutine["retransmits"] = "running"
  /\ \/ "rtcp" \notin open /\ UNCHANGED failure
     \/ DOMAIN packets # {} /\ Fail("other")
  /\ Gone("retransmits")
  /\ UNCHANGED <<setup, closing, channel, clock, audio>>

\* clockServer: an exchange with the receiver, five seconds without one, a
\* broken transport.
Probe ==
  /\ "clock" \in open /\ probe' = "fresh"
  /\ UNCHANGED <<setup, failure, goroutine, closing, channel, settling, audio>>
Age ==
  /\ probe = "fresh" /\ ptp /\ probe' = "stale"
  /\ UNCHANGED <<setup, failure, goroutine, closing, channel, settling, audio>>
ClockFails ==
  /\ "clock" \in open /\ ~Done /\ step = "connected" /\ Fail("other")
  /\ UNCHANGED <<setup, goroutine, closing, channel, clock, audio>>

-----------------------------------------------------------------------------
(* Stream                                                                   *)

\* Nothing was sent and the receiver hung up: one fresh session is allowed.
\* The mutant looks at the failure alone.
AnyFailure(r) == IF failure = "eof" /\ ~cancelled THEN "not started" ELSE r
Returned(r) ==
  IF counter = 0 /\ failure = "eof" /\ ~cancelled THEN "not started" ELSE r

Return(r) ==
  /\ stream' = "returned" /\ outcome' = Returned(r)
  /\ UNCHANGED <<setup, failure, goroutine, closing, channel, clock, first, seq, counter, last,
                 packets, sent>>

Go(to) ==
  /\ stream' = to
  /\ UNCHANGED <<setup, failure, goroutine, closing, channel, probe, outcome, first, seq, counter,
                 packets, sent>>

Stream ==
  /\ step = "connected" /\ stream = "idle"
  /\ Go("waiting") /\ UNCHANGED <<settling, last>>

\* waitForClock: a PTP clock must be fresh for a while, an NTP clock answer once.
Settled == probe # "never" /\ (~ptp \/ (probe = "fresh" /\ settling = "done"))

WaitForClock ==
  /\ stream = "waiting" /\ failure = "none"
  /\ IF Settled THEN Go("reading") /\ UNCHANGED <<settling, last>>
     ELSE /\ settling' = IF probe # "fresh" THEN "no" ELSE IF settling = "no" THEN "yes" ELSE settling
          /\ Go("waiting") /\ UNCHANGED last

Settle ==
  /\ stream = "waiting" /\ settling = "yes" /\ settling' = "done"
  /\ UNCHANGED <<setup, failure, goroutine, closing, channel, probe, audio>>

\* Eight seconds are over, or the session has failed, or the context has ended.
WaitEnds ==
  /\ stream = "waiting"
  /\ Return(IF failure # "none" THEN "failed" ELSE IF cancelled THEN "cancelled" ELSE "timing")

\* The top of the loop, and the next frame: a whole one, the last, none, or an
\* error of the decoder.
Stopped == cancelled \/ failure # "none" \/ (ptp /\ probe = "stale")

Read ==
  /\ stream = "reading" /\ ~Stopped /\ counter < MaxFrames
  /\ last' \in BOOLEAN
  /\ Go("framed") /\ UNCHANGED settling

ReadNothing ==
  /\ stream = "reading" /\ ~Stopped
  /\ IF counter = 0 THEN Return("no audio") ELSE Go("draining") /\ UNCHANGED <<settling, last>>

ReadFails == stream = "reading" /\ Return(IF cancelled THEN "cancelled" ELSE "failed")

\* Waits for its time and sends the sync packet; then the packet is kept for
\* retransmission, under the mutex, and what is a window behind is dropped.
DropOldest(kept) ==
  LET old == (seq - Window) % Wrap
  IN  [n \in DOMAIN kept \ {old} |-> kept[n]]

Keep ==
  /\ stream = "framed" /\ ~cancelled
  /\ packets' = DropOldest([n \in DOMAIN packets \cup {seq} |->
                              IF n = seq THEN counter ELSE packets[n]])
  /\ stream' = "kept"
  /\ UNCHANGED <<setup, failure, goroutine, closing, channel, clock, outcome, first, seq, counter,
                 last, sent>>

Send ==
  /\ stream = "kept" /\ "data" \in open
  /\ sent' = sent \cup {counter}
  /\ seq' = (seq + 1) % Wrap
  /\ counter' = counter + 1
  /\ stream' = IF last THEN "draining" ELSE "reading"
  /\ UNCHANGED <<setup, failure, goroutine, closing, channel, clock, outcome, first, last, packets>>

\* Cancelled, too late (an underrun), or a socket fails.
SendFails ==
  /\ stream \in {"framed", "kept"}
  /\ Return(IF cancelled THEN "cancelled" ELSE "failed")

\* All is sent: the end of the audio, unless the session fails before.
Drained ==
  /\ stream = "draining"
  /\ Return(IF failure # "none" THEN "failed" ELSE IF cancelled THEN "cancelled" ELSE "played")

-----------------------------------------------------------------------------
(* Close, once.                                                             *)

BeginClose ==
  /\ step = "connected" /\ closing = "no" /\ closing' = "begun"
  /\ UNCHANGED <<setup, failure, goroutine, channel, clock, audio>>

\* TEARDOWN is sent only if the control channel is free.
Teardown ==
  /\ closing = "begun"
  /\ IF active /\ lock = "free"
     THEN closing' = "teardown" /\ lock' = "closer" /\ Write
     ELSE closing' = "conn" /\ UNCHANGED <<lock, cseq, asked>>
  /\ UNCHANGED <<setup, failure, goroutine, replies, clock, audio>>

\* An answer, half a second, or a broken connection.
TeardownEnds ==
  /\ closing = "teardown" /\ closing' = "conn" /\ lock' = "free"
  /\ UNCHANGED <<setup, failure, goroutine, cseq, asked, replies, clock, audio>>

CloseConn ==
  /\ closing = "conn" /\ closing' = "rest" /\ open' = open \ {"ctrl"}
  /\ UNCHANGED <<legacy, step, ptp, active, cancelled, failure, goroutine, channel, clock, audio>>

CloseRest ==
  /\ closing = "rest" /\ closing' = "wait" /\ open' = {}
  /\ UNCHANGED <<legacy, step, ptp, active, cancelled, failure, goroutine, channel, clock, audio>>

Closed ==
  /\ closing = "wait" /\ \A g \in Goroutines : goroutine[g] # "running"
  /\ closing' = "closed"
  /\ UNCHANGED <<setup, failure, goroutine, channel, clock, audio>>

-----------------------------------------------------------------------------

Close == Teardown \/ TeardownEnds \/ CloseConn \/ CloseRest \/ Closed
Streaming ==
  \/ WaitForClock \/ WaitEnds \/ Read \/ ReadNothing \/ ReadFails
  \/ Keep \/ Send \/ SendFails \/ Drained
Receiver == Answer \/ Probe \/ Age

Next ==
  \/ Connect \/ ConnectFails \/ Cancel
  \/ \E p \in Requesters : Request(p) \/ Reply(p) \/ Fails(p)
  \/ FeedbackLeaves \/ EventsEnd \/ Resend \/ RetransmitsLeaves
  \/ Receiver \/ ClockFails
  \/ Stream \/ Settle \/ Streaming
  \/ BeginClose \/ Close

Spec == Init /\ [][Next]_vars

\* Connect proceeds, requests end, goroutines notice what ends them, and Close
\* proceeds: each by itself or by a timer. Nothing is asked of the receiver.
FairSpec ==
  /\ Spec
  /\ WF_vars(Connect \/ ConnectFails)
  /\ \A p \in Requesters : WF_vars(Reply(p) \/ Fails(p))
  /\ WF_vars(FeedbackLeaves) /\ WF_vars(EventsEnd /\ Done)
  /\ WF_vars(RetransmitsLeaves /\ "rtcp" \notin open)
  /\ WF_vars(WaitEnds) /\ WF_vars(Read \/ ReadNothing \/ ReadFails) /\ WF_vars(Keep \/ SendFails)
  /\ WF_vars(Send \/ SendFails) /\ WF_vars(Drained)
  /\ WF_vars(Close)

-----------------------------------------------------------------------------

\* A second attempt repeats no audio that was sent: Stream sent none, and the
\* receiver has at most the first packet, which it asked for itself between its
\* being kept and its being sent (session.go:358-369, 427-431).
NothingReplayed == outcome = "not started" => sent \subseteq {0}

\* No audio before the receiver has the clock (session.go:322-356).
AudioAfterClock == sent # {} => probe # "never" /\ (ptp => settling = "done")

\* What is kept for retransmission is the packet in hand or what was sent under
\* that number last, and no more than a window ago, although numbers wrap
\* (session.go:427-434).
WindowIsRecent ==
  \A n \in DOMAIN packets :
    /\ packets[n] > counter - Window - 1 /\ packets[n] <= counter
    /\ (first + packets[n]) % Wrap = n

\* What the receiver hears is in order of these three: after its clock has
\* settled, not again by a second session, and on request only from the window.
AudioIsSafe == NothingReplayed /\ AudioAfterClock /\ WindowIsRecent

\* A session ends as a whole. A set-up that fails leaves no socket, clock or
\* goroutine, at whichever step it fails; and Close, whatever the goroutines
\* are doing and even while a request holds the control channel, ends all of
\* them and the stream, without an answer from the receiver
\* (session.go:75-79, 475-499).
Quiet == open = {} /\ \A g \in Goroutines : goroutine[g] # "running"
SessionEnds ==
  /\ (step = "failed") ~> Quiet
  /\ Done ~> (closing = "closed" /\ Quiet /\ stream \in {"idle", "returned"})
=============================================================================
