--------------------------- MODULE ResponseStream ---------------------------
(***************************************************************************)
(* The body of one proxied response (logged_response_stream in proxy.rs):  *)
(* chunks of the upstream are passed on to the client while a detector     *)
(* looks for the terminal event over them and a capture keeps their tail.  *)
(* When the terminal event is complete the request is logged and its       *)
(* account released, before the client gets the chunk that completes it.   *)
(*                                                                         *)
(* Bytes are letters, the markers of terminal events a few short words of  *)
(* them; where the upstream cuts its stream into chunks is arbitrary.      *)
(* Every await is a step, and the client may go away at any of them.       *)
(***************************************************************************)
EXTENDS Integers, Sequences, FiniteSets

CONSTANTS
    Bytes,
    Streams,        \* the byte sequences the upstream may send
    Markers,        \* PATTERNS: word -> the outcome it announces
    NL, CR,         \* line feed and carriage return
    None,
    MarkerCarry,    \* bytes kept while no marker is found, 64 in the code
    Capacity        \* SSE_CAPTURE_LIMIT

ASSUME StreamAssumption ==
    /\ Capacity \in Nat \ {0} /\ MarkerCarry \in Nat
    /\ NL \in Bytes /\ CR \in Bytes
    /\ \A bytes \in Streams : bytes \in Seq(Bytes)
    /\ \A word \in DOMAIN Markers :
         word \in Seq(Bytes) /\ Len(word) \in 1..(MarkerCarry + 1) /\ Markers[word] # None

VARIABLES
    stream,     \* what the upstream has to send
    received,   \* how much of it has arrived
    forwarded,  \* how much of it the client has
    chunk,      \* the bytes in hand
    detector,   \* SseTerminalDetector
    reported,   \* the outcome it has reported
    capture,    \* TailCapture
    phase,      \* read, bind, log, yield, finish or fail: the await it is in; ended or dropped
    failed,     \* the upstream broke off
    log,        \* request_logs: the outcomes written for this request
    lost,       \* how many inserts of its log have failed
    releases    \* how often the account has been released

vars == <<stream, received, forwarded, chunk, detector, reported, capture, phase, failed, log, lost, releases>>

-----------------------------------------------------------------------------
LastBytes(bytes, limit) ==
    SubSeq(bytes, Len(bytes) - (IF limit < Len(bytes) THEN limit ELSE Len(bytes)) + 1, Len(bytes))

\* Mutant: one byte is kept, as if two line feeds were the only boundary.
OneByte == 1

\* Enough for all but the last byte of a boundary.
BoundaryCarry == 3

At(bytes, position, word) ==
    /\ position + Len(word) - 1 <= Len(bytes)
    /\ SubSeq(bytes, position, position + Len(word) - 1) = word

Occurs(bytes, word) == \E p \in 1..Len(bytes) : At(bytes, p, word)

\* None of PATTERNS is part of another.
ASSUME MarkersAssumption ==
    \A word, other \in DOMAIN Markers : Occurs(word, other) => word = other

\* contains_sse_boundary
HasBoundary(bytes) == Occurs(bytes, <<NL, NL>>) \/ Occurs(bytes, <<CR, NL, CR, NL>>)

\* find_sse_terminal: the markers and where they are; the first one counts.
MarkersIn(bytes) ==
    {m \in (1..Len(bytes)) \X DOMAIN Markers : At(bytes, m[1], m[2])}
First(found) == CHOOSE m \in found : \A other \in found : m[1] <= other[1]

Detector == [carry |-> <<>>, pending |-> None, fired |-> None]

\* SseTerminalDetector::observe
Observe(d, bytes) ==
    LET combined == d.carry \o bytes
        found == MarkersIn(combined)
        outcome == IF d.pending # None THEN d.pending ELSE Markers[First(found)[2]]
        after == IF d.pending # None THEN combined
                 ELSE SubSeq(combined, First(found)[1], Len(combined))
    IN  IF d.pending = None /\ found = {}
        THEN [Detector EXCEPT !.carry = LastBytes(combined, MarkerCarry)]
        ELSE IF HasBoundary(after) THEN [Detector EXCEPT !.fired = outcome]
        ELSE [Detector EXCEPT !.pending = outcome, !.carry = LastBytes(after, BoundaryCarry)]

\* Mutant: the start of the ring stays where it is.
StartKept(start, written) == start

StartAfter(start, written) == (start + written) % Capacity

\* TailCapture::push; the buffer is a ring once it is full.
Push(c, bytes) ==
    LET room == Capacity - Len(c.buffer)
        append == IF Len(bytes) < room THEN Len(bytes) ELSE room
        filled == c.buffer \o SubSeq(bytes, 1, append)
        rest == SubSeq(bytes, append + 1, Len(bytes))
        Offset(i) == (i - 1 - c.start + Capacity) % Capacity
    IN  IF Len(bytes) >= Capacity THEN [buffer |-> LastBytes(bytes, Capacity), start |-> 0]
        ELSE IF rest = <<>> THEN [c EXCEPT !.buffer = filled]
        ELSE [buffer |-> [i \in 1..Capacity |->
                             IF Offset(i) < Len(rest) THEN rest[Offset(i) + 1] ELSE filled[i]],
              start |-> StartAfter(c.start, Len(rest))]

\* TailCapture::to_vec
Captured(c) == SubSeq(c.buffer, c.start + 1, Len(c.buffer)) \o SubSeq(c.buffer, 1, c.start)

-----------------------------------------------------------------------------
Sofar == SubSeq(stream, 1, received)

Init ==
    /\ stream \in Streams
    /\ received = 0 /\ forwarded = 0 /\ chunk = <<>>
    /\ detector = Detector /\ reported = None
    /\ capture = [buffer |-> <<>>, start |-> 0]
    /\ phase = "read" /\ failed = FALSE
    /\ log = <<>> /\ lost = 0 /\ releases = 0

\* Mutant: the chunk is passed on first.
YieldsFirst(fired) == "yield"

PhaseAfter(fired) == IF fired # None THEN "bind" ELSE "yield"

\* The next chunk arrives; a detector that has fired is not asked again.
Receive(length) ==
    LET bytes == SubSeq(stream, received + 1, received + length)
        observed == Observe(detector, bytes)
    IN  /\ phase = "read"
        /\ received + length <= Len(stream)
        /\ received' = received + length
        /\ chunk' = bytes
        /\ capture' = Push(capture, bytes)
        /\ IF reported = None
           THEN /\ detector' = [observed EXCEPT !.fired = None]
                /\ reported' = observed.fired
                /\ phase' = PhaseAfter(observed.fired)
           ELSE phase' = "yield" /\ UNCHANGED <<detector, reported>>
        /\ UNCHANGED <<stream, forwarded, failed, log, lost, releases>>

\* bind_response_affinity, when the capture has the id of a response
Bind ==
    /\ phase = "bind"
    /\ phase' = "log"
    /\ UNCHANGED <<stream, received, forwarded, chunk, detector, reported, capture, failed, log, lost, releases>>

\* log_request: the row is inserted, or the statement fails, as when the account has been
\* deleted meanwhile, and the stream goes on with a warning.
LogRequest(outcome) ==
    \/ log' = Append(log, outcome) /\ UNCHANGED lost
    \/ lost' = lost + 1 /\ UNCHANGED log

\* The log and the release of the account, which follows it without an await.
Log ==
    /\ phase = "log"
    /\ LogRequest(reported)
    /\ releases' = releases + 1
    /\ phase' = "yield"
    /\ UNCHANGED <<stream, received, forwarded, chunk, detector, reported, capture, failed>>

\* The client takes the chunk.
Yield ==
    /\ phase = "yield"
    /\ forwarded' = forwarded + Len(chunk)
    /\ chunk' = <<>>
    /\ phase' = "read"
    /\ UNCHANGED <<stream, received, detector, reported, capture, failed, log, lost, releases>>

\* Mutant: the end of the stream is logged, whether or not its terminal event was.
AlwaysLogs == TRUE

Unsettled == reported = None

\* The upstream has sent everything, or breaks off.
UpstreamEnds ==
    /\ phase = "read"
    /\ failed' \in {FALSE, TRUE}
    /\ received < Len(stream) => failed'
    /\ phase' = IF Unsettled THEN "finish" ELSE IF failed' THEN "fail" ELSE "ended"
    /\ UNCHANGED <<stream, received, forwarded, chunk, detector, reported, capture, log, lost, releases>>

\* A stream without a complete terminal event is logged for how it ended.
Finish ==
    /\ phase = "finish"
    /\ LogRequest(IF failed THEN "upstream_stream_error" ELSE "success")
    /\ releases' = releases + 1
    /\ phase' = IF failed THEN "fail" ELSE "ended"
    /\ UNCHANGED <<stream, received, forwarded, chunk, detector, reported, capture, failed>>

\* The client gets the error.
Fail ==
    /\ phase = "fail"
    /\ phase' = "ended"
    /\ UNCHANGED <<stream, received, forwarded, chunk, detector, reported, capture, failed, log, lost, releases>>

\* The lease is still in its place: nothing has taken it out to release it.
LeaseHeld == releases = 0

\* The client goes away: the stream is dropped at the await it is in, its lease with it.
Drop ==
    /\ phase \notin {"ended", "dropped"}
    /\ phase' = "dropped"
    /\ releases' = IF LeaseHeld THEN releases + 1 ELSE releases
    /\ UNCHANGED <<stream, received, forwarded, chunk, detector, reported, capture, failed, log, lost>>

OwnStep == Bind \/ Log \/ Yield \/ Finish \/ Fail

Next ==
    \/ \E length \in 1..(Len(stream) - received) : Receive(length)
    \/ UpstreamEnds
    \/ OwnStep
    \/ Drop

Spec == Init /\ [][Next]_vars

\* A client that stays reads on, and the database answers; the upstream owes nothing.
Fairness == WF_vars(OwnStep)

FairSpec == Spec /\ Fairness

-----------------------------------------------------------------------------
(***************************************************************************)
(* Properties.                                                             *)
(***************************************************************************)
\* The terminal event of a stream: its first marker, once a blank line has followed it.
Terminal(bytes) ==
    LET found == MarkersIn(bytes)
    IN  IF found # {} /\ HasBoundary(SubSeq(bytes, First(found)[1], Len(bytes)))
        THEN Markers[First(found)[2]] ELSE None

\* However the stream is cut, the detector reports exactly the terminal event that the
\* bytes in one piece have, with the chunk that completes it.
DetectorSeesWholeStream == reported = Terminal(Sofar)

\* The capture is the tail of all that has arrived, in its order, across every wrap.
CaptureIsTail == Captured(capture) = LastBytes(Sofar, Capacity)

\* A client that has its terminal event, and may go away with it, leaves an account that
\* is free and a request that is logged with that event, or whose insert has failed: no
\* failure of the log keeps the account or lets a later one take its place.
SettledBeforeClientKnows ==
    Terminal(SubSeq(stream, 1, forwarded)) # None =>
        /\ releases = 1
        /\ \/ log = <<Terminal(SubSeq(stream, 1, forwarded))>> /\ lost = 0
           \/ log = <<>> /\ lost = 1

\* One insert of a log is tried for a request and its account released exactly once, however
\* the stream ends and whether or not the insert works; only a client that went away leaves
\* a request for which none was tried.
AccountedOnce ==
    /\ Len(log) + lost <= 1 /\ releases <= 1
    /\ phase = "ended" => Len(log) + lost = 1 /\ releases = 1
    /\ phase = "dropped" => releases = 1

\* An upstream that falls silent after its terminal event does not keep the account.
TerminalFrees == (Terminal(Sofar) # None) ~> (releases = 1)
=============================================================================
