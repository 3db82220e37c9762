------------------------------- MODULE Stream -------------------------------
(***************************************************************************)
(* One POST /v1/stream after the request has passed authentication, limits *)
(* and the input guardrails: the sliding window (streaming/window.go), the *)
(* windowWriter and the second half of handleStream (gateway/gateway.go)   *)
(* and the two provider adapters that drive them (provider/mock.go,        *)
(* provider/openai_compat.go).                                             *)
(*                                                                         *)
(* Upstream bytes are offered to windowWriter.Write one chunk at a time.   *)
(* The mock adapter copies the body with io.Copy, so a chunk can end       *)
(* anywhere; the OpenAI adapter writes one whole "data: x\n\n" frame per   *)
(* call and ignores what Write returns.  The client's connection can break *)
(* at any moment, the upstream can fail at any moment.                     *)
(***************************************************************************)
EXTENDS OutScanner

CONSTANTS
    Upstreams,    \* what the provider may send: [text, ends, code] records,
                  \* ends being the positions where a frame of text ends
    Adapters,     \* the provider adapters the gateway may be configured with
    WindowSize,   \* cfg.WindowSize, any integer the environment holds
    NetBuf        \* bytes net/http buffers for a response before it sends them

DefaultWindow == 512

Size == IF WindowSize <= 0 THEN DefaultWindow ELSE WindowSize

ASSUME StreamAssumption ==
    /\ \A u \in Upstreams :
           /\ u.text \in Seq(Byte)
           /\ u.ends \subseteq 1..Len(u.text)
           /\ Len(u.text) > 0 => Len(u.text) \in u.ends
           /\ u.code \in Nat
    /\ Adapters \subseteq {"mock", "openai"}
    /\ WindowSize \in Int
    /\ NetBuf \in Nat

\* handleStream asserts http.Flusher on the responseWriter that withMiddleware
\* wraps around the connection's writer; that type has no Flush method.
canFlush == FALSE

VARIABLES
    up,         \* what this request's provider sends
    adapter,    \* the configured adapter
    pc,         \* where handleStream is
    status,     \* the HTTP status sent to the client, 0 before WriteHeader
    pos,        \* bytes of up.text that StreamTo has offered to winWriter
    got,        \* bytes of up.text that winWriter has put into the window
    buf,        \* Window.buf
    out,        \* bytes of the response body the ResponseWriter accepted
    wire,       \* how many of them have left net/http's buffers
    conn,       \* "up" until the client's connection breaks
    dstErr,     \* the ResponseWriter returned an error (it then always does)
    aborted,    \* winWriter.aborted
    result,     \* what StreamTo returned
    first,      \* ~winWriter.firstChunkSentAt.IsZero()
    ttft,       \* observations of StreamTTFTSeconds
    aborts,     \* increments of StreamAbortsTotal
    event       \* the terminal error event the ResponseWriter accepted

upstream == <<up, adapter>>
window   == <<got, buf, aborted>>
client   == <<out, wire, dstErr>>
stats    == <<first, ttft, aborts>>
vars     == <<upstream, pc, status, pos, window, client, conn, result, stats, event>>

Stages  == {"headers", "connect", "reading", "returned", "done"}
Results == {"none", "nil", "timeout", "error"}
Events  == {"none", "provider_timeout", "provider_error", "output_policy_violation"}

Init ==
    /\ up \in Upstreams
    /\ adapter \in Adapters
    /\ pc = "headers"
    /\ status = 0
    /\ pos = 0
    /\ got = 0
    /\ buf = << >>
    /\ out = << >>
    /\ wire = 0
    /\ conn = "up"
    /\ dstErr = FALSE
    /\ aborted = FALSE
    /\ result = "none"
    /\ first = FALSE
    /\ ttft = 0
    /\ aborts = 0
    /\ event = "none"

-----------------------------------------------------------------------------
(* net/http's response writer.                                             *)

\* How many bytes may have left the buffers once the body is b: nothing moves
\* until NetBuf overflows, unless the handler flushes.
Sent(b) ==
    IF conn = "down" THEN {wire}
    ELSE IF canFlush THEN {Len(b)}
    ELSE IF Len(b) - wire <= NetBuf THEN {wire}
    ELSE {w \in wire..Len(b) : Len(b) - w <= NetBuf}

\* dst.Write(b) takes all of b.  With the connection down this still happens
\* as long as net/http can buffer or has not noticed.
Accept(b) ==
    /\ ~dstErr
    /\ out' = out \o b
    /\ wire' \in Sent(out \o b)
    /\ UNCHANGED dstErr

\* dst.Write(b) takes n bytes of b, returns an error, and will take nothing more.
Reject(b, n) ==
    /\ dstErr \/ conn = "down"
    /\ n < Len(b)
    /\ dstErr => n = 0
    /\ out' = out \o SubSeq(b, 1, n)
    /\ dstErr' = TRUE
    /\ UNCHANGED wire

\* The handler returns: net/http sends what is buffered.
Finish ==
    /\ pc' = "done"
    /\ wire' = IF conn = "up" /\ ~dstErr' THEN Len(out') ELSE wire

\* Mutant: the event is written only to a working connection, and waits for one.
EmitWaits(e) ==
    /\ conn = "up"
    /\ event' = e

\* fmt.Fprintf(w, ...) of a terminal error event, its error ignored.
Emit(e) ==
    /\ event' \in {e, "none"}
    /\ ~dstErr /\ conn = "up" => event' = e
    /\ dstErr => event' = "none"

-----------------------------------------------------------------------------
(* The adapters' StreamTo.                                                 *)

\* Where the next chunk offered to winWriter can end.  For the OpenAI adapter up.text
\* is what it writes, not what the provider sent: a chunk that is not JSON, has no
\* choices or an empty delta is skipped without an error or an event.
ChunkEnds ==
    IF adapter = "mock"
    THEN (pos + 1)..Len(up.text)
    ELSE {e \in up.ends : e > pos /\ \A f \in up.ends : f > pos => e <= f}

\* Mutant: StreamTo loses the error of the read that ended the stream.
ReturnNil(r) ==
    /\ pc' = "returned"
    /\ result' = "nil"

Return(r) ==
    /\ pc' = "returned"
    /\ result' = r

\* winWriter.Write returned an error: io.Copy stops, fmt.Fprintf's is dropped.
WriteErrorSeen ==
    IF adapter = "mock" THEN Return("error") ELSE UNCHANGED <<pc, result>>

\* Headers and status go out before the provider is called.
SendHeaders ==
    /\ pc = "headers"
    /\ pc' = "connect"
    /\ status' = 200
    /\ UNCHANGED <<upstream, pos, window, client, conn, result, stats, event>>

\* client.Do fails, or times out.
ConnectFails(r) ==
    /\ pc = "connect"
    /\ r \in {"timeout", "error"}
    /\ Return(r)
    /\ UNCHANGED <<upstream, status, pos, window, client, conn, stats, event>>

\* The provider answers.  Only the OpenAI adapter looks at the status code.
Connect ==
    /\ pc = "connect"
    /\ IF adapter = "openai" /\ up.code # 200
       THEN Return("error")
       ELSE pc' = "reading" /\ UNCHANGED result
    /\ UNCHANGED <<upstream, status, pos, window, client, conn, stats, event>>

UpstreamEnds ==
    /\ pc = "reading"
    /\ pos = Len(up.text)
    /\ Return("nil")
    /\ UNCHANGED <<upstream, status, pos, window, client, conn, stats, event>>

\* A read error, the client timeout, or the request's context being cancelled.
UpstreamFails(r) ==
    /\ pc = "reading"
    /\ r \in {"timeout", "error"}
    /\ Return(r)
    /\ UNCHANGED <<upstream, status, pos, window, client, conn, stats, event>>

-----------------------------------------------------------------------------
(* winWriter.Write, one action for each way through it and Window.Flush.   *)

Chunk(e) == SubSeq(up.text, pos + 1, e)

\* Mutant: one byte too many is taken for safe.
SafeLenPlusOne(data) == Len(data) - Size + 1

\* The number of bytes at the head of a window holding data that Flush forwards.
SafeLen(data) == Len(data) - Size

\* Mutant: the forwarded bytes stay in the buffer.
NextKeepsAll(data, n) == data

\* w.buf.Next(n)
BufNext(data, n) == SubSeq(data, n + 1, Len(data))

\* Mutant: only the bytes that will be held are scanned.
TailUnsafe(data) ==
    containsUnsafe(IF Len(data) > Size THEN SubSeq(data, Len(data) - Size + 1, Len(data))
                                       ELSE data)

\* What Flush and DrainSafe scan is the whole buffer.
BufferUnsafe(data) == containsUnsafe(data)

Offer(e) ==
    /\ pc = "reading"
    /\ e \in ChunkEnds
    /\ pos' = e
    /\ UNCHANGED <<upstream, status, conn, aborts, event>>

\* Mutant: the check of ww.aborted is lost.
HoldUnlatched(e) ==
    /\ Offer(e)
    /\ got' = e

\* win.Write(p), unless the stream was aborted.
Hold(e) ==
    /\ Offer(e)
    /\ ~aborted
    /\ got' = e

WriteRefused(e) ==
    /\ Offer(e)
    /\ aborted
    /\ WriteErrorSeen
    /\ UNCHANGED <<window, client, first, ttft>>

WriteAborts(e) ==
    LET data == buf \o Chunk(e)
    IN  /\ Hold(e)
        /\ BufferUnsafe(data)
        /\ buf' = data
        /\ aborted' = TRUE
        /\ WriteErrorSeen
        /\ UNCHANGED <<client, first, ttft>>

WriteHeld(e) ==
    LET data == buf \o Chunk(e)
    IN  /\ Hold(e)
        /\ ~BufferUnsafe(data)
        /\ SafeLen(data) <= 0
        /\ buf' = data
        /\ UNCHANGED <<aborted, client, pc, result, first, ttft>>

WriteForwards(e) ==
    LET data == buf \o Chunk(e)
        safe == SafeLen(data)
    IN  /\ Hold(e)
        /\ ~BufferUnsafe(data)
        /\ safe > 0
        /\ Accept(SubSeq(data, 1, safe))
        /\ buf' = BufNext(data, safe)
        /\ first' = TRUE
        /\ ttft' = IF first THEN ttft ELSE ttft + 1
        /\ UNCHANGED <<aborted, pc, result>>

\* Flush returns dst's error without consuming anything from the buffer.
WriteFails(e, n) ==
    LET data == buf \o Chunk(e)
        safe == SafeLen(data)
    IN  /\ Hold(e)
        /\ ~BufferUnsafe(data)
        /\ safe > 0
        /\ Reject(SubSeq(data, 1, safe), n)
        /\ buf' = data
        /\ WriteErrorSeen
        /\ UNCHANGED <<aborted, first, ttft>>

-----------------------------------------------------------------------------
(* handleStream once StreamTo has returned.                                *)

\* An error after an abort ends the handler without a word.
AfterError ==
    /\ pc = "returned"
    /\ result \in {"timeout", "error"}
    /\ IF aborted
       THEN UNCHANGED event
       ELSE Emit(IF result = "timeout" THEN "provider_timeout" ELSE "provider_error")
    /\ UNCHANGED <<out, dstErr>>
    /\ Finish
    /\ UNCHANGED <<upstream, status, pos, window, conn, result, stats>>

\* Mutant: the return after the abort is missing, and the drain finds the same buffer
\* unsafe again.
AfterAbortFallsThrough ==
    /\ pc = "returned"
    /\ result = "nil"
    /\ aborted
    /\ aborts' = aborts + 2
    /\ Emit("output_policy_violation")
    /\ UNCHANGED <<out, dstErr>>
    /\ Finish
    /\ UNCHANGED <<upstream, status, pos, window, conn, result, first, ttft>>

AfterAbort ==
    /\ pc = "returned"
    /\ result = "nil"
    /\ aborted
    /\ aborts' = aborts + 1
    /\ Emit("output_policy_violation")
    /\ UNCHANGED <<out, dstErr>>
    /\ Finish
    /\ UNCHANGED <<upstream, status, pos, window, conn, result, first, ttft>>

Draining ==
    /\ pc = "returned"
    /\ result = "nil"
    /\ ~aborted
    /\ UNCHANGED <<upstream, status, pos, got, aborted, conn, result>>

DrainAborts ==
    /\ Draining
    /\ BufferUnsafe(buf)
    /\ aborts' = aborts + 1
    /\ Emit("output_policy_violation")
    /\ UNCHANGED <<out, dstErr>>
    /\ Finish
    /\ UNCHANGED <<buf, first, ttft>>

\* Mutant: the drain does not ask whether a first chunk was sent before.
DrainStatsAgain(n) ==
    /\ first' = (first \/ n > 0)
    /\ ttft' = IF n > 0 THEN ttft + 1 ELSE ttft
    /\ UNCHANGED aborts

\* firstChunkSentAt and the TTFT metric after DrainSafe wrote n bytes.
DrainStats(n) ==
    /\ first' = (first \/ n > 0)
    /\ ttft' = IF n > 0 /\ ~first THEN ttft + 1 ELSE ttft
    /\ UNCHANGED aborts

DrainForwards ==
    /\ Draining
    /\ ~BufferUnsafe(buf)
    /\ buf = << >> \/ ~dstErr
    /\ out' = out \o buf
    /\ buf' = << >>
    /\ DrainStats(Len(buf))
    /\ UNCHANGED <<dstErr, event>>
    /\ Finish

\* The error of DrainSafe is dropped and the buffer is reset all the same.
DrainFails(n) ==
    /\ Draining
    /\ ~BufferUnsafe(buf)
    /\ dstErr \/ conn = "down"
    /\ n < Len(buf)
    /\ dstErr => n = 0
    /\ out' = out \o SubSeq(buf, 1, n)
    /\ dstErr' = TRUE
    /\ buf' = << >>
    /\ DrainStats(n)
    /\ UNCHANGED event
    /\ Finish

ConnBreaks ==
    /\ pc # "done"
    /\ conn = "up"
    /\ conn' = "down"
    /\ UNCHANGED <<upstream, pc, status, pos, window, client, result, stats, event>>

-----------------------------------------------------------------------------

Handler ==
    \/ SendHeaders
    \/ \E r \in Results : ConnectFails(r)
    \/ Connect
    \/ UpstreamEnds
    \/ \E r \in Results : UpstreamFails(r)
    \/ \E e \in ChunkEnds : WriteRefused(e)
    \/ \E e \in ChunkEnds : WriteAborts(e)
    \/ \E e \in ChunkEnds : WriteHeld(e)
    \/ \E e \in ChunkEnds : WriteForwards(e)
    \/ \E e \in ChunkEnds : \E n \in 0..Len(up.text) : WriteFails(e, n)
    \/ AfterError
    \/ AfterAbort
    \/ DrainAborts
    \/ DrainForwards
    \/ \E n \in 0..Len(buf) : DrainFails(n)

Next == Handler \/ ConnBreaks

\* The handler runs by itself, and the HTTP client's Timeout (30 s in mock.go,
\* 60 s in openai_compat.go) bounds every wait for the provider.
Spec == Init /\ [][Next]_vars /\ WF_vars(Handler)

-----------------------------------------------------------------------------

\* Types of the handler's variables and of the response writer's state; in particular
\* one stream is counted as one abort at most, by AfterAbort or by the drain.
TypeOK ==
    /\ up \in Upstreams
    /\ adapter \in Adapters
    /\ pc \in Stages
    /\ status \in {0, 200}
    /\ pos \in 0..Len(up.text)
    /\ got \in 0..pos
    /\ buf \in Seq(Byte)
    /\ out \in Seq(Byte)
    /\ wire \in 0..Len(out)
    /\ conn \in {"up", "down"}
    /\ dstErr \in BOOLEAN
    /\ aborted \in BOOLEAN
    /\ result \in Results
    /\ first \in BOOLEAN
    /\ ttft \in Nat
    /\ aborts \in 0..1
    /\ event \in Events

\* The window neither loses, repeats nor reorders bytes: what the client was
\* given is a prefix of what the provider sent, and until the handler is done
\* or the client's writer failed, the rest of it is in the buffer (Window.Write,
\* Flush and its early return on a write error).
Conservation ==
    /\ out = SubSeq(up.text, 1, Len(out))
    /\ buf = SubSeq(up.text, got - Len(buf) + 1, got)
    /\ ~dstErr /\ pc # "done" => Len(out) + Len(buf) = got

\* Flush keeps Size bytes of lookahead (window.go, "we always have at least
\* `size` bytes of lookahead"): before the drain, the client has none of the
\* last Size bytes received, whatever chunks they came in.
Lookahead ==
    pc # "done" => out = << >> \/ Len(out) + Size <= got

\* Positions i..j of t are unsafe in whatever buffer holds them all: a match
\* that no context before or after it undoes.
UnsafeSpan(t, i, j) ==
    \A a \in 1..i : \A b \in j..Len(t) : containsUnsafe(SubSeq(t, a, b))

\* The promise of the sliding window: not even the first byte of unsafe content
\* that fits into the window and the byte that fills it, framing included, is
\* given to the client, however it was cut into chunks and whether or not the
\* rest of it has arrived.
FittingSpansHeld ==
    \A i \in 1..Len(out) : \A j \in i..Len(up.text) :
        j - i <= Size => ~UnsafeSpan(up.text, i, j)

\* Once winWriter.aborted is set the client is given nothing more, by later
\* writes of an adapter that keeps reading or by the drain.
NothingAfterAbort == [][aborted => out' = out]_vars

\* A client whose connection stays up and whose stream was not aborted can tell
\* from the terminal event whether the body is the whole response: handleStream
\* drains exactly when StreamTo returned nil.
CompleteIffNoEvent ==
    pc = "done" /\ conn = "up" /\ ~aborted /\ up.text # << >>
        => (event = "none" <=> out = up.text)

\* StreamTTFTSeconds is observed once per stream that gives the client a byte,
\* by windowWriter.Write or by the drain, and never otherwise.
TTFTOnce ==
    /\ ttft <= 1
    /\ pc = "done" /\ ~dstErr => (ttft = 1 <=> out # << >>)

\* Every stream ends: no chunking, failure or abort leaves the handler stuck.
Termination == <>(pc = "done")

-----------------------------------------------------------------------------

\* The handler seen from its two ends.
Contract == INSTANCE Relay WITH
    Sources  <- {u.text : u \in Upstreams},
    HeldBack <- Size,
    source   <- up.text,
    taken    <- got,
    given    <- out,
    state    <- IF pc = "done" THEN "closed" ELSE IF aborted THEN "cut" ELSE "open"

\* handleStream, winWriter, the window and the adapters together implement the relay:
\* in order, behind the lookahead, silent after an abort, and closed in the end.
ImplementsRelay == Contract!RelaySpec

-----------------------------------------------------------------------------
(* What comments and the README say of the code and the code does not do.  *)

\* README: an abort sends {"error":"output_policy_violation"} to the client.
AbortReported ==
    pc = "done" /\ conn = "up" /\ aborted => event = "output_policy_violation"

\* window.go: "a pattern split across two SSE chunks is still detected correctly",
\* "the dangerous bytes are never forwarded", for a match of any length.
DeliveredIsClean ==
    \A j \in 1..Len(out) : \A i \in 1..j : ~UnsafeSpan(up.text, i, j)

\* metrics.go: StreamTTFTSeconds is "Time to first token/chunk sent to client".
TTFTMeansSent == ttft > 0 => wire > 0
=============================================================================
