---------------------------- MODULE StreamProofs ----------------------------
(***************************************************************************)
(* Proofs about Stream for every window size, every scanner, every set of  *)
(* upstream responses and both adapters.  The proofs never look inside     *)
(* containsUnsafe: that a scanner is not monotone (a longer buffer can be  *)
(* clean although a shorter one was not) does not matter to them.          *)
(***************************************************************************)
EXTENDS Stream, SequenceTheorems, TLAPS

\* What the client was given is a prefix of what the window received.
OutIsPrefix ==
    /\ Len(out) <= got
    /\ out = SubSeq(up.text, 1, Len(out))

\* The buffer is the tail of what the window received.
BufIsTail ==
    /\ Len(buf) <= got
    /\ buf = SubSeq(up.text, got - Len(buf) + 1, got)

\* Before the end the buffer takes up where the client's bytes stop, and holds
\* a full window or everything.
BufHoldsRest ==
    pc # "done" =>
        /\ ~dstErr => Len(out) + Len(buf) = got
        /\ Len(buf) >= Size \/ Len(buf) = got

\* How the handler's flags constrain each other.
Flags ==
    /\ pc \in {"headers", "connect", "reading"} => result = "none"
    /\ ~aborted => got = pos
    /\ result = "nil" => pos = Len(up.text)
    /\ pc # "done" => event = "none" /\ aborts = 0
    /\ conn = "up" => ~dstErr

\* No unsafe content that fits ends in what a running stream has received.
ReceivedIsClean ==
    ~aborted /\ pc # "done" =>
        \A j \in 1..got : \A i \in 1..j :
            j - i <= Size => ~UnsafeSpan(up.text, i, j)

\* The inductive invariant.
IndInv ==
    /\ TypeOK
    /\ OutIsPrefix
    /\ BufIsTail
    /\ BufHoldsRest
    /\ Flags
    /\ Lookahead
    /\ ReceivedIsClean
    /\ FittingSpansHeld

-----------------------------------------------------------------------------

\* The window size NewWindow settles on is a positive integer.
LEMMA SizePositive == Size \in Nat /\ Size > 0
  BY StreamAssumption DEF Size, DefaultWindow

\* A stretch of a sequence: its type and its length.
LEMMA StretchType ==
    ASSUME NEW S, NEW t \in Seq(S), NEW m \in Int, NEW n \in Int,
           1 <= m, m <= n + 1, n <= Len(t)
    PROVE  /\ SubSeq(t, m, n) \in Seq(S)
           /\ Len(SubSeq(t, m, n)) = n - m + 1
  <1>1. \A i \in m..n : t[i] \in S
    BY LenProperties
  <1>2. QED
    BY <1>1, SubSeqProperties

\* Two adjacent stretches of a sequence make one.
LEMMA StretchConcat ==
    ASSUME NEW S, NEW t \in Seq(S), NEW m \in Int, NEW k \in Int, NEW n \in Int,
           1 <= m, m <= k + 1, k <= n, n <= Len(t)
    PROVE  SubSeq(t, m, k) \o SubSeq(t, k + 1, n) = SubSeq(t, m, n)
  <1>1. Len(t) \in Nat
    BY LenProperties
  <1>2. m \in 1..(Len(t) + 1) /\ k \in (m - 1)..Len(t) /\ n \in k..Len(t)
    BY <1>1
  <1>3. QED
    BY <1>2, ConcatAdjacentSubSeq

\* A stretch of a stretch is a stretch.
LEMMA StretchOfStretch ==
    ASSUME NEW S, NEW t \in Seq(S), NEW m \in Int, NEW n \in Int,
           1 <= m, m <= n + 1, n <= Len(t),
           NEW x \in Int, NEW y \in Int, 1 <= x, x <= y + 1, y <= n - m + 1
    PROVE  SubSeq(SubSeq(t, m, n), x, y) = SubSeq(t, m + x - 1, m + y - 1)
  <1>1. CASE x = y + 1
    BY <1>1, SubSeqEmpty
  <1>2. CASE x <= y
    <2>1. Len(t) \in Nat
      BY LenProperties
    <2>2. /\ m \in 1..Len(t) /\ n \in 1..Len(t)
          /\ x \in 1..(n - m + 1) /\ y \in 1..(n - m + 1)
      BY <1>2, <2>1
    <2>3. QED
      BY <2>2, SubSeqOfSubSeq
  <1>3. QED
    BY <1>1, <1>2

\* What is left of a sequence without its first k elements.
LEMMA TailType ==
    ASSUME NEW S, NEW d \in Seq(S), NEW k \in Nat, k <= Len(d)
    PROVE  /\ SubSeq(d, k + 1, Len(d)) \in Seq(S)
           /\ Len(SubSeq(d, k + 1, Len(d))) = Len(d) - k
  <1> DEFINE x == k + 1
             y == Len(d)
  <1>0. Len(d) \in Nat
    BY LenProperties
  <1> HIDE DEF x, y
  <1>1. x \in Int /\ y \in Int /\ 1 <= x /\ x <= y + 1 /\ y <= Len(d) /\ y - x + 1 = Len(d) - k
    BY <1>0 DEF x, y
  <1>2. SubSeq(d, x, y) \in Seq(S) /\ Len(SubSeq(d, x, y)) = y - x + 1
    BY <1>1, StretchType
  <1>3. QED
    BY <1>1, <1>2 DEF x, y

\* Cutting a stretch in two.
LEMMA StretchCut ==
    ASSUME NEW S, NEW t \in Seq(S), NEW m \in Int, NEW n \in Int,
           1 <= m, m <= n + 1, n <= Len(t),
           NEW k \in Nat, k <= n - m + 1,
           NEW d, d = SubSeq(t, m, n)
    PROVE  /\ SubSeq(d, 1, k) = SubSeq(t, m, m + k - 1)
           /\ SubSeq(d, 1, k) \in Seq(S)
           /\ Len(SubSeq(d, 1, k)) = k
           /\ SubSeq(d, k + 1, Len(d)) = SubSeq(t, m + k, n)
           /\ SubSeq(d, k + 1, Len(d)) \in Seq(S)
           /\ Len(SubSeq(d, k + 1, Len(d))) = n - m + 1 - k
  <1>1. d \in Seq(S) /\ Len(d) = n - m + 1
    BY StretchType
  <1>2. SubSeq(d, 1, k) = SubSeq(t, m + 1 - 1, m + k - 1)
    BY StretchOfStretch
  <1>3. SubSeq(d, k + 1, Len(d)) = SubSeq(t, m + (k + 1) - 1, m + Len(d) - 1)
    <2>1. k + 1 \in Int /\ 1 <= k + 1 /\ k + 1 <= Len(d) + 1 /\ Len(d) \in Int
      BY <1>1
    <2> DEFINE x == k + 1
               y == Len(d)
    <2> HIDE DEF x, y
    <2>2. x \in Int /\ y \in Int /\ 1 <= x /\ x <= y + 1 /\ y <= n - m + 1
      BY <1>1, <2>1 DEF x, y
    <2>3. SubSeq(SubSeq(t, m, n), x, y) = SubSeq(t, m + x - 1, m + y - 1)
      BY <2>2, StretchOfStretch
    <2>4. QED
      BY <2>3 DEF x, y
  <1>4. m + 1 - 1 = m /\ m + (k + 1) - 1 = m + k /\ m + Len(d) - 1 = n
    BY <1>1
  <1>5. SubSeq(d, 1, k) \in Seq(S) /\ Len(SubSeq(d, 1, k)) = k - 1 + 1
    BY <1>1, StretchType
  <1>6. SubSeq(d, k + 1, Len(d)) \in Seq(S) /\ Len(SubSeq(d, k + 1, Len(d))) = Len(d) - k
    BY <1>1, TailType
  <1>7. QED
    BY <1>1, <1>2, <1>3, <1>4, <1>5, <1>6

\* A prefix, continued with the first n elements of the stretch that follows it.
LEMMA PrefixExtends ==
    ASSUME NEW S, NEW t \in Seq(S), NEW l \in Nat, NEW k \in Nat, l <= k, k <= Len(t),
           NEW o, o = SubSeq(t, 1, l),
           NEW d, d = SubSeq(t, l + 1, k),
           NEW n \in Nat, n <= k - l
    PROVE  /\ o \o SubSeq(d, 1, n) = SubSeq(t, 1, l + n)
           /\ o \o SubSeq(d, 1, n) \in Seq(S)
           /\ Len(o \o SubSeq(d, 1, n)) = l + n
  <1> DEFINE m == l + 1
             h == l + n
  <1>1. /\ m \in Int /\ 1 <= m /\ m <= k + 1 /\ k \in Int /\ n <= k - m + 1
        /\ h \in Int /\ l \in Int /\ l <= h /\ h <= Len(t) /\ 1 <= l + 1
        /\ m + n - 1 = h /\ h - 1 + 1 = h /\ Len(t) \in Nat /\ 1 <= h + 1
    BY LenProperties
  <1>2. SubSeq(t, 1, l) \o SubSeq(t, l + 1, h) = SubSeq(t, 1, h)
    <2>1. h \in Int /\ l \in Int /\ l <= h /\ h <= Len(t) /\ 1 <= l + 1
      BY <1>1
    <2> HIDE DEF h
    <2>2. QED
      BY <2>1, StretchConcat
  <1> HIDE DEF m, h
  <1>3. SubSeq(d, 1, n) = SubSeq(t, m, m + n - 1)
    BY <1>1, StretchCut DEF m
  <1>4. SubSeq(d, 1, n) = SubSeq(t, l + 1, h)
    BY <1>1, <1>3, Zenon DEF m
  <1>5. o \o SubSeq(d, 1, n) = SubSeq(t, 1, h)
    BY <1>2, <1>4, Zenon
  <1>6. SubSeq(t, 1, h) \in Seq(S) /\ Len(SubSeq(t, 1, h)) = h - 1 + 1
    BY <1>1, StretchType
  <1>7. QED
    BY <1>1, <1>5, <1>6, Zenon DEF h

\* The text of the request's upstream.
LEMMA TextType ==
    ASSUME TypeOK
    PROVE  up.text \in Seq(Byte) /\ Len(up.text) \in Nat
  BY StreamAssumption, LenProperties DEF TypeOK

-----------------------------------------------------------------------------
(* A write into the window.                                                *)

\* The chunk extends the tail that the buffer is.
LEMMA ChunkExtendsTail ==
    ASSUME IndInv, NEW e, Hold(e)
    PROVE  /\ e \in Nat
           /\ got = pos
           /\ got < e
           /\ e <= Len(up.text)
           /\ buf \o Chunk(e) \in Seq(Byte)
           /\ buf \o Chunk(e) = SubSeq(up.text, got - Len(buf) + 1, e)
           /\ Len(buf \o Chunk(e)) = Len(buf) + e - got
  <1>0. up.text \in Seq(Byte) /\ Len(up.text) \in Nat
    BY TextType DEF IndInv
  <1>1. up.ends \subseteq 1..Len(up.text)
    BY StreamAssumption DEF IndInv, TypeOK
  <1>2. got = pos /\ got \in Nat /\ Len(buf) \in Nat /\ Len(buf) <= got
    BY LenProperties, <1>0 DEF IndInv, TypeOK, Flags, BufIsTail, Hold
  <1>3. e \in Nat /\ pos < e /\ e <= Len(up.text)
    BY <1>0, <1>1, <1>2 DEF Hold, Offer, ChunkEnds
  <1>4. buf \o Chunk(e) = SubSeq(up.text, got - Len(buf) + 1, e)
    <2>1. buf = SubSeq(up.text, got - Len(buf) + 1, got)
      BY DEF IndInv, BufIsTail
    <2>2. Chunk(e) = SubSeq(up.text, got + 1, e)
      BY <1>2 DEF Chunk
    <2>3. SubSeq(up.text, got - Len(buf) + 1, got) \o SubSeq(up.text, got + 1, e)
            = SubSeq(up.text, got - Len(buf) + 1, e)
      <3> DEFINE m == got - Len(buf) + 1
      <3>1. m \in Int /\ 1 <= m /\ m <= got + 1
        BY <1>2
      <3>2. got \in Int /\ e \in Int /\ got <= e
        BY <1>2, <1>3
      <3> HIDE DEF m
      <3>3. SubSeq(up.text, m, got) \o SubSeq(up.text, got + 1, e) = SubSeq(up.text, m, e)
        BY <1>0, <1>3, <3>1, <3>2, StretchConcat
      <3>4. QED
        BY <3>3 DEF m
    <2>4. QED
      BY <2>1, <2>2, <2>3
  <1>5. /\ SubSeq(up.text, got - Len(buf) + 1, e) \in Seq(Byte)
        /\ Len(SubSeq(up.text, got - Len(buf) + 1, e)) = e - (got - Len(buf) + 1) + 1
    BY <1>0, <1>2, <1>3, StretchType
  <1>6. QED
    BY <1>2, <1>3, <1>4, <1>5

\* If the scan of buffer and chunk is clean, no unsafe content that fits ends
\* in what has been received: had it ended in the chunk, it would have begun
\* in the buffer.
LEMMA ScanCovers ==
    ASSUME IndInv, NEW e, Hold(e), ~containsUnsafe(buf \o Chunk(e)), pc # "done"
    PROVE  \A j \in 1..e : \A i \in 1..j :
               j - i <= Size => ~UnsafeSpan(up.text, i, j)
  <1> SUFFICES ASSUME NEW j \in 1..e, NEW i \in 1..j, j - i <= Size,
                      UnsafeSpan(up.text, i, j)
               PROVE  FALSE
    OBVIOUS
  <1> DEFINE a == got - Len(buf) + 1
  <1>0. Len(up.text) \in Nat /\ got \in Nat /\ Len(buf) \in Nat /\ Len(buf) <= got
    BY TextType, LenProperties DEF IndInv, TypeOK, BufIsTail
  <1>1. /\ e \in Nat /\ got < e /\ e <= Len(up.text)
        /\ ~containsUnsafe(SubSeq(up.text, a, e))
    BY ChunkExtendsTail
  <1>2. CASE j <= got
    <2>1. j \in 1..got
      BY <1>0, <1>2
    <2>2. QED
      BY <2>1 DEF IndInv, ReceivedIsClean, Hold
  <1>3. CASE got < j
    <2>1. Len(buf) >= Size \/ Len(buf) = got
      BY DEF IndInv, BufHoldsRest
    <2>2. a \in 1..i
      BY <1>0, <1>3, <2>1, SizePositive
    <2>3. e \in j..Len(up.text)
      BY <1>0, <1>1
    <2>4. containsUnsafe(SubSeq(up.text, a, e))
      BY <2>2, <2>3 DEF UnsafeSpan
    <2>5. QED
      BY <2>4, <1>1
  <1>4. QED
    BY <1>0, <1>1, <1>2, <1>3

\* What is left of the window's data once its first n bytes are gone.
LEMMA NextOfData ==
    ASSUME IndInv, NEW e, Hold(e),
           NEW data, data = buf \o Chunk(e),
           NEW n \in Nat, n <= Len(data)
    PROVE  /\ SubSeq(data, 1, n)
                  = SubSeq(up.text, got - Len(buf) + 1, got - Len(buf) + n)
           /\ SubSeq(data, 1, n) \in Seq(Byte)
           /\ Len(SubSeq(data, 1, n)) = n
           /\ BufNext(data, n) = SubSeq(up.text, got - Len(buf) + n + 1, e)
           /\ BufNext(data, n) \in Seq(Byte)
           /\ Len(BufNext(data, n)) = Len(data) - n
  <1> DEFINE a == got - Len(buf) + 1
             t == up.text
  <1>0. /\ t \in Seq(Byte) /\ Len(t) \in Nat
        /\ got \in Nat /\ Len(buf) \in Nat /\ Len(buf) <= got
    BY TextType, LenProperties DEF IndInv, TypeOK, BufIsTail
  <1>1. /\ e \in Nat /\ got < e /\ e <= Len(t)
        /\ data \in Seq(Byte) /\ data = SubSeq(t, a, e)
        /\ Len(data) = Len(buf) + e - got
    BY ChunkExtendsTail, Zenon
  <1>2. /\ a \in Int /\ 1 <= a /\ a <= e + 1 /\ e - a + 1 = Len(data)
        /\ a + n - 1 = got - Len(buf) + n /\ a + n = got - Len(buf) + n + 1
    BY <1>0, <1>1
  <1>3. n <= e - a + 1 /\ e \in Int
    BY <1>1, <1>2
  <1> HIDE DEF a, t
  <1>4. SubSeq(data, 1, n) = SubSeq(t, a, a + n - 1)
    BY <1>0, <1>1, <1>2, <1>3, StretchCut
  <1>5. SubSeq(data, 1, n) \in Seq(Byte) /\ Len(SubSeq(data, 1, n)) = n
    BY <1>0, <1>1, <1>2, <1>3, StretchCut
  <1>6. SubSeq(data, n + 1, Len(data)) = SubSeq(t, a + n, e)
    BY <1>0, <1>1, <1>2, <1>3, StretchCut
  <1>7. /\ SubSeq(data, n + 1, Len(data)) \in Seq(Byte)
        /\ Len(SubSeq(data, n + 1, Len(data))) = Len(data) - n
    BY <1>1, TailType
  <1>9. SubSeq(data, 1, n) = SubSeq(t, a, got - Len(buf) + n)
    BY <1>2, <1>4, Zenon
  <1>10. SubSeq(data, n + 1, Len(data)) = SubSeq(t, got - Len(buf) + n + 1, e)
    BY <1>2, <1>6, Zenon
  <1>11. QED
    BY <1>5, <1>7, <1>9, <1>10, Zenon DEF a, t, BufNext

-----------------------------------------------------------------------------
(* Steps that leave the window and the client's bytes alone.               *)

\* Such a step keeps the invariant if it keeps its types and the flags.
LEMMA QuietStep ==
    ASSUME IndInv, TypeOK', Flags', pc # "done",
           up' = up, got' = got, buf' = buf, out' = out,
           dstErr' = dstErr, aborted' = aborted
    PROVE  IndInv'
  <1>1. OutIsPrefix' /\ BufIsTail'
    BY DEF IndInv, OutIsPrefix, BufIsTail
  <1>2. BufHoldsRest' /\ Lookahead'
    BY DEF IndInv, BufHoldsRest, Lookahead
  <1>3. ReceivedIsClean'
    BY DEF IndInv, ReceivedIsClean
  <1>4. FittingSpansHeld'
    BY DEF IndInv, FittingSpansHeld
  <1>5. QED
    BY <1>1, <1>2, <1>3, <1>4 DEF IndInv

\* The steps of handleStream and of the adapters outside a write.
LEMMA ProviderStep ==
    ASSUME IndInv,
           \/ SendHeaders
           \/ \E r \in Results : ConnectFails(r)
           \/ Connect
           \/ UpstreamEnds
           \/ \E r \in Results : UpstreamFails(r)
           \/ ConnBreaks
    PROVE  IndInv'
  <1> USE DEF upstream, window, client, stats, Return, Results, Stages
  <1>1. CASE SendHeaders
    <2>1. TypeOK' /\ Flags'
      BY <1>1 DEF IndInv, TypeOK, Flags, SendHeaders
    <2>2. QED
      BY <1>1, <2>1, QuietStep DEF SendHeaders
  <1>2. ASSUME NEW r \in Results, ConnectFails(r) PROVE IndInv'
    <2>1. TypeOK' /\ Flags'
      BY <1>2 DEF IndInv, TypeOK, Flags, ConnectFails
    <2>2. QED
      BY <1>2, <2>1, QuietStep DEF ConnectFails
  <1>3. CASE Connect
    <2>1. TypeOK' /\ Flags'
      BY <1>3 DEF IndInv, TypeOK, Flags, Connect
    <2>2. QED
      BY <1>3, <2>1, QuietStep DEF Connect
  <1>4. CASE UpstreamEnds
    <2>1. TypeOK' /\ Flags'
      BY <1>4 DEF IndInv, TypeOK, Flags, UpstreamEnds
    <2>2. QED
      BY <1>4, <2>1, QuietStep DEF UpstreamEnds
  <1>5. ASSUME NEW r \in Results, UpstreamFails(r) PROVE IndInv'
    <2>1. TypeOK' /\ Flags'
      BY <1>5 DEF IndInv, TypeOK, Flags, UpstreamFails
    <2>2. QED
      BY <1>5, <2>1, QuietStep DEF UpstreamFails
  <1>6. CASE ConnBreaks
    <2>1. TypeOK' /\ Flags'
      BY <1>6 DEF IndInv, TypeOK, Flags, ConnBreaks
    <2>2. QED
      BY <1>6, <2>1, QuietStep DEF ConnBreaks
  <1>7. QED
    BY <1>1, <1>2, <1>3, <1>4, <1>5, <1>6

\* The handler's last step when it forwards nothing.
LEMMA VerdictStep ==
    ASSUME IndInv, AfterError \/ AfterAbort \/ DrainAborts
    PROVE  IndInv'
  <1>1. /\ pc = "returned" /\ pc' = "done"
        /\ up' = up /\ adapter' = adapter /\ status' = status /\ pos' = pos
        /\ got' = got /\ buf' = buf /\ out' = out /\ conn' = conn
        /\ dstErr' = dstErr /\ aborted' = aborted /\ result' = result
        /\ first' = first /\ ttft' = ttft /\ aborts' \in {aborts, aborts + 1}
    BY DEF AfterError, AfterAbort, DrainAborts, Draining, Finish,
           upstream, window, stats
  <1>2. wire' \in {wire, Len(out)}
    BY DEF AfterError, AfterAbort, DrainAborts, Draining, Finish
  <1>3. event' \in Events
    BY DEF AfterError, AfterAbort, DrainAborts, Emit, Events, IndInv, TypeOK
  <1>4. Len(out) \in Nat
    BY LenProperties DEF IndInv, TypeOK
  <1>5. TypeOK'
    <2>1. wire' \in 0..Len(out') /\ aborts' \in 0..1
      BY <1>1, <1>2, <1>4 DEF IndInv, TypeOK, Flags
    <2>2. QED
      BY <1>1, <1>3, <2>1 DEF IndInv, TypeOK, Stages
  <1>6. Flags'
    BY <1>1 DEF IndInv, Flags
  <1>7. QED
    BY <1>1, <1>5, <1>6, QuietStep

-----------------------------------------------------------------------------
(* Writes.                                                                 *)

\* A write that the latch or a failed writer refuses keeps the invariant.
LEMMA RefusedStep ==
    ASSUME IndInv, NEW e \in ChunkEnds, WriteRefused(e)
    PROVE  IndInv'
  <1>1. /\ pc = "reading" /\ aborted /\ up' = up /\ got' = got /\ buf' = buf
        /\ out' = out /\ dstErr' = dstErr /\ aborted' = aborted /\ event' = event
        /\ pos' = e /\ conn' = conn /\ aborts' = aborts
    BY DEF WriteRefused, Offer, upstream, window, client
  <1>2. \/ pc' = pc /\ result' = result
        \/ pc' = "returned" /\ result' = "error"
    BY DEF WriteRefused, WriteErrorSeen, Return
  <1>3. e \in Nat /\ pos < e /\ e <= Len(up.text)
    <2>1. up.ends \subseteq 1..Len(up.text) /\ Len(up.text) \in Nat
      BY StreamAssumption, TextType DEF IndInv, TypeOK
    <2>2. QED
      BY <2>1 DEF ChunkEnds, IndInv, TypeOK
  <1>4. TypeOK'
    <2>1. pos' \in 0..Len(up'.text) /\ got' \in 0..pos'
      BY <1>1, <1>3 DEF IndInv, TypeOK
    <2>2. QED
      BY <1>1, <1>2, <2>1 DEF IndInv, TypeOK, WriteRefused, Offer, upstream,
         window, client, Stages, Results
  <1>5. Flags'
    BY <1>1, <1>2 DEF IndInv, Flags
  <1>6. QED
    BY <1>1, <1>4, <1>5, QuietStep

\* What every write into the window changes besides the buffer.
LEMMA HoldFacts ==
    ASSUME IndInv, NEW e, Hold(e)
    PROVE  /\ pc = "reading" /\ ~aborted /\ result = "none" /\ event = "none"
           /\ up' = up /\ adapter' = adapter /\ status' = status /\ conn' = conn
           /\ aborts' = aborts /\ event' = event
           /\ pos' = e /\ got' = e
           /\ pos' \in 0..Len(up'.text) /\ got' \in 0..pos'
  <1>1. /\ pc = "reading" /\ ~aborted /\ up' = up /\ adapter' = adapter
        /\ status' = status /\ conn' = conn /\ aborts' = aborts /\ event' = event
        /\ pos' = e /\ got' = e
    BY DEF Hold, Offer, upstream
  <1>2. result = "none" /\ event = "none"
    BY <1>1 DEF IndInv, Flags
  <1>3. e \in Nat /\ e <= Len(up.text) /\ Len(up.text) \in Nat
    BY ChunkExtendsTail, TextType DEF IndInv
  <1>4. QED
    BY <1>1, <1>2, <1>3

\* The window only grows: Flush found the buffer unsafe, or not yet full.
LEMMA GrowStep ==
    ASSUME IndInv, NEW e \in ChunkEnds, WriteAborts(e) \/ WriteHeld(e)
    PROVE  IndInv'
  <1> DEFINE data == buf \o Chunk(e)
  <1>1. /\ Hold(e)
        /\ buf' = data /\ out' = out /\ wire' = wire /\ dstErr' = dstErr
        /\ first' = first /\ ttft' = ttft
    BY DEF WriteAborts, WriteHeld, client
  <1>2. /\ e \in Nat /\ got < e /\ e <= Len(up.text)
        /\ Len(data) = Len(buf) + e - got /\ Len(data) \in Nat
    BY <1>1, ChunkExtendsTail, LenProperties
  <1>2s. data \in Seq(Byte) /\ data = SubSeq(up.text, got - Len(buf) + 1, e)
    BY <1>1, ChunkExtendsTail
  <1>3. /\ pc = "reading" /\ ~aborted /\ result = "none" /\ event = "none"
        /\ up' = up /\ adapter' = adapter /\ status' = status /\ conn' = conn
        /\ aborts' = aborts /\ event' = event
        /\ pos' = e /\ got' = e
        /\ pos' \in 0..Len(up'.text) /\ got' \in 0..pos'
    BY <1>1, HoldFacts
  <1>4. \/ aborted' = FALSE /\ pc' = pc /\ result' = result
           /\ ~containsUnsafe(data)
        \/ aborted' = TRUE /\ pc' \in {"reading", "returned"}
           /\ result' \in {"none", "error"}
           /\ (pc' = "reading" => result' = "none")
    BY <1>3 DEF WriteAborts, WriteHeld, WriteErrorSeen, Return, BufferUnsafe
  <1>5. Len(buf) \in Nat /\ got \in Nat /\ Len(buf) <= got /\ Len(out) \in Nat
    BY LenProperties DEF IndInv, TypeOK, BufIsTail
  <1> HIDE DEF data
  <1>6. TypeOK'
    BY <1>1, <1>2s, <1>3, <1>4 DEF IndInv, TypeOK, Stages, Results
  <1>7. OutIsPrefix'
    BY <1>1, <1>2, <1>3, <1>5 DEF IndInv, OutIsPrefix
  <1>8. BufIsTail'
    <2>1. Len(data) <= e /\ e - Len(data) + 1 = got - Len(buf) + 1
      BY <1>2, <1>5
    <2>2. data = SubSeq(up.text, e - Len(data) + 1, e)
      BY <1>2s, <2>1, Zenon
    <2>3. QED
      BY <1>1, <1>3, <2>1, <2>2, Zenon DEF BufIsTail
  <1>9. BufHoldsRest'
    BY <1>1, <1>2, <1>3, <1>5, SizePositive DEF IndInv, BufHoldsRest
  <1>10. Flags'
    BY <1>1, <1>3, <1>4 DEF IndInv, Flags
  <1>11. Lookahead'
    <2>1. out = << >> \/ Len(out) + Size <= got
      BY <1>3 DEF IndInv, Lookahead
    <2>2. out' = << >> \/ Len(out') + Size <= got'
      BY <1>1, <1>2, <1>3, <1>5, <2>1, SizePositive
    <2>3. QED
      BY <2>2 DEF Lookahead
  <1>12. ReceivedIsClean'
    <2>1. CASE aborted' = TRUE
      BY <2>1 DEF ReceivedIsClean
    <2>2. CASE ~containsUnsafe(data)
      <3>1. \A j \in 1..e : \A i \in 1..j : j - i <= Size => ~UnsafeSpan(up.text, i, j)
        BY <1>1, <1>3, <2>2, ScanCovers DEF data
      <3>2. QED
        BY <1>3, <3>1 DEF ReceivedIsClean
    <2>3. QED
      BY <1>4, <2>1, <2>2
  <1>13. FittingSpansHeld'
    BY <1>1, <1>3 DEF IndInv, FittingSpansHeld
  <1>14. QED
    BY <1>6, <1>7, <1>8, <1>9, <1>10, <1>11, <1>12, <1>13 DEF IndInv

\* The client's bytes once the writer took n more of the window's data.
LEMMA OutExtends ==
    ASSUME IndInv, NEW e, Hold(e), NEW data, data = buf \o Chunk(e),
           NEW n \in Nat, n <= Len(data), ~dstErr \/ n = 0
    PROVE  /\ out \o SubSeq(data, 1, n) = SubSeq(up.text, 1, Len(out) + n)
           /\ out \o SubSeq(data, 1, n) \in Seq(Byte)
           /\ Len(out \o SubSeq(data, 1, n)) = Len(out) + n
  <1> DEFINE l == Len(out)
             t == up.text
  <1>1. /\ t \in Seq(Byte) /\ Len(t) \in Nat /\ l \in Nat /\ got \in Nat
        /\ Len(buf) \in Nat /\ Len(buf) <= got
    BY TextType, LenProperties DEF IndInv, TypeOK, BufIsTail
  <1>2. e \in Nat /\ got < e /\ e <= Len(t) /\ Len(data) = Len(buf) + e - got
    BY ChunkExtendsTail
  <1>3. out = SubSeq(t, 1, l)
    BY DEF IndInv, OutIsPrefix
  <1>4. CASE ~dstErr
    <2>1. l + Len(buf) = got
      BY <1>4, HoldFacts DEF IndInv, BufHoldsRest
    <2>2. got - Len(buf) + 1 = l + 1 /\ l <= e /\ n <= e - l
      BY <1>1, <1>2, <2>1
    <2>3. data = SubSeq(t, got - Len(buf) + 1, e)
      BY ChunkExtendsTail, Zenon
    <2>4. data = SubSeq(t, l + 1, e)
      BY <2>2, <2>3, Zenon
    <2> HIDE DEF l, t
    <2>5. out \o SubSeq(data, 1, n) = SubSeq(t, 1, l + n)
      <3>1. t \in Seq(Byte) /\ l \in Nat /\ e \in Nat /\ l <= e /\ e <= Len(t) /\ n <= e - l
        BY <1>1, <1>2, <2>2
      <3>2. QED
        BY <1>3, <2>4, <3>1, PrefixExtends
    <2>6. out \o SubSeq(data, 1, n) \in Seq(Byte)
      BY <1>1, <1>2, <1>3, <2>2, <2>4, PrefixExtends
    <2>7. Len(out \o SubSeq(data, 1, n)) = l + n
      BY <1>1, <1>2, <1>3, <2>2, <2>4, PrefixExtends
    <2>8. QED
      BY <2>5, <2>6, <2>7, Zenon DEF l, t
  <1>5. CASE n = 0
    <2>1. SubSeq(data, 1, n) = << >>
      BY <1>5, SubSeqEmpty
    <2>2. out \in Seq(Byte) /\ l + n = l
      BY <1>1, <1>5 DEF IndInv, TypeOK
    <2>3. out \o << >> = out
      BY <2>2, ConcatEmptySeq
    <2>4. QED
      BY <1>3, <2>1, <2>2, <2>3, Zenon
  <1>6. QED
    BY <1>4, <1>5

\* Flush forwards only what is more than a window.
LEMMA ForwardSafe ==
    ASSUME IndInv, NEW e \in ChunkEnds,
           WriteForwards(e) \/ \E n \in 0..Len(up.text) : WriteFails(e, n)
    PROVE  /\ SafeLen(buf \o Chunk(e)) \in Nat
           /\ SafeLen(buf \o Chunk(e)) = Len(buf) + e - got - Size
           /\ SafeLen(buf \o Chunk(e)) <= Len(buf \o Chunk(e))
           /\ Len(buf \o Chunk(e)) \in Nat
  <1> DEFINE data == buf \o Chunk(e)
  <1>1. Hold(e) /\ SafeLen(data) > 0
    BY DEF WriteForwards, WriteFails
  <1>2. /\ e \in Nat /\ Len(data) = Len(buf) + e - got
        /\ Len(data) \in Nat /\ Len(buf) \in Nat /\ got \in Nat
    BY <1>1, ChunkExtendsTail, LenProperties DEF IndInv, TypeOK
  <1>3. QED
    BY <1>1, <1>2, SizePositive DEF SafeLen

\* What Flush gives the client: the head of the window up to the safe length,
\* or less of it when the writer fails.
LEMMA ForwardGives ==
    ASSUME IndInv, NEW e \in ChunkEnds,
           WriteForwards(e) \/ \E n \in 0..Len(up.text) : WriteFails(e, n)
    PROVE  \E n \in Nat :
              /\ n <= SafeLen(buf \o Chunk(e))
              /\ out' = out \o SubSeq(buf \o Chunk(e), 1, n)
              /\ ~dstErr \/ n = 0
              /\ ~dstErr' => ~dstErr /\ n = SafeLen(buf \o Chunk(e))
  <1> DEFINE data == buf \o Chunk(e)
             safe == SafeLen(data)
  <1>1. Hold(e)
    BY DEF WriteForwards, WriteFails
  <1>2. safe \in Nat /\ safe <= Len(data) /\ Len(data) \in Nat
    BY ForwardSafe
  <1>3. data \in Seq(Byte)
    BY <1>1, ChunkExtendsTail
  <1>4. \E n \in Nat :
            /\ n <= safe
            /\ out' = out \o SubSeq(data, 1, n)
            /\ ~dstErr \/ n = 0
            /\ ~dstErr' => ~dstErr /\ n = safe
    <2>1. CASE WriteForwards(e)
      <3>1. out' = out \o SubSeq(data, 1, safe) /\ ~dstErr /\ ~dstErr'
        BY <2>1 DEF WriteForwards, Accept
      <3>2. safe \in Nat /\ safe <= safe
        BY <1>2
      <3>3. QED
        BY <3>1, <3>2, Zenon
    <2>2. ASSUME NEW n \in 0..Len(up.text), WriteFails(e, n)
          PROVE  \E m \in Nat :
                     /\ m <= safe
                     /\ out' = out \o SubSeq(data, 1, m)
                     /\ ~dstErr \/ m = 0
                     /\ ~dstErr' => ~dstErr /\ m = safe
      <3>1. /\ Reject(SubSeq(data, 1, safe), n) /\ n \in Nat
        BY <2>2 DEF WriteFails
      <3>2. Len(SubSeq(data, 1, safe)) = safe
        BY <1>1, <1>2, NextOfData
      <3>3. /\ n < safe /\ dstErr' = TRUE /\ (~dstErr \/ n = 0)
            /\ out' = out \o SubSeq(SubSeq(data, 1, safe), 1, n)
        BY <3>1, <3>2 DEF Reject, IndInv, TypeOK
      <3>4. SubSeq(SubSeq(data, 1, safe), 1, n) = SubSeq(data, 1, n)
        <4> HIDE DEF data, safe
        <4>1. /\ safe \in Int /\ 1 <= safe + 1 /\ safe <= Len(data)
              /\ n \in Int /\ 1 <= n + 1 /\ n <= safe - 1 + 1
              /\ 1 + 1 - 1 = 1 /\ 1 + n - 1 = n
          BY <1>2, <3>1, <3>3
        <4>2. SubSeq(SubSeq(data, 1, safe), 1, n) = SubSeq(data, 1 + 1 - 1, 1 + n - 1)
          BY <1>3, <4>1, StretchOfStretch
        <4>3. QED
          BY <4>1, <4>2, Zenon
      <3>5. n <= safe
        BY <1>2, <3>1, <3>3
      <3>6. QED
        BY <3>1, <3>3, <3>4, <3>5, Zenon
    <2>3. QED
      BY <2>1, <2>2
  <1>5. QED
    BY <1>4

\* Flush hands n bytes to the writer, which keeps them all or fails.
LEMMA ForwardStep ==
    ASSUME IndInv, NEW e \in ChunkEnds,
           WriteForwards(e) \/ \E n \in 0..Len(up.text) : WriteFails(e, n)
    PROVE  IndInv'
  <1> DEFINE data == buf \o Chunk(e)
             safe == SafeLen(data)
  <1>1. Hold(e) /\ ~containsUnsafe(data) /\ safe > 0
    BY DEF WriteForwards, WriteFails, BufferUnsafe
  <1>2. /\ e \in Nat /\ got < e /\ e <= Len(up.text)
        /\ Len(data) = Len(buf) + e - got /\ Len(data) \in Nat
        /\ safe = Len(data) - Size /\ safe \in Nat /\ safe <= Len(data)
    BY <1>1, ChunkExtendsTail, LenProperties, SizePositive DEF SafeLen
  <1>3. /\ pc = "reading" /\ ~aborted /\ result = "none" /\ event = "none"
        /\ up' = up /\ adapter' = adapter /\ status' = status /\ conn' = conn
        /\ aborts' = aborts /\ event' = event
        /\ pos' = e /\ got' = e
        /\ pos' \in 0..Len(up'.text) /\ got' \in 0..pos'
    BY <1>1, HoldFacts
  <1>4. aborted' = FALSE
    BY <1>3 DEF WriteForwards, WriteFails
  <1>5. Len(buf) \in Nat /\ got \in Nat /\ Len(buf) <= got /\ Len(out) \in Nat
        /\ Len(up.text) \in Nat
    BY LenProperties, TextType DEF IndInv, TypeOK, BufIsTail
  <1>6. data \in Seq(Byte) /\ data = SubSeq(up.text, got - Len(buf) + 1, e)
    BY <1>1, ChunkExtendsTail
  <1>7. \A j \in 1..e : \A i \in 1..j : j - i <= Size => ~UnsafeSpan(up.text, i, j)
    BY <1>1, <1>3, ScanCovers
  <1>8. PICK n \in Nat :
            /\ n <= safe
            /\ out' = out \o SubSeq(data, 1, n)
            /\ ~dstErr \/ n = 0
            /\ ~dstErr' => ~dstErr /\ n = safe
    BY ForwardGives
  <1>9. \/ buf' = data /\ dstErr'
        \/ buf' = BufNext(data, safe) /\ ~dstErr' /\ ~dstErr
    BY DEF WriteForwards, WriteFails, Accept, Reject
  <1>10. /\ BufNext(data, safe) = SubSeq(up.text, got - Len(buf) + safe + 1, e)
         /\ BufNext(data, safe) \in Seq(Byte)
         /\ Len(BufNext(data, safe)) = Len(data) - safe
    BY <1>1, <1>2, NextOfData
  <1>11. /\ out' = SubSeq(up.text, 1, Len(out) + n)
         /\ out' \in Seq(Byte)
         /\ Len(out') = Len(out) + n
    <2>1. n <= Len(data)
      BY <1>2, <1>8
    <2>2. QED
      BY <1>1, <1>8, <2>1, OutExtends
  <1>12. \/ pc' = pc /\ result' = result
         \/ pc' = "returned" /\ result' = "error"
    BY DEF WriteForwards, WriteFails, WriteErrorSeen, Return
  <1>13. wire' \in 0..Len(out')
    <2>1. wire \in Nat /\ wire <= Len(out) /\ Len(out') \in Nat /\ Len(out) <= Len(out')
      BY <1>5, <1>8, <1>11 DEF IndInv, TypeOK
    <2>2. wire' = wire \/ wire' \in Sent(out')
      BY DEF WriteForwards, WriteFails, Accept, Reject
    <2>3. QED
      BY <2>1, <2>2 DEF Sent
  <1>14. /\ dstErr' \in BOOLEAN /\ first' \in BOOLEAN /\ ttft' \in Nat
         /\ (conn = "up" => ~dstErr')
    <2>1. CASE WriteForwards(e)
      BY <2>1 DEF WriteForwards, Accept, IndInv, TypeOK
    <2>2. ASSUME NEW k \in 0..Len(up.text), WriteFails(e, k)
          PROVE  /\ dstErr' = TRUE /\ first' = first /\ ttft' = ttft
                 /\ conn = "up" => FALSE
      BY <2>2 DEF WriteFails, Reject, IndInv, Flags
    <2>3. QED
      BY <2>1, <2>2, Zenon DEF IndInv, TypeOK
  <1> HIDE DEF data, safe
  <1>15. TypeOK'
    BY <1>3, <1>4, <1>6, <1>9, <1>10, <1>11, <1>12, <1>13, <1>14
       DEF IndInv, TypeOK, Stages, Results
  <1>16. Len(out') = 0 \/ Len(out') + Size <= e
    <2>1. CASE dstErr
      <3>1. out = << >> \/ Len(out) + Size <= got
        BY <1>3 DEF IndInv, Lookahead
      <3>2. QED
        BY <1>2, <1>5, <1>8, <1>11, <2>1, <3>1, SizePositive
    <2>2. CASE ~dstErr
      <3>1. Len(out) + Len(buf) = got
        BY <1>3, <2>2 DEF IndInv, BufHoldsRest
      <3>2. QED
        BY <1>2, <1>5, <1>8, <1>11, <3>1, SizePositive
    <2>3. QED
      BY <2>1, <2>2
  <1>17. OutIsPrefix'
    <2>1. Len(out') <= e
      BY <1>2, <1>5, <1>8, <1>11, <1>16, SizePositive
    <2>2. out' = SubSeq(up.text, 1, Len(out'))
      BY <1>11, Zenon
    <2>3. QED
      BY <1>3, <2>1, <2>2, Zenon DEF OutIsPrefix
  <1>18. BufIsTail'
    <2>1. CASE buf' = data
      <3>1. Len(data) <= e /\ e - Len(data) + 1 = got - Len(buf) + 1
        BY <1>2, <1>5
      <3>2. data = SubSeq(up.text, e - Len(data) + 1, e)
        BY <1>6, <3>1, Zenon
      <3>3. QED
        BY <1>3, <2>1, <3>1, <3>2, Zenon DEF BufIsTail
    <2>2. CASE buf' = BufNext(data, safe)
      <3>1. Len(buf') = Len(data) - safe
        BY <1>10, <2>2, Zenon
      <3>2. Len(buf') <= e /\ e - Len(buf') + 1 = got - Len(buf) + safe + 1
        BY <1>2, <1>5, <3>1
      <3>3. buf' = SubSeq(up.text, e - Len(buf') + 1, e)
        BY <1>10, <2>2, <3>2, Zenon
      <3>4. QED
        BY <1>3, <3>2, <3>3, Zenon DEF BufIsTail
    <2>3. QED
      BY <1>9, <2>1, <2>2
  <1>19. BufHoldsRest'
    <2>1. CASE buf' = data /\ dstErr'
      <3>0. Len(buf') = Len(data) /\ Len(data) >= Size
        BY <1>1, <1>2, <2>1, SizePositive
      <3>1. Len(buf') >= Size
        BY <3>0, Zenon
      <3>2. QED
        BY <2>1, <3>1 DEF BufHoldsRest
    <2>2. CASE buf' = BufNext(data, safe) /\ ~dstErr' /\ ~dstErr
      <3>1. Len(buf') = Len(data) - safe
        BY <1>10, <2>2, Zenon
      <3>2. Len(out) + Len(buf) = got
        BY <1>3, <2>2 DEF IndInv, BufHoldsRest
      <3>3. n = safe /\ Len(out') = Len(out) + n
        BY <1>8, <1>11, <2>2
      <3>4. Len(out') + Len(buf') = e /\ Len(buf') >= Size
        BY <1>2, <1>5, <3>1, <3>2, <3>3, SizePositive
      <3>5. QED
        BY <1>3, <3>4 DEF BufHoldsRest
    <2>3. QED
      BY <1>9, <2>1, <2>2
  <1>20. Flags'
    BY <1>3, <1>4, <1>12, <1>14 DEF IndInv, Flags
  <1>21. Lookahead'
    <2>1. Len(out') = 0 => out' = << >>
      BY <1>11
    <2>2. QED
      BY <1>3, <1>16, <2>1 DEF Lookahead
  <1>22. ReceivedIsClean'
    BY <1>3, <1>7 DEF ReceivedIsClean
  <1>23. FittingSpansHeld'
    <2> SUFFICES ASSUME NEW i \in 1..Len(out'), NEW j \in i..Len(up.text), j - i <= Size
                 PROVE  ~UnsafeSpan(up.text, i, j)
      BY <1>3 DEF FittingSpansHeld
    <2>1. Len(out') \in Nat
      BY <1>5, <1>8, <1>11
    <2>2. j \in 1..e /\ i \in 1..j
      BY <1>2, <1>5, <1>16, <2>1, SizePositive
    <2>3. QED
      BY <1>7, <2>2
  <1>24. QED
    BY <1>15, <1>17, <1>18, <1>19, <1>20, <1>21, <1>22, <1>23 DEF IndInv

-----------------------------------------------------------------------------
(* The drain.                                                              *)

\* The client's bytes once the writer took n bytes of the last buffer.
LEMMA DrainExtends ==
    ASSUME IndInv, pc # "done", NEW n \in Nat, n <= Len(buf), ~dstErr \/ n = 0
    PROVE  /\ out \o SubSeq(buf, 1, n) = SubSeq(up.text, 1, Len(out) + n)
           /\ out \o SubSeq(buf, 1, n) \in Seq(Byte)
           /\ Len(out \o SubSeq(buf, 1, n)) = Len(out) + n
           /\ Len(out) + n <= got
  <1> DEFINE l == Len(out)
             t == up.text
  <1>1. /\ t \in Seq(Byte) /\ Len(t) \in Nat /\ l \in Nat /\ got \in Nat
        /\ Len(buf) \in Nat /\ Len(buf) <= got /\ got <= Len(t) /\ l <= got
    BY TextType, LenProperties DEF IndInv, TypeOK, BufIsTail, OutIsPrefix
  <1>2. out = SubSeq(t, 1, l)
    BY DEF IndInv, OutIsPrefix
  <1>3. CASE ~dstErr
    <2>1. l + Len(buf) = got
      BY <1>3 DEF IndInv, BufHoldsRest
    <2>2. got - Len(buf) + 1 = l + 1 /\ l <= got /\ n <= got - l /\ l + n <= got
      BY <1>1, <2>1
    <2>3. buf = SubSeq(t, l + 1, got)
      BY <2>2, Zenon DEF IndInv, BufIsTail
    <2>4. t \in Seq(Byte) /\ l \in Nat /\ got \in Nat /\ got <= Len(t)
      BY <1>1
    <2> HIDE DEF l, t
    <2>5. out \o SubSeq(buf, 1, n) = SubSeq(t, 1, l + n)
      BY <1>2, <2>2, <2>3, <2>4, PrefixExtends
    <2>6. out \o SubSeq(buf, 1, n) \in Seq(Byte)
      BY <1>2, <2>2, <2>3, <2>4, PrefixExtends
    <2>7. Len(out \o SubSeq(buf, 1, n)) = l + n
      BY <1>2, <2>2, <2>3, <2>4, PrefixExtends
    <2>8. QED
      BY <2>2, <2>5, <2>6, <2>7, Zenon DEF l, t
  <1>4. CASE n = 0
    <2>1. SubSeq(buf, 1, n) = << >>
      BY <1>4, SubSeqEmpty
    <2>2. out \in Seq(Byte) /\ l + n = l
      BY <1>1, <1>4 DEF IndInv, TypeOK
    <2>3. out \o << >> = out
      BY <2>2, ConcatEmptySeq
    <2>4. QED
      BY <1>1, <1>2, <2>1, <2>2, <2>3, Zenon
  <1>5. QED
    BY <1>3, <1>4

\* What DrainSafe gives the client: the buffer, or its head when the writer fails.
LEMMA DrainGives ==
    ASSUME IndInv, DrainForwards \/ \E n \in 0..Len(buf) : DrainFails(n)
    PROVE  \E n \in Nat :
              /\ n <= Len(buf)
              /\ ~dstErr \/ n = 0
              /\ out' = out \o SubSeq(buf, 1, n)
  <1>1. Len(buf) \in Nat /\ buf \in Seq(Byte)
    BY LenProperties DEF IndInv, TypeOK
  <1>2. \E n \in Nat :
            /\ n <= Len(buf)
            /\ ~dstErr \/ n = 0
            /\ out' = out \o SubSeq(buf, 1, n)
    <2>1. CASE DrainForwards
      <3>1. out' = out \o buf /\ (buf = << >> \/ ~dstErr)
        BY <2>1 DEF DrainForwards
      <3>2. SubSeq(buf, 1, Len(buf)) = buf
        BY <1>1, SubSeqFull
      <3>3. buf = << >> => Len(buf) = 0
        OBVIOUS
      <3>4. Len(buf) <= Len(buf)
        BY <1>1
      <3>5. QED
        BY <1>1, <3>1, <3>2, <3>3, <3>4, Zenon
    <2>2. ASSUME NEW n \in 0..Len(buf), DrainFails(n)
          PROVE  \E k \in Nat :
                    /\ k <= Len(buf)
                    /\ ~dstErr \/ k = 0
                    /\ out' = out \o SubSeq(buf, 1, k)
      <3>1. /\ n \in Nat /\ n <= Len(buf) /\ (~dstErr \/ n = 0)
            /\ out' = out \o SubSeq(buf, 1, n)
        BY <1>1, <2>2 DEF DrainFails, IndInv, TypeOK
      <3>2. QED
        BY <3>1, Zenon
    <2>3. QED
      BY <2>1, <2>2
  <1>3. QED
    BY <1>2

\* DrainSafe after the adapter returned keeps the invariant.
LEMMA DrainStep ==
    ASSUME IndInv, DrainForwards \/ \E n \in 0..Len(buf) : DrainFails(n)
    PROVE  IndInv'
  <1>1. /\ pc = "returned" /\ pc' = "done" /\ result = "nil" /\ ~aborted
        /\ up' = up /\ adapter' = adapter /\ status' = status /\ pos' = pos
        /\ got' = got /\ conn' = conn /\ aborted' = aborted /\ result' = result
        /\ aborts' = aborts /\ event' = event /\ buf' = << >>
    BY DEF DrainForwards, DrainFails, Draining, DrainStats, Finish, upstream
  <1>2. /\ Len(out) \in Nat /\ Len(buf) \in Nat /\ got \in Nat /\ Len(up.text) \in Nat
        /\ out \in Seq(Byte) /\ buf \in Seq(Byte)
    BY LenProperties, TextType DEF IndInv, TypeOK
  <1>3. got = Len(up.text)
    BY <1>1 DEF IndInv, Flags
  <1>4. PICK n \in Nat :
            /\ n <= Len(buf)
            /\ ~dstErr \/ n = 0
            /\ out' = out \o SubSeq(buf, 1, n)
    BY DrainGives
  <1>5. /\ out' = SubSeq(up.text, 1, Len(out) + n)
        /\ out' \in Seq(Byte)
        /\ Len(out') = Len(out) + n
        /\ Len(out) + n <= got
    BY <1>1, <1>4, DrainExtends
  <1>6. wire' \in 0..Len(out')
    <2>1. wire' = wire \/ wire' = Len(out')
      BY DEF DrainForwards, DrainFails, Finish
    <2>2. wire \in Nat /\ wire <= Len(out) /\ Len(out') \in Nat /\ Len(out) <= Len(out')
      BY <1>2, <1>4, <1>5 DEF IndInv, TypeOK
    <2>3. QED
      BY <2>1, <2>2
  <1>7. /\ dstErr' \in BOOLEAN /\ first' \in BOOLEAN /\ ttft' \in Nat
        /\ (conn = "up" => ~dstErr')
    <2>1. CASE DrainForwards
      BY <2>1 DEF DrainForwards, DrainStats, IndInv, TypeOK, Flags
    <2>2. ASSUME NEW k \in 0..Len(buf), DrainFails(k)
          PROVE  /\ dstErr' = TRUE /\ first' \in BOOLEAN /\ ttft' \in Nat
                 /\ conn = "up" => FALSE
      BY <2>2 DEF DrainFails, DrainStats, IndInv, TypeOK, Flags
    <2>3. QED
      BY <2>1, <2>2, Zenon
  <1>8. TypeOK'
    BY <1>1, <1>5, <1>6, <1>7 DEF IndInv, TypeOK, Stages
  <1>9. OutIsPrefix'
    <2>1. out' = SubSeq(up.text, 1, Len(out')) /\ Len(out') <= got
      BY <1>5, Zenon
    <2>2. QED
      BY <1>1, <2>1, Zenon DEF OutIsPrefix
  <1>10. BufIsTail'
    <2>1. Len(<< >>) = 0 /\ got - 0 + 1 = got + 1 /\ 0 <= got
      BY <1>2
    <2>2. SubSeq(up.text, got + 1, got) = << >>
      BY <1>2, SubSeqEmpty
    <2>3. QED
      BY <1>1, <2>1, <2>2 DEF BufIsTail
  <1>11. BufHoldsRest' /\ Lookahead' /\ ReceivedIsClean'
    BY <1>1 DEF BufHoldsRest, Lookahead, ReceivedIsClean
  <1>12. Flags'
    BY <1>1, <1>7 DEF IndInv, Flags
  <1>13. FittingSpansHeld'
    <2> SUFFICES ASSUME NEW i \in 1..Len(out'), NEW j \in i..Len(up.text), j - i <= Size
                 PROVE  ~UnsafeSpan(up.text, i, j)
      BY <1>1 DEF FittingSpansHeld
    <2>1. j \in 1..got /\ i \in 1..j
      BY <1>2, <1>3, <1>4, <1>5
    <2>2. QED
      BY <1>1, <2>1 DEF IndInv, ReceivedIsClean
  <1>14. QED
    BY <1>8, <1>9, <1>10, <1>11, <1>12, <1>13 DEF IndInv

-----------------------------------------------------------------------------
(* The invariant and what follows from it.                                 *)

\* The invariant holds when the request reaches the streaming half of the handler.
LEMMA IndInvInit == Init => IndInv
  <1> SUFFICES ASSUME Init PROVE IndInv
    OBVIOUS
  <1>1. /\ up \in Upstreams /\ up.text \in Seq(Byte) /\ Len(up.text) \in Nat
        /\ buf = << >> /\ out = << >> /\ Len(buf) = 0 /\ Len(out) = 0 /\ got = 0 /\ pos = 0
    BY StreamAssumption, LenProperties DEF Init
  <1>2. TypeOK
    <2>1. << >> \in Seq(Byte)
      OBVIOUS
    <2>2. /\ pos \in 0..Len(up.text) /\ got \in 0..pos /\ wire \in 0..Len(out)
          /\ aborts \in 0..1
      BY <1>1 DEF Init
    <2>3. QED
      BY <1>1, <2>1, <2>2, Zenon DEF Init, TypeOK, Stages, Results, Events
  <1>3. SubSeq(up.text, 1, 0) = << >>
    BY SubSeqEmpty
  <1>4. OutIsPrefix /\ BufIsTail
    BY <1>1, <1>3 DEF OutIsPrefix, BufIsTail
  <1>5. BufHoldsRest /\ Lookahead /\ Flags
    BY <1>1 DEF Init, BufHoldsRest, Lookahead, Flags
  <1>6. ReceivedIsClean /\ FittingSpansHeld
    BY <1>1 DEF ReceivedIsClean, FittingSpansHeld
  <1>7. QED
    BY <1>2, <1>4, <1>5, <1>6 DEF IndInv

\* Every step of the handler, an adapter or the connection keeps the invariant.
LEMMA IndInvStep == IndInv /\ [Next]_vars => IndInv'
  <1> SUFFICES ASSUME IndInv, [Next]_vars PROVE IndInv'
    OBVIOUS
  <1>1. CASE \/ SendHeaders
             \/ \E r \in Results : ConnectFails(r)
             \/ Connect
             \/ UpstreamEnds
             \/ \E r \in Results : UpstreamFails(r)
             \/ ConnBreaks
    BY <1>1, ProviderStep
  <1>2. ASSUME NEW e \in ChunkEnds, WriteRefused(e) PROVE IndInv'
    BY <1>2, RefusedStep
  <1>3. ASSUME NEW e \in ChunkEnds, WriteAborts(e) \/ WriteHeld(e) PROVE IndInv'
    BY <1>3, GrowStep
  <1>4. ASSUME NEW e \in ChunkEnds,
               WriteForwards(e) \/ \E n \in 0..Len(up.text) : WriteFails(e, n)
        PROVE  IndInv'
    BY <1>4, ForwardStep
  <1>5. CASE AfterError \/ AfterAbort \/ DrainAborts
    BY <1>5, VerdictStep
  <1>6. CASE DrainForwards \/ \E n \in 0..Len(buf) : DrainFails(n)
    BY <1>6, DrainStep
  <1>7. CASE UNCHANGED vars
    BY <1>7 DEF vars, upstream, window, client, stats, IndInv, TypeOK, OutIsPrefix,
                BufIsTail, BufHoldsRest, Flags, Lookahead, ReceivedIsClean,
                FittingSpansHeld
  <1>8. QED
    BY <1>1, <1>2, <1>3, <1>4, <1>5, <1>6, <1>7 DEF Next, Handler

\* Every reachable state satisfies the inductive invariant.
THEOREM StreamInvariant == Spec => []IndInv
  BY IndInvInit, IndInvStep, PTL DEF Spec

\* Every reachable state of handleStream, the window and the adapters is well typed.
THEOREM StreamTypeCorrect == Spec => []TypeOK
  <1>1. IndInv => TypeOK
    BY DEF IndInv
  <1>2. QED
    BY <1>1, StreamInvariant, PTL

\* Window.Write, Flush and DrainSafe lose, repeat and reorder no byte.
THEOREM StreamConserves == Spec => []Conservation
  <1>1. IndInv => Conservation
    BY DEF IndInv, OutIsPrefix, BufIsTail, BufHoldsRest, Conservation
  <1>2. QED
    BY <1>1, StreamInvariant, PTL

\* Before the drain, Flush keeps Size bytes of lookahead from the client.
THEOREM StreamLooksAhead == Spec => []Lookahead
  <1>1. IndInv => Lookahead
    BY DEF IndInv
  <1>2. QED
    BY <1>1, StreamInvariant, PTL

\* Unsafe content of at most Size + 1 raw bytes never begins to reach the client.
THEOREM StreamHoldsFittingSpans == Spec => []FittingSpansHeld
  <1>1. IndInv => FittingSpansHeld
    BY DEF IndInv
  <1>2. QED
    BY <1>1, StreamInvariant, PTL

\* After winWriter.aborted is set no write and no drain reaches the client.
THEOREM StreamSilentAfterAbort == Spec => NothingAfterAbort
  <1>1. [Next]_vars => [aborted => out' = out]_vars
    <2> SUFFICES ASSUME [Next]_vars, aborted PROVE out' = out
      OBVIOUS
    <2>1. CASE UNCHANGED vars
      BY <2>1 DEF vars, client
    <2>2. CASE Next
      BY <2>2 DEF Next, Handler, SendHeaders, ConnectFails, Connect, UpstreamEnds,
         UpstreamFails, WriteRefused, WriteAborts, WriteHeld, WriteForwards,
         WriteFails, AfterError, AfterAbort, DrainAborts, DrainForwards, DrainFails,
         ConnBreaks, Hold, Draining, client
    <2>3. QED
      BY <2>1, <2>2
  <1>2. QED
    BY <1>1, PTL DEF Spec, NothingAfterAbort

\* A step from a running stream keeps the correspondence of body and event.
LEMMA CompletenessStep ==
    IndInv /\ CompleteIffNoEvent /\ [Next]_vars => CompleteIffNoEvent'
  <1> SUFFICES ASSUME IndInv, CompleteIffNoEvent, [Next]_vars,
                      pc' = "done", conn' = "up", ~aborted', up'.text # << >>
               PROVE  event' = "none" <=> out' = up'.text
    BY DEF CompleteIffNoEvent
  <1>0. /\ up.text \in Seq(Byte) /\ Len(up.text) \in Nat /\ Len(out) \in Nat
        /\ Len(buf) \in Nat /\ got \in Nat /\ got <= Len(up.text) /\ buf \in Seq(Byte)
        /\ out \in Seq(Byte)
    BY TextType, LenProperties DEF IndInv, TypeOK
  <1>1. CASE UNCHANGED vars
    BY <1>1 DEF vars, upstream, window, client, CompleteIffNoEvent
  <1>2. CASE AfterError \/ DrainAborts
    <2>1. /\ pc = "returned" /\ up' = up /\ out' = out /\ conn = "up" /\ ~aborted
      BY <1>2 DEF AfterError, DrainAborts, Draining, upstream, window
    <2>2. ~dstErr
      BY <2>1 DEF IndInv, Flags
    <2>3. event' # "none"
      BY <1>2, <2>1, <2>2 DEF AfterError, DrainAborts, Emit
    <2>4. out = << >> \/ Len(out) + Size <= got
      BY <2>1 DEF IndInv, Lookahead
    <2>5. Len(out) + Size <= got => Len(out) # Len(up.text)
      BY <1>0, SizePositive
    <2>6. out # up.text
      BY <2>1, <2>4, <2>5
    <2>7. QED
      BY <2>1, <2>3, <2>6
  <1>3. CASE AfterAbort
    BY <1>3 DEF AfterAbort, window
  <1>4. CASE DrainForwards
    <2>1. /\ pc = "returned" /\ up' = up /\ conn = "up" /\ ~aborted /\ result = "nil"
          /\ out' = out \o buf /\ event' = event
      BY <1>4 DEF DrainForwards, Draining, upstream
    <2>2. ~dstErr /\ event = "none" /\ got = Len(up.text) /\ Len(out) + Len(buf) = got
      BY <2>1 DEF IndInv, Flags, BufHoldsRest
    <2>3. SubSeq(buf, 1, Len(buf)) = buf
      BY <1>0, SubSeqFull
    <2>4. Len(buf) <= Len(buf)
      BY <1>0
    <2>5. out \o SubSeq(buf, 1, Len(buf)) = SubSeq(up.text, 1, Len(out) + Len(buf))
      BY <1>0, <2>1, <2>2, <2>4, DrainExtends
    <2>6. SubSeq(up.text, 1, Len(up.text)) = up.text
      BY <1>0, SubSeqFull
    <2>7. out' = up'.text
      BY <2>1, <2>2, <2>3, <2>5, <2>6, Zenon
    <2>8. QED
      BY <2>1, <2>2, <2>7
  <1>5. ASSUME NEW n \in 0..Len(buf), DrainFails(n) PROVE FALSE
    <2>1. conn = "up" /\ (dstErr \/ conn = "down")
      BY <1>5 DEF DrainFails, Draining
    <2>2. QED
      BY <2>1 DEF IndInv, Flags
  <1>6. ASSUME NEW e \in ChunkEnds,
               \/ WriteRefused(e) \/ WriteAborts(e) \/ WriteHeld(e) \/ WriteForwards(e)
               \/ \E n \in 0..Len(up.text) : WriteFails(e, n)
        PROVE  FALSE
    BY <1>6 DEF WriteRefused, WriteAborts, WriteHeld, WriteForwards, WriteFails,
                Hold, Offer, WriteErrorSeen, Return
  <1>7. CASE \/ SendHeaders
             \/ \E r \in Results : ConnectFails(r)
             \/ Connect
             \/ UpstreamEnds
             \/ \E r \in Results : UpstreamFails(r)
             \/ ConnBreaks
    BY <1>7 DEF SendHeaders, ConnectFails, Connect, UpstreamEnds, UpstreamFails,
                ConnBreaks, Return
  <1>8. QED
    BY <1>1, <1>2, <1>3, <1>4, <1>5, <1>6, <1>7 DEF Next, Handler

\* A client that stayed connected to a stream that was not aborted got the whole
\* response exactly if it got no error event.
THEOREM StreamCompleteness == Spec => []CompleteIffNoEvent
  <1>1. Init => CompleteIffNoEvent
    BY DEF Init, CompleteIffNoEvent
  <1>2. QED
    BY <1>1, CompletenessStep, StreamInvariant, PTL DEF Spec

-----------------------------------------------------------------------------
(* The time to the first chunk.                                            *)

\* The metric follows firstChunkSentAt, and that follows what the client got.
TTFTCounts ==
    /\ ttft = IF first THEN 1 ELSE 0
    /\ ~dstErr => (first <=> out # << >>)

\* A sequence that something is appended to is not empty.
LEMMA NonEmptyAppend ==
    ASSUME NEW o \in Seq(Byte), NEW b \in Seq(Byte), Len(b) > 0
    PROVE  o \o b # << >>
  BY ConcatProperties, LenProperties, EmptySeq

\* Every step of the handler keeps the metric and the client's bytes together.
LEMMA TTFTStep == IndInv /\ TTFTCounts /\ [Next]_vars => TTFTCounts'
  <1> SUFFICES ASSUME IndInv, TTFTCounts, [Next]_vars PROVE TTFTCounts'
    OBVIOUS
  <1>0. first \in BOOLEAN /\ dstErr \in BOOLEAN /\ buf \in Seq(Byte) /\ out \in Seq(Byte)
    BY DEF IndInv, TypeOK
  <1>1. ASSUME first' = first, ttft' = ttft, dstErr' \/ (dstErr' = dstErr /\ out' = out)
        PROVE  TTFTCounts'
    BY <1>1 DEF TTFTCounts
  <1>2. CASE \/ SendHeaders
             \/ \E r \in Results : ConnectFails(r)
             \/ Connect
             \/ UpstreamEnds
             \/ \E r \in Results : UpstreamFails(r)
             \/ ConnBreaks
             \/ UNCHANGED vars
    BY <1>1, <1>2 DEF SendHeaders, ConnectFails, Connect, UpstreamEnds, UpstreamFails,
                      ConnBreaks, vars, client, stats
  <1>3. CASE AfterError \/ AfterAbort \/ DrainAborts
    BY <1>1, <1>3 DEF AfterError, AfterAbort, DrainAborts, stats
  <1>4. ASSUME NEW e \in ChunkEnds,
               \/ WriteRefused(e) \/ WriteAborts(e) \/ WriteHeld(e)
               \/ \E n \in 0..Len(up.text) : WriteFails(e, n)
        PROVE  TTFTCounts'
    BY <1>1, <1>4 DEF WriteRefused, WriteAborts, WriteHeld, WriteFails, Reject, client
  <1>5. ASSUME NEW e \in ChunkEnds, WriteForwards(e) PROVE TTFTCounts'
    <2> DEFINE data == buf \o Chunk(e)
               head == SubSeq(data, 1, SafeLen(data))
    <2>1. /\ Hold(e) /\ SafeLen(data) > 0 /\ out' = out \o head
          /\ first' = TRUE /\ ttft' = IF first THEN ttft ELSE ttft + 1
      BY <1>5 DEF WriteForwards, Accept
    <2>2. SafeLen(data) \in Nat /\ SafeLen(data) <= Len(data)
      BY <1>5, ForwardSafe
    <2>3. head \in Seq(Byte) /\ Len(head) = SafeLen(data)
      BY <2>1, <2>2, NextOfData
    <2>4. out' # << >>
      BY <1>0, <2>1, <2>2, <2>3, NonEmptyAppend
    <2>5. ttft' = 1
      BY <1>0, <2>1 DEF TTFTCounts
    <2>6. QED
      BY <2>1, <2>4, <2>5 DEF TTFTCounts
  <1>6. ASSUME NEW n \in Nat, DrainStats(n) PROVE ttft' = (IF first' THEN 1 ELSE 0)
    <2>1. CASE first
      BY <1>6, <2>1 DEF DrainStats, TTFTCounts
    <2>2. CASE ~first /\ n = 0
      <3>1. ~(n > 0)
        BY <2>2
      <3>2. first' = FALSE /\ ttft' = ttft /\ ttft = 0
        BY <1>6, <2>2, <3>1, Zenon DEF DrainStats, TTFTCounts
      <3>3. QED
        BY <3>2
    <2>3. CASE ~first /\ n > 0
      <3>1. first' = TRUE /\ ttft' = ttft + 1 /\ ttft = 0
        BY <1>6, <2>3 DEF DrainStats, TTFTCounts
      <3>2. QED
        BY <3>1
    <2>4. QED
      BY <2>1, <2>2, <2>3
  <1>7. CASE DrainForwards
    <2>1. /\ out' = out \o buf /\ dstErr' = dstErr
          /\ DrainStats(Len(buf)) /\ first' = (first \/ Len(buf) > 0)
      BY <1>7 DEF DrainForwards, DrainStats
    <2>2. Len(buf) \in Nat
      BY <1>0, LenProperties
    <2>3. CASE Len(buf) = 0
      <3>1. buf = << >>
        BY <1>0, <2>3, EmptySeq
      <3>2. out' = out
        BY <1>0, <2>1, <3>1, ConcatEmptySeq
      <3>3. ~(Len(buf) > 0)
        BY <2>3
      <3>4. first' = first
        BY <1>0, <2>1, <3>3, Zenon
      <3>5. ttft' = ttft
        BY <2>1, <3>3 DEF DrainStats
      <3>6. QED
        BY <1>1, <2>1, <3>2, <3>4, <3>5
    <2>4. CASE Len(buf) > 0
      <3>1. out' # << >> /\ first'
        BY <1>0, <2>1, <2>4, NonEmptyAppend
      <3>2. ttft' = (IF first' THEN 1 ELSE 0)
        BY <1>6, <2>1, <2>2
      <3>3. QED
        BY <3>1, <3>2 DEF TTFTCounts
    <2>5. QED
      BY <2>2, <2>3, <2>4
  <1>8. ASSUME NEW n \in 0..Len(buf), DrainFails(n) PROVE TTFTCounts'
    <2>1. dstErr' = TRUE /\ DrainStats(n) /\ n \in Nat
      BY <1>8 DEF DrainFails
    <2>2. ttft' = (IF first' THEN 1 ELSE 0)
      BY <1>6, <2>1
    <2>3. QED
      BY <2>1, <2>2 DEF TTFTCounts
  <1>9. QED
    BY <1>2, <1>3, <1>4, <1>5, <1>7, <1>8 DEF Next, Handler

\* StreamTTFTSeconds is observed by windowWriter.Write or by the drain of
\* gateway.go, once per stream whose client was given a byte and never twice.
THEOREM StreamTTFTOnce == Spec => []TTFTOnce
  <1>1. Init => TTFTCounts
    BY DEF Init, TTFTCounts
  <1>2. IndInv /\ TTFTCounts => TTFTOnce
    BY DEF IndInv, TypeOK, TTFTCounts, TTFTOnce
  <1>3. QED
    BY <1>1, <1>2, TTFTStep, StreamInvariant, PTL DEF Spec

-----------------------------------------------------------------------------
(* The stream implements the relay, step by step.                          *)

RelayState == IF pc = "done" THEN "closed" ELSE IF aborted THEN "cut" ELSE "open"

\* What happens outside the window and the response body is no step of the relay.
LEMMA ProviderIsQuiet ==
    ASSUME \/ SendHeaders
           \/ \E r \in Results : ConnectFails(r)
           \/ Connect
           \/ UpstreamEnds
           \/ \E r \in Results : UpstreamFails(r)
           \/ ConnBreaks
           \/ \E e \in ChunkEnds : WriteRefused(e)
           \/ UNCHANGED vars
    PROVE  UNCHANGED <<up.text, got, out, RelayState>>
  <1>1. up' = up /\ got' = got /\ out' = out /\ aborted' = aborted
    BY DEF SendHeaders, ConnectFails, Connect, UpstreamEnds, UpstreamFails, ConnBreaks,
           WriteRefused, Offer, vars, upstream, window, client
  <1>2. pc' = "done" <=> pc = "done"
    BY DEF SendHeaders, ConnectFails, Connect, UpstreamEnds, UpstreamFails, ConnBreaks,
           WriteRefused, Offer, WriteErrorSeen, Return, vars
  <1>3. QED
    BY <1>1, <1>2 DEF RelayState

\* A write that finds unsafe content cuts the relay.
LEMMA AbortCuts ==
    ASSUME IndInv, NEW e \in ChunkEnds, WriteAborts(e)
    PROVE  /\ e \in got..Len(up.text)
           /\ RelayState = "open" /\ RelayState' = "cut"
           /\ got' = e /\ up' = up /\ out' = out
  <1>1. Hold(e) /\ aborted' = TRUE /\ out' = out
    BY DEF WriteAborts, client
  <1>2. e \in Nat /\ got < e /\ e <= Len(up.text)
    BY <1>1, ChunkExtendsTail
  <1>3. e \in got..Len(up.text)
    BY <1>2, TextType DEF IndInv, TypeOK
  <1>4. pc = "reading" /\ ~aborted /\ up' = up /\ got' = e
    BY <1>1, HoldFacts
  <1>5. pc' # "done"
    BY <1>4 DEF WriteAborts, WriteErrorSeen, Return
  <1>6. QED
    BY <1>1, <1>3, <1>4, <1>5 DEF RelayState

\* Any other write passes bytes on that lie a window behind.
LEMMA WritePasses ==
    ASSUME IndInv, NEW e \in ChunkEnds,
           WriteHeld(e) \/ WriteForwards(e) \/ \E n \in 0..Len(up.text) : WriteFails(e, n)
    PROVE  /\ e \in got..Len(up.text)
           /\ RelayState = "open" /\ RelayState' = "open"
           /\ got' = e /\ up' = up
           /\ \E m \in Len(out)..Len(up.text) :
                 /\ m = Len(out) \/ m <= e - Size
                 /\ out' = SubSeq(up.text, 1, m)
  <1>1. Hold(e) /\ aborted' = aborted
    BY DEF WriteHeld, WriteForwards, WriteFails
  <1>2. e \in Nat /\ got < e /\ e <= Len(up.text)
    BY <1>1, ChunkExtendsTail
  <1>3. Len(up.text) \in Nat /\ got \in Nat /\ Len(out) \in Nat /\ Len(buf) \in Nat
    BY TextType, LenProperties DEF IndInv, TypeOK
  <1>4. pc = "reading" /\ ~aborted /\ up' = up /\ got' = e
    BY <1>1, HoldFacts
  <1>5. pc' # "done"
    BY <1>4 DEF WriteHeld, WriteForwards, WriteFails, WriteErrorSeen, Return
  <1>6. /\ out = SubSeq(up.text, 1, Len(out)) /\ Len(out) <= got
    BY DEF IndInv, OutIsPrefix
  <1>7. \E m \in Len(out)..Len(up.text) :
            /\ m = Len(out) \/ m <= e - Size
            /\ out' = SubSeq(up.text, 1, m)
    <2>1. CASE WriteHeld(e)
      <3>1. out' = out
        BY <2>1 DEF WriteHeld, client
      <3>2. Len(out) \in Len(out)..Len(up.text)
        BY <1>2, <1>3, <1>6
      <3>3. QED
        BY <1>6, <3>1, <3>2
    <2>2. CASE WriteForwards(e) \/ \E n \in 0..Len(up.text) : WriteFails(e, n)
      <3> DEFINE data == buf \o Chunk(e)
      <3>1. PICK n \in Nat :
                /\ n <= SafeLen(data)
                /\ out' = out \o SubSeq(data, 1, n)
                /\ ~dstErr \/ n = 0
        BY <2>2, ForwardGives
      <3>2. /\ SafeLen(data) \in Nat /\ SafeLen(data) = Len(buf) + e - got - Size
            /\ SafeLen(data) <= Len(data) /\ Len(data) \in Nat
        BY <2>2, ForwardSafe
      <3>3. n <= Len(data)
        BY <3>1, <3>2
      <3>4. out' = SubSeq(up.text, 1, Len(out) + n)
        BY <1>1, <3>1, <3>3, OutExtends
      <3>5. ~dstErr => Len(out) + Len(buf) = got
        BY <1>4 DEF IndInv, BufHoldsRest
      <3>6. Len(out) + n = Len(out) \/ Len(out) + n <= e - Size
        BY <1>2, <1>3, <3>1, <3>2, <3>5, SizePositive
      <3>7. Len(out) + n \in Len(out)..Len(up.text)
        <4>1. Len(out) <= e
          BY <1>2, <1>3, <1>6
        <4>2. Len(out) + n <= e
          BY <1>2, <1>3, <3>6, <4>1, SizePositive
        <4>3. QED
          BY <1>2, <1>3, <4>2
      <3>8. QED
        BY <3>4, <3>6, <3>7
    <2>3. QED
      BY <2>1, <2>2
  <1>8. e \in got..Len(up.text)
    BY <1>2, <1>3
  <1>9. QED
    BY <1>1, <1>4, <1>5, <1>7, <1>8 DEF RelayState

\* The handler's last step closes the relay, with at most what was received.
LEMMA EndShuts ==
    ASSUME IndInv,
           \/ AfterError \/ AfterAbort \/ DrainAborts \/ DrainForwards
           \/ \E n \in 0..Len(buf) : DrainFails(n)
    PROVE  /\ RelayState # "closed" /\ RelayState' = "closed"
           /\ got' = got /\ up' = up
           /\ \E m \in Len(out)..Len(up.text) :
                 /\ RelayState = "cut" => m = Len(out)
                 /\ m = Len(out) \/ m <= got
                 /\ out' = SubSeq(up.text, 1, m)
  <1>1. pc = "returned" /\ pc' = "done" /\ up' = up /\ got' = got
    BY DEF AfterError, AfterAbort, DrainAborts, DrainForwards, DrainFails, Draining,
           Finish, upstream, window
  <1>2. /\ Len(up.text) \in Nat /\ got \in Nat /\ got <= Len(up.text) /\ Len(out) \in Nat
        /\ Len(out) <= got /\ out = SubSeq(up.text, 1, Len(out))
    BY TextType, LenProperties DEF IndInv, TypeOK, OutIsPrefix
  <1>3. CASE AfterError \/ AfterAbort \/ DrainAborts
    <2>1. out' = out
      BY <1>3 DEF AfterError, AfterAbort, DrainAborts
    <2>2. Len(out) \in Len(out)..Len(up.text)
      BY <1>2
    <2>3. QED
      BY <1>1, <1>2, <2>1, <2>2 DEF RelayState
  <1>4. CASE DrainForwards \/ \E n \in 0..Len(buf) : DrainFails(n)
    <2>1. PICK n \in Nat :
              /\ n <= Len(buf)
              /\ ~dstErr \/ n = 0
              /\ out' = out \o SubSeq(buf, 1, n)
      BY <1>4, DrainGives
    <2>2. out' = SubSeq(up.text, 1, Len(out) + n) /\ Len(out) + n <= got
      BY <1>1, <2>1, DrainExtends
    <2>3. Len(out) + n \in Len(out)..Len(up.text)
      BY <1>2, <2>1, <2>2
    <2>4. ~aborted
      BY <1>4 DEF DrainForwards, DrainFails, Draining
    <2>5. QED
      BY <1>1, <2>2, <2>3, <2>4 DEF RelayState
  <1>5. QED
    BY <1>3, <1>4

\* Every behaviour of handleStream, winWriter, the window and the adapters is one
\* the relay allows: bytes in order and a window behind, none after a cut, the
\* rest of what was received only when the stream ends.
THEOREM StreamImplementsRelay == Spec => Contract!RelaySafe
  <1>1. Init => Contract!RelayInit
    BY DEF Init, Contract!RelayInit
  <1>2. IndInv /\ [Next]_vars => [Contract!RelayNext]_(Contract!relayVars)
    <2> SUFFICES ASSUME IndInv, [Next]_vars
                 PROVE  [Contract!RelayNext]_(Contract!relayVars)
      OBVIOUS
    <2>1. CASE \/ SendHeaders
               \/ \E r \in Results : ConnectFails(r)
               \/ Connect
               \/ UpstreamEnds
               \/ \E r \in Results : UpstreamFails(r)
               \/ ConnBreaks
               \/ \E e \in ChunkEnds : WriteRefused(e)
               \/ UNCHANGED vars
      BY <2>1, ProviderIsQuiet DEF RelayState, Contract!relayVars
    <2>2. ASSUME NEW e \in ChunkEnds, WriteAborts(e) PROVE Contract!RelayNext
      BY <2>2, AbortCuts DEF RelayState, Contract!RelayNext, Contract!Cut
    <2>3. ASSUME NEW e \in ChunkEnds,
                 WriteHeld(e) \/ WriteForwards(e) \/ \E n \in 0..Len(up.text) : WriteFails(e, n)
          PROVE  Contract!RelayNext
      BY <2>3, WritePasses DEF RelayState, Contract!RelayNext, Contract!Pass, Contract!Give
    <2>4. CASE \/ AfterError \/ AfterAbort \/ DrainAborts \/ DrainForwards
               \/ \E n \in 0..Len(buf) : DrainFails(n)
      BY <2>4, EndShuts
      DEF RelayState, Contract!RelayNext, Contract!Closing, Contract!Shut, Contract!Give
    <2>5. QED
      BY <2>1, <2>2, <2>3, <2>4 DEF Next, Handler
  <1>3. QED
    BY <1>1, <1>2, StreamInvariant, PTL DEF Spec, Contract!RelaySafe
=============================================================================
