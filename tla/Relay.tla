-------------------------------- MODULE Relay --------------------------------
(***************************************************************************)
(* What a guarded stream promises, whatever the chunks, the adapter and    *)
(* the client's connection do: the client is given the provider's bytes in *)
(* order and HeldBack bytes behind what has been received, nothing once    *)
(* the stream is cut, and the rest of what was received only at the end.   *)
(***************************************************************************)
EXTENDS Integers, Sequences

CONSTANTS
    Sources,    \* what a provider may send
    HeldBack    \* bytes of lookahead

VARIABLES
    source,     \* what this provider sends
    taken,      \* how much of it was received
    given,      \* what the client was given
    state       \* open, cut or closed

relayVars == <<source, taken, given, state>>

RelayInit ==
    /\ source \in Sources
    /\ taken = 0
    /\ given = << >>
    /\ state = "open"

\* The client is given the source up to byte n, of which `most' may be given.
Give(n, most) ==
    /\ n = Len(given) \/ n <= most
    /\ given' = SubSeq(source, 1, n)

\* Bytes up to t are received, and the client is given what is far enough behind.
Pass(t, n) ==
    /\ state = "open"
    /\ taken' = t
    /\ Give(n, t - HeldBack)
    /\ UNCHANGED <<source, state>>

\* The bytes up to t show that the rest must not be given.
Cut(t) ==
    /\ state = "open"
    /\ taken' = t
    /\ state' = "cut"
    /\ UNCHANGED <<source, given>>

\* The stream ends; one that was not cut may give what it held back.
Shut(n) ==
    /\ state # "closed"
    /\ state = "cut" => n = Len(given)
    /\ Give(n, taken)
    /\ state' = "closed"
    /\ UNCHANGED <<source, taken>>

Closing == \E n \in Len(given)..Len(source) : Shut(n)

RelayNext ==
    \/ \E t \in taken..Len(source) :
           Cut(t) \/ \E n \in Len(given)..Len(source) : Pass(t, n)
    \/ Closing

\* What the client may see, and in what order.
RelaySafe == RelayInit /\ [][RelayNext]_relayVars

\* And that the stream ends.
RelaySpec == RelaySafe /\ WF_relayVars(Closing)
=============================================================================
