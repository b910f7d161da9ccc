----------------------------- MODULE CallChannels -----------------------------
(***************************************************************************)
(* What a connection's outbox promises the peer: each call is a FIFO        *)
(* channel of its own.  Frames of one call arrive in the order in which     *)
(* they were queued, without gaps and without repeats; between calls        *)
(* nothing is promised.  A connection that breaks loses the end of what     *)
(* its channels hold, never the middle.                                     *)
(***************************************************************************)
EXTENDS Sequences, SequencesExt

CONSTANTS CallID, Frame

VARIABLES
  chan,  \* chan[c]: the frames of call c that are still to arrive
  got,   \* got[c]: the frames of call c that have arrived
  up     \* the connection is usable

cvars == <<chan, got, up>>

CInit ==
  /\ chan = [c \in CallID |-> <<>>]
  /\ got = [c \in CallID |-> <<>>]
  /\ up = TRUE

\* Some frame joins the end of the channel.
Put(c) ==
  /\ up
  /\ chan'[c] # <<>> /\ Last(chan'[c]) \in Frame
  /\ chan' = [chan EXCEPT ![c] = Append(@, Last(chan'[c]))]
  /\ UNCHANGED <<got, up>>

\* A frame that was being written when the connection broke may still arrive.
Get(c) ==
  /\ chan[c] # <<>>
  /\ got' = [got EXCEPT ![c] = Append(@, Head(chan[c]))]
  /\ chan' = [chan EXCEPT ![c] = Tail(@)]
  /\ UNCHANGED up

Break ==
  /\ up' = FALSE
  /\ \A c \in CallID : IsPrefix(chan'[c], chan[c])
  /\ DOMAIN chan' = CallID
  /\ UNCHANGED got

CNext ==
  \/ \E c \in CallID : Put(c) \/ Get(c)
  \/ Break

CSpec == CInit /\ [][CNext]_cvars
===============================================================================
