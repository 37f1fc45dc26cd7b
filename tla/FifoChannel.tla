---------------------------- MODULE FifoChannel ----------------------------
(***************************************************************************)
(* What a relayed direction of a TCP stream promises its reader: chunks    *)
(* come out in the order they went in, each once and without a gap, until  *)
(* the channel is cut.  A cut loses what was not taken yet, and nothing    *)
(* goes in or out after it.                                                *)
(***************************************************************************)
EXTENDS Naturals, Sequences

VARIABLES
  sent,   \* the chunks put in so far
  taken,  \* the chunks taken out so far
  cut     \* has the channel ended?

channelVars == <<sent, taken, cut>>

ChannelInit == sent = <<>> /\ taken = <<>> /\ cut = FALSE

Put ==
  /\ ~cut
  /\ sent' = Append(sent, Len(sent) + 1)
  /\ UNCHANGED <<taken, cut>>

Take ==
  /\ ~cut /\ Len(taken) < Len(sent)
  /\ taken' = Append(taken, sent[Len(taken) + 1])
  /\ UNCHANGED <<sent, cut>>

\* A chunk may go straight to a reader that waits for it.
PutAndTake ==
  /\ ~cut /\ taken = sent
  /\ sent' = Append(sent, Len(sent) + 1)
  /\ taken' = sent'
  /\ UNCHANGED cut

Cut == ~cut /\ cut' = TRUE /\ UNCHANGED <<sent, taken>>

ChannelNext == Put \/ Take \/ PutAndTake \/ Cut

ChannelSpec == ChannelInit /\ [][ChannelNext]_channelVars

=============================================================================
