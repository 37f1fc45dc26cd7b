----------------------------- MODULE ByteStream -----------------------------
(***************************************************************************)
(* What a connection promises the callers of readExact(): it hands out the *)
(* bytes the other end sent, from the first one on, in order and none but  *)
(* those.  Once it has ended it takes no more of them; what it took before *)
(* can still be read.  MuxTcp, NodeTransport, RpTransport and PskTunnel    *)
(* implement it, each proved in its module of theorems.                    *)
(***************************************************************************)
EXTENDS Naturals

VARIABLES
  sent,   \* bytes the other end has sent
  got,    \* bytes taken from the stream
  read,   \* bytes handed to readers
  ended   \* has the connection ended?

streamVars == <<sent, got, read, ended>>

StreamInit == sent = 0 /\ got = 0 /\ read = 0 /\ ended = FALSE

Send ==
  /\ sent' \in Nat /\ sent' > sent
  /\ UNCHANGED <<got, read, ended>>

\* Bytes may go straight to the readers that wait for them.
Get ==
  /\ ~ended
  /\ got' \in (got + 1)..sent
  /\ read' \in read..got'
  /\ UNCHANGED <<sent, ended>>

\* They may be taken as they arrive.
SendAndGet ==
  /\ ~ended
  /\ sent' \in Nat /\ sent' > sent
  /\ got = sent /\ got' = sent'
  /\ read' \in read..got'
  /\ UNCHANGED ended

Read ==
  /\ read' \in (read + 1)..got
  /\ UNCHANGED <<sent, got, ended>>

End ==
  /\ ~ended /\ ended'
  /\ UNCHANGED <<sent, got, read>>

StreamNext == Send \/ Get \/ SendAndGet \/ Read \/ End

StreamSpec == StreamInit /\ [][StreamNext]_streamVars

=============================================================================
