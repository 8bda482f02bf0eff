------------------------------- MODULE Channel -------------------------------
(***************************************************************************)
(* What the Codec promises the message handlers of one connection: each    *)
(* message that was sent is handed over once, whole and in order.          *)
(***************************************************************************)
EXTENDS Sequences

CONSTANTS
    Message     \* what may be sent

VARIABLES
    inTransit,  \* sent and not yet handed over
    delivered   \* handed over

channelVars == <<inTransit, delivered>>

Init ==
    /\ inTransit = <<>>
    /\ delivered = <<>>

Put(m) ==
    /\ inTransit' = Append(inTransit, m)
    /\ UNCHANGED delivered

Deliver ==
    /\ inTransit # <<>>
    /\ delivered' = Append(delivered, Head(inTransit))
    /\ inTransit' = Tail(inTransit)

Next == (\E m \in Message : Put(m)) \/ Deliver

Spec == Init /\ [][Next]_channelVars
=============================================================================
