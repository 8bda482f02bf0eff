-------------------------------- MODULE Codec --------------------------------
(***************************************************************************)
(* Codec::handleMessage (src/protocol/Codec.cc) on one connection.  The    *)
(* peer packs messages with the same Codec; TCP brings their bytes in      *)
(* order and in pieces of any length; each piece is appended to the input  *)
(* buffer of the connection, and handleMessage takes off what is complete, *)
(* one message in each iteration of its loop.                              *)
(***************************************************************************)
EXTENDS Messages

CONSTANTS
    Samples,      \* messages the peer may send
    Handlers,     \* types that have a handler
    MaxMessages,  \* bound: messages sent
    MaxPiece      \* bound: bytes of a piece, unless it is all there is

\* The length of a larger message would be cut off in the header, the number of
\* structs of a longer array in the byte before them.
ASSUME SamplesAssumption == \A m \in Samples : IsMessage(m)
ASSUME HandlersAssumption == Handlers \subseteq Byte
ASSUME CodecBoundsAssumption == MaxMessages \in Nat /\ MaxPiece \in Nat

VARIABLES
    sent,      \* history: messages the peer has sent
    wire,      \* bytes sent that have not arrived yet
    buf,       \* input buffer of the connection
    handling,  \* a call of handleMessage is in progress
    taken,     \* history: number of messages taken off the buffer
    handled    \* history: messages given to handlers

vars == <<sent, wire, buf, handling, taken, handled>>

Init ==
    /\ sent = <<>>
    /\ wire = <<>>
    /\ buf = <<>>
    /\ handling = FALSE
    /\ taken = 0
    /\ handled = <<>>

SendMessage(m) ==
    /\ Len(sent) < MaxMessages     \* bound
    /\ sent' = Append(sent, m)
    /\ wire' = wire \o PackMessage(m)
    /\ UNCHANGED <<buf, handling, taken, handled>>

Arrive(n) ==
    /\ ~handling
    /\ n <= MaxPiece \/ n = Len(wire)     \* bound
    /\ buf' = buf \o SubSeq(wire, 1, n)
    /\ wire' = Drop(wire, n)
    /\ handling' = TRUE
    /\ UNCHANGED <<sent, taken, handled>>

\* Mutated form of Complete: the header is not counted.
CompleteBody == Len(buf) >= HeaderLen /\ Len(buf) >= MessageLen(buf)

\* Mutated form of Complete: waits for one byte more.
CompleteAndMore == Len(buf) >= HeaderLen /\ Len(buf) > HeaderLen + MessageLen(buf)

Complete == Len(buf) >= HeaderLen /\ Len(buf) >= HeaderLen + MessageLen(buf)

TakeMessage == handling /\ Complete /\ taken' = taken + 1

HandleMessage ==
    /\ TakeMessage
    /\ LET type == MessageType(buf)
           read == Fill(type, Drop(buf, HeaderLen))
       IN  /\ buf' = read.rest
           /\ handled' = IF type \in Handlers
                         THEN Append(handled, [type |-> type, fields |-> read.values])
                         ELSE handled
    /\ UNCHANGED <<sent, wire, handling>>

Break ==
    /\ handling
    /\ ~Complete
    /\ handling' = FALSE
    /\ UNCHANGED <<sent, wire, buf, taken, handled>>

ReceivePiece == \E n \in 1..Len(wire) : Arrive(n)

Next ==
    \/ \E m \in Samples : SendMessage(m)
    \/ ReceivePiece
    \/ HandleMessage
    \/ Break

Spec == Init /\ [][Next]_vars

\* While the connection lasts, TCP delivers, and the callback runs to its end.
\* Only HandleMessage takes a message.
Fairness ==
    /\ WF_vars(ReceivePiece)
    /\ WF_taken(TakeMessage)
    /\ WF_vars(Break)

FairSpec == Spec /\ Fairness

----------------------------------------------------------------------------
(* Properties. *)

\* The types of Messages.h and of the buffers: whatever is packed is bytes.
TypeOK ==
    /\ sent \in Seq(Samples)
    /\ wire \in Seq(Byte)
    /\ buf \in Seq(Byte)
    /\ handling \in BOOLEAN
    /\ taken \in 0..Len(sent)
    /\ \A i \in DOMAIN handled : handled[i].type \in Handlers

\* Wherever the stream was cut, what is in the buffer and on its way is the
\* messages not taken yet, each from its first byte: fill takes off exactly the
\* bytes of the message, although it goes by the fields and not by the length in
\* the header, and it never starts before the last of them is there.
StreamFramed ==
    buf \o wire = FlattenSeq([i \in 1..(Len(sent) - taken) |->
                                 PackMessage(sent[taken + i])])

\* The messages sent that have a handler, in order.
KeepHandled(ms, m) == IF m.type \in Handlers THEN Append(ms, m) ELSE ms
Expected == FoldLeft(KeepHandled, <<>>, sent)

\* A message that was sent is handled in the end, without waiting for another to
\* push it out of the buffer.
SentIsHandled ==
    \A n \in 1..MaxMessages : Len(Expected) >= n ~> Len(handled) >= n

Abstract == INSTANCE Channel WITH
    Message   <- Samples,
    inTransit <- Drop(Expected, Len(handled)),
    delivered <- handled

\* The handlers see the messages that were sent, in order, each once and with
\* the values of all fields, as if there were no bytes.
ImplementsChannel == Abstract!Spec
=============================================================================
