------------------------------ MODULE MCCodec ------------------------------
(***************************************************************************)
(* Messages for the constant Samples of Codec: at least one of each type,  *)
(* arrays of zero to two structs, numbers of more than one byte, an empty  *)
(* name, and a name so long that the length in the header takes two bytes. *)
(***************************************************************************)
EXTENDS Codec

Value(v) == <<<<v>>>>      \* a plain field
Word == <<97, 98>>
LongWord == [i \in 1..258 |-> 97]
Large == 66051             \* 1, 2, 3 in base 256

AllTypes ==
    {[type |-> MSG_LOGIN, fields |-> <<Value(Word)>>],
     [type |-> MSG_LOGIN, fields |-> <<Value(<<>>)>>],
     [type |-> MSG_LOGIN_RESP,
      fields |-> <<Value(Word), Value(Large), Value(1)>>],
     [type |-> MSG_UDP_HANDSHAKE, fields |-> <<Value(Large), Value(Word)>>],
     [type |-> MSG_NEW_ROOM, fields |-> <<Value(LongWord), Value(255)>>],
     [type |-> MSG_ROOM_INFO,
      fields |-> <<<<<<1, Word, 2, 0>>, <<2, <<>>, 255, 3>>>>>>],
     [type |-> MSG_JOIN_ROOM, fields |-> <<Value(0)>>],
     [type |-> MSG_JOIN_ROOM_RESP, fields |-> <<Value(1), Value(4)>>],
     [type |-> MSG_QUIT_ROOM, fields |-> <<Value(Word)>>],
     [type |-> MSG_GAME_ON, fields |-> <<<<<<1, Word>>>>>>],
     [type |-> MSG_UPDATE_BLOCKS, fields |-> <<<<>>>>],
     [type |-> MSG_UPDATE_BLOCKS, fields |-> <<<<<<1, Large, 7>>>>>>],
     [type |-> MSG_UPDATE_OBJECTS,
      fields |-> <<<<<<1, 2, 3, Large>>>>, <<<<5, 6>>>>>>],
     [type |-> MSG_UPDATE_SCORES, fields |-> <<<<<<1, 300>>, <<2, 0>>>>>>],
     [type |-> MSG_GAME_OFF, fields |-> <<Value(Word)>>],
     [type |-> MSG_CONTROL, fields |-> <<Value(4), Value(1)>>]}

\* Types that nobody has registered a handler for are taken off and dropped.
SomeHandled ==
    {m.type : m \in AllTypes} \ {MSG_UDP_HANDSHAKE, MSG_UPDATE_OBJECTS}
=============================================================================
