----------------------------- MODULE MCNetLink -----------------------------
EXTENDS NetLink

\* A well-formed call, a well-formed go, one with a wrong magic byte, one
\* with a wrong length field, and one with an illegal command.
MCGood      == [magic |-> MagicValue, cls |-> MSG_DATA, len |-> FrameLen, cmd |-> CALL]
MCGo        == [MCGood EXCEPT !.cmd = GO]
MCBadMagic  == [MCGood EXCEPT !.magic = 0]
MCBadLen    == [MCGood EXCEPT !.len = 0]
MCBadCmd    == [MCGood EXCEPT !.cmd = 3]

MCFrameKinds    == {MCGood, MCBadMagic, MCBadCmd}
MCFrameKindsAll == {MCGood, MCGo, MCBadMagic, MCBadLen, MCBadCmd}
=============================================================================
