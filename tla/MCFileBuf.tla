------------------------------- MODULE MCFileBuf -------------------------------
EXTENDS FileBuf, SequencesExt

CONSTANTS Letter, MaxLen

MCChars == {Letter, Mark}
MCFiles == [chars : BoundedSeq(MCChars, MaxLen), bad : BOOLEAN]
===============================================================================
