----------------------------- MODULE MCStaging ------------------------------
EXTENDS Staging

\* A pinned buffer that takes two commands.
TwoCommands == {CmdPieces + 1}
=============================================================================
