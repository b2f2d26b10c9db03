---------------------------- MODULE MCDeviceReset ----------------------------
\* Four commands: the first two are answered on the first completion queue, the
\* third on either and the last on the second; the response to the second
\* command is longer than the largest message.
EXTENDS DeviceReset

MCCommands == 1 .. 4
MCCqsOf == <<{0}, {0}, {0, 1}, {1}>>
MCOversize == {2}
=============================================================================
