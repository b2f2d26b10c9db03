-------------------------- MODULE MCDeviceCommands --------------------------
EXTENDS DeviceCommands
=============================================================================
