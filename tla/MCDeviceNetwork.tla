--------------------------- MODULE MCDeviceNetwork ---------------------------
EXTENDS DeviceNetwork
=============================================================================
