------------------------- MODULE MCAndroidDiscovery -------------------------
\* Small instances of AndroidDeviceDiscovery for TLC.
EXTENDS AndroidDeviceDiscovery
=============================================================================
