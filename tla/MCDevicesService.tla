-------------------------- MODULE MCDevicesService --------------------------
\* A small instance of DevicesService: an Android device, an Android emulator and
\* an iPhone, and the calls of initialize that the commands make.
EXTENDS DevicesService

CONSTANTS galaxy, avd, iphone

MCPlatformOf == [d \in {galaxy, avd, iphone} |-> IF d = iphone THEN "ios" ELSE "android"]

Plain == [platform |-> None, device |-> None, emulator |-> FALSE, skipEmulatorStart |-> FALSE,
          skipInferPlatform |-> FALSE, skipInterval |-> FALSE]

MCRequests == {
    Plain,
    [Plain EXCEPT !.platform = "android"],
    [Plain EXCEPT !.platform = "ios"],
    [Plain EXCEPT !.platform = "android", !.emulator = TRUE],
    [Plain EXCEPT !.device = iphone],
    [Plain EXCEPT !.platform = "android", !.device = iphone, !.skipEmulatorStart = TRUE],
    [Plain EXCEPT !.skipInferPlatform = TRUE, !.skipInterval = TRUE] }
=============================================================================
