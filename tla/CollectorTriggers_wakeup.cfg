SPECIFICATION TriggersSpec
CONSTANTS
  alice = alice
  bob = bob
  Login = {alice, bob}
  MaxFaults = 3
INVARIANT NoLostWakeup
PROPERTIES AskedIsScanned
