\* Every build on every kind of machine, with interfaces that come and go
\* between any two steps of a call.
SPECIFICATION Spec
CONSTANTS
  Retries = 2
  None = None
INVARIANTS TypeOK LiveBackend NeverForeign OpenComplete GuestDetected
PROPERTIES FixedTransport
