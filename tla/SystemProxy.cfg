SPECIFICATION Spec
CONSTANTS
  Services = {wifi, usb}
  Clients = {c1, c2, c3}
SYMMETRY Symmetry
CONSTRAINT BeforeRaces
INVARIANT OriginalsKept
