CONSTANTS
    Keys <- MCKeys
    MaxWire = 3
SPECIFICATION Spec
INVARIANTS TypeOK NoneStuck
PROPERTY EventsExact
