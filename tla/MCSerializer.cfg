\* Every buffer of a 16 byte address space.
SPECIFICATION Spec
CONSTANTS
    ByteValues = 4
    WordBytes = 2
    IntBytes = 1
    Typed <- MCTyped
    Messages <- MCMessages
    Windows <- MCWindows
INVARIANTS TypeOK WindowOnly RefusedOnlyWhenFull RoundTrip
