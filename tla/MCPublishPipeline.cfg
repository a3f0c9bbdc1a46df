SPECIFICATION Spec
CONSTANTS
    Calls = {c1, c2, c3}
    Objs = {o1}
    Plain = {c3}
    Persisting = {c2, c3}
    Encodings <- SomeEncodings
    Copies = 2
    None = None
INVARIANTS TypeOK RoundTrip ChecksumIsOwn AddressedRightly
CHECK_DEADLOCK FALSE
