SPECIFICATION Spec
CONSTANTS
    Calls = {c1, c2}
    Objs = {o1}
    Plain = {}
    Persisting = {}
    Encodings <- OneEncoding
    Copies = 2
    None = None

INVARIANT SendsWhatIsPublished
CHECK_DEADLOCK FALSE
