SPECIFICATION Spec
CONSTANTS
    Readers = {r1}
    Writers = {w1, w2}
    Previews = {p1}
PROPERTY PreviewsEnd
CHECK_DEADLOCK FALSE
