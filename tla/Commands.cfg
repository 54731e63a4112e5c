CONSTANT NULL = NULL
SPECIFICATION Spec
INVARIANT ArgumentsArrive ResultsReturn RequestsAccepted EverythingFreed
