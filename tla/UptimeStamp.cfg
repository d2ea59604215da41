CONSTANT MaxMillis = 30
SPECIFICATION Spec
INVARIANT GetAndTrapAgree
