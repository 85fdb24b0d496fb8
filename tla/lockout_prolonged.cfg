\* Four logins at once and a threshold of two: an in-flight success clears the
\* count, and two in-flight failures reach the threshold again.
SPECIFICATION Spec
CONSTANTS
    Requests = {p1, p2, p3, p4}
    Threshold = 2
    Window = 3
    LockTTL = 3
    MaxMistakes = 0
    MaxCount = 4
PROPERTY LockNotProlonged
