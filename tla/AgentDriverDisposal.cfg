SPECIFICATION Spec
CONSTANTS
    Messages = {m1, m2}
    Calls = {c1}
    Causes = {"user", "disposed"}
    MaxSteps = 3
    MaxAttempts = 2
PROPERTIES DisposalNeverLatches
