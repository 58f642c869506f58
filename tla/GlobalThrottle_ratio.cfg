CONSTANTS
    Rates = {0, 9}
    MaxRates = {10}
SPECIFICATION Spec
INVARIANT ThrottleEngagesNearLimit
