CONSTANTS
    Rates = {0, 2}
    MaxRates = {0, 2}
SPECIFICATION Spec
PROPERTY ThrottleLiftedWhenUnlimited
