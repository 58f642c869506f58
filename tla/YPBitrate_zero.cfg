CONSTANTS
    StdRates = {128}
    Startup <- MCStartup
    Span = 6
    Step = 1
    EscapeMayFail = FALSE
SPECIFICATION Spec
INVARIANT AdvertisedRatePositive
