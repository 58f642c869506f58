CONSTANTS
    StdRates <- MCStdRates
    Startup <- MCStartup
    Span = 6
    Step = 1
    EscapeMayFail = TRUE
SPECIFICATION Spec
INVARIANT TypeOK
INVARIANT NominalRateRecovered
INVARIANT EstimateBracketsReading
