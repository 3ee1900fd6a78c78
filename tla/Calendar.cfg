SPECIFICATION Spec
CONSTANTS
    LastYear = 2034
    ClockStep = 2
INVARIANTS HolidaysAreLegal BatchIsFirstOpen CurrentCutoffIsBatch
CHECK_DEADLOCK FALSE
