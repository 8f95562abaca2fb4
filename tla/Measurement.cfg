CONSTANTS
    Client = {k1, k2}
    NoClient = NoClient
    transaction_count = 4
    batch_size = 2
    msg_size = 2
    EVENT_BACKLOG = 2
    Immediate = {TRUE, FALSE}
    Faulty = {TRUE, FALSE}
    TEXT = 2
SPECIFICATION FairMeasurementSpec
INVARIANTS OneMessage CountsAgree WaitsAreWatched SoundOutcome
PROPERTIES Measured ControlClosed
CHECK_DEADLOCK FALSE
