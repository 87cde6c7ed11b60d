SPECIFICATION Spec
CONSTANTS
    Transports = {"tcp"}
    MaxBatches = 6
    Reports <- OneReport
CHECK_DEADLOCK FALSE
PROPERTIES OncePerBatch
