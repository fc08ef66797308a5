CONSTANTS
    MaxHours = 143
    MaxRequest = 1
SPECIFICATION CacheSpec
INVARIANT QuotationHasTheClose
CHECK_DEADLOCK FALSE
