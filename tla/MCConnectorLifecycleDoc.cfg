\* The validators that try drop_slot again on the same connection.
CONSTANTS
  Styles = {"once"}
  Attempts = 3
  LongSleeps = {"once"}
  MaxFaults = 0
SPECIFICATION CdcSpec
INVARIANTS
  OrphanIsExcused
