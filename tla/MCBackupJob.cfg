SPECIFICATION SpecFair
CONSTANTS
    Inserted = {"periods", "supplier_transactions"}
    MaxRows = 2
    Retention = 1
    MaxDay = 1
 
PROPERTIES DriveNeverEmptied DailyRunEnds
