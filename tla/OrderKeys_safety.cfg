\* Four rows, three of them migrated, in an alphabet of four digits.
SPECIFICATION Spec
CONSTANTS
    Base = 4
    Row = {1, 2, 3, 4}
    Migrated <- MCMigrated
    MaxLength = 2
INVARIANTS TypeOK HasRoom
