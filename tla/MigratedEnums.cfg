SPECIFICATION MigrationSpec
CONSTANTS
    DbAutoCreate = FALSE
INVARIANTS
    LabelsAccepted
