SPECIFICATION Spec
CONSTANTS
    CoreCount = 3
    TaskCount = 4
    MaxInterrupts = 2
    NULL = NULL
INVARIANTS TypeOK SharedOnlyAfterOvertaking PublishedSound SettingsRestored
PROPERTY Finishes
