\* Rows are deleted while they are re-encrypted.
SPECIFICATION RotationSpec
CONSTANTS
    MaxSealed = 4
    OldRows = 3
    PageSize = 2
    MaxEdits = 1
INVARIANT NothingLeftOnTheOldKey
