\* Two accounts, every spelling of a few addresses.
CONSTANTS
    Input <- MCInput
    MaxBytes = 6
    ColumnChars = 6
    MaxUsers = 2
    MaxRows = 2
SPECIFICATION Spec
INVARIANTS
    TypeOK
    SpellingsFindTheAccount
    AcceptedEmailsFit
    OneCountPerLocalSpelling
    StoredEmailsAreNormal
