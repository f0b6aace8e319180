SPECIFICATION ReadersSpec
CONSTANTS
    Readers = {r1}
    MaxVersion = 3
INVARIANTS ReadsAreWhole NeverOlder
PROPERTIES FastReadersReturn
