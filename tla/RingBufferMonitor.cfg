CONSTANTS
    Items = {a}
    N = 2
    IndexRange = 6
    NoItem = NoItem
SPECIFICATION MSpec
CHECK_DEADLOCK TRUE
INVARIANT SizeIsASnapshot
