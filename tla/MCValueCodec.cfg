SPECIFICATION Spec
CONSTANTS
    Values <- SmallValues
    UINT32 = 65536
    UINT64 = 65536
    INT32 = 256
    Refused = {1}
    Infinity = Infinity
    Rest = Rest
CHECK_DEADLOCK FALSE
INVARIANT TypeKept
INVARIANT XmlKeeps
INVARIANT BlobExact
INVARIANT BlobFits
