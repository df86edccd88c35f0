\* Every spelling of one name and one address; two rows.
SPECIFICATION Spec
CONSTANTS
    name = name
    literal = literal
    Names <- AllNames
    Literals <- AllLiterals
    NoHost = NoHost
    Numbers <- AllNumbers
    noPath = noPath
    root = root
    noQuery = noQuery
    NoPath = noPath
    Root = root
    NoQuery = noQuery
    Paths <- AllPaths
    Queries <- AllQueries
    MaxRows = 2
INVARIANTS
    TypeOK
    StoredParsesToItself
    OneRowPerTarget
    AddedAsAsked
