SPECIFICATION Spec
CONSTANTS
    Caller = {a, b}
    Device = {"d1", "d10"}
    PrefixOf <- MCPrefixOf
    MaxCalls = 3
    MaxNotices = 2
    Adversity = {}
SYMMETRY MCSymmetry
INVARIANT ResultTrue
 
INVARIANT BindListTrue
