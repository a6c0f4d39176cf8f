CONSTANTS
    a1 = a1
    a2 = a2
    AllocIds <- MCAllocIds
    Times = {0, 1, 2, 3}
    MaxQty = 2
    Quantity = 3
    NoWindow = NoWindow
    Unset = Unset
    Annotated = Annotated
    Raised = Raised
SYMMETRY MCSymmetry
SPECIFICATION StockSpec
INVARIANTS
    AllocatedOnlyOverlapping
    AvailableIsQuantityMinusAllocated
