SPECIFICATION LayoutSpec
CONSTANT Shapes <- MCShapes
INVARIANTS RelayIsRowMajor NoFalseError MapInvertsCompare
