CONSTANT MaxTapIndex = 5
SPECIFICATION ScanSpec
PROPERTIES PoolRefinement 
