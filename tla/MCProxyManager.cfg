SPECIFICATION Spec
CONSTANTS
  Proxies = {pa, pb}
  MaxObjects = 3
  MaxUse = 2
  MaxLease = 2
INVARIANTS TypeOK CountsAddUp OneLeasePerEndpoint
PROPERTY ImplementsPool
SYMMETRY Symmetry
