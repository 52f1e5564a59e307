SPECIFICATION Spec
INVARIANTS
  SyncIsOpcodeFetch
