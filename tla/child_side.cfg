SPECIFICATION SideSpec
CONSTANTS
  rows = rows
  notes = notes
  t1 = t1
  t2 = t2
  n1 = n1
  missing = missing
  Streams <- MCStreams
  LeanThreads <- MCThreads
  Sizes = {1, 3}
  Caps = {1, 2, 4}
  DefaultCap = 3
  MaxRequests = 2
  MaxItems = 3
  Owners = {t1, t2}
  IdSpace = 3
  Methods = {"query_declaration", "run_meta", "clear_module_snapshot_cache", "declaration_source_range", "inspect_declaration", "kernel_check", "list_declarations_filtered", "declaration_type_bulk", "elaborate_bulk", "query_declarations_bulk", "name_to_string_bulk", "list_declarations_strings"}
  Shims = {"clear_module_snapshot_cache", "inspect_declaration"}
  Declared = {n1}
  Batches <- MCBatches
  MaxCalls = 2
  ShimNeverBuilds <- MCNeverBuilds
  Symbols <- MCSymbols
  Dylibs <- MCDylibs
  Declarable <- MCDeclarable
  Callers <- MCCallers
  MaxDeclared = 2
SYMMETRY Symmetric
INVARIANTS
  TypeOK
  ParentIsAnswered
  StreamIsExact
  CancelStops
  BulkIsFold
  SinksAreServed
  AnswersArrive
  RequestsArrive
  CheckedCallsHold
CHECK_DEADLOCK FALSE
