\* One call on the finetune compiler and one on the synchronous path.
SPECIFICATION FairSpec
CONSTANTS
  fine = fine
  fast = fast
  Call = {fine, fast}
  Finetune = {fine}
  CompileRetries = 1
  MaxPollFailures = 5
INVARIANTS PaidOnce GivenUpForCause
PROPERTIES CallEnds
CHECK_DEADLOCK FALSE
