CONSTANTS
  Uploads = {u1, u2}
  Downloads = {d}
  Together = {{u1, u2}, {u1, d}, {u2, d}}
  Known = {u2}
  Chunks = 2
  Window = 2
  UploadSlots = 1
  DownloadSlots = 1
  RetryLimit = 2
  JsonLimit = 2
  MaxFaults = 2
  Faults = {"cut", "dead", "slow", "crash", "retry", "rollback", "mismatch", "expire", "bad", "proof", "pause", "again", "logout", "quit"}
SPECIFICATION FairSpec
INVARIANTS CompletedIsTrue AnswersAccounted
PROPERTY TransferSettles
CHECK_DEADLOCK FALSE
