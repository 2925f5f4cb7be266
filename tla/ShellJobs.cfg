\* Three children at a time, one fork that fails.
\* Nothing happens once the shell is gone.
SPECIFICATION FairSpec
CONSTANTS
  Pids = {p1, p2, p3}
  Shell = Shell
  NoPid = NoPid
  MaxFailures = 1
INVARIANTS TypeOK TerminalOK NumBackOK ForegroundOK
PROPERTIES PromptAgain WaitReturns
CHECK_DEADLOCK FALSE
