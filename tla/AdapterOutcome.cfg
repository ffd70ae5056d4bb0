SPECIFICATION FairSpec
INVARIANTS TypeOK ZeroIsProven SummaryIsTrue NoCodexBehindASummary
PROPERTY InterruptEnds
\* The adapter is one process: it ends.
CHECK_DEADLOCK FALSE
