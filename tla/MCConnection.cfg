\* Two channels (channel 0 is never opened): every pair of spool and spawn
\* requests, all interleavings of the goroutines of both, under their fairness.
SPECIFICATION FairSpec
CONSTANT MaxChannel = 2
INVARIANTS NoOrphan KilledOnce SpawnAnsweredOnce LateExplained ChannelUsedOnce
PROPERTIES ConnectionEndKillsWorkers KillRequestEndsWorker RequestsAnswered RefinesWorkers
CHECK_DEADLOCK FALSE
