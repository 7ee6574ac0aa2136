\* chequebook: three deployment ids for two failed starts and the last one,
\* reverts possible; ChunkPipe: chunks of 2 bytes, writes of 1, 3 and 5
\* (one that fits, one that fills a chunk, one larger than the buffer),
\* 7 bytes in all
CONSTANTS
    TxIds = {t1, t2, t3}
    DepositEnabled = TRUE
    MaxFailures = 2
    None = None
    CanRevert = TRUE
    ChunkSize = 2
    WriteSizes = {1, 3, 5}
    MaxBytes = 7
SPECIFICATION MCSpec
\* Init ends (returned or given up after MaxFailures) and the pipe is
\* finished once both of its ends are closed
CHECK_DEADLOCK FALSE
INVARIANT StoredChequebookDeployed
INVARIANT PipeTypeOK
INVARIANT OnlyLastReadShort
PROPERTY ImplementsPipe
