\* Every pair of documents; the property is refuted by a graceful switch that
\* overlaps although a listener cannot be zeroed.
SPECIFICATION Decided
CONSTANT Cases <- CaseTable
CHECK_DEADLOCK FALSE
INVARIANT EveryInboundZeroable
