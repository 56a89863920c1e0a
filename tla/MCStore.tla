------------------------------ MODULE MCStore ------------------------------
\* A ledger and a durable budget, two writes of each, and a series of three
\* records; the process is killed twice and the power fails once.
EXTENDS Store
=============================================================================
