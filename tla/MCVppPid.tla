------------------------------ MODULE MCVppPid ------------------------------
\* VppPid with processes before and after the daemon's own.
EXTENDS VppPid
=============================================================================
