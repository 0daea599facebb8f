---------------------------- MODULE MCLifecycle ----------------------------
\* Lifecycle for TLC: two torrents, so that one may stop while another starts.
EXTENDS Lifecycle
CONSTANTS t1, t2
MCIntervals == <<1, 2, 3>>
=============================================================================
