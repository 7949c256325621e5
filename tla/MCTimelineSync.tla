---------------------------- MODULE MCTimelineSync ----------------------------
EXTENDS TimelineSync
=============================================================================
