------------------------------ MODULE MCPlayback --------------------------------
EXTENDS Playback
================================================================================
