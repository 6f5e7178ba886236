------------------------------ MODULE MCRtpReorder ------------------------------
EXTENDS RtpReorder
================================================================================
