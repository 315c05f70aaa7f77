----------------------------- MODULE MCEventHub -----------------------------
EXTENDS EventHub

=============================================================================
