-------------------------- MODULE MCServiceControl ---------------------------
\* An editor that saves a few times while it starts and stops the daemon.
EXTENDS ServiceControl
=============================================================================
