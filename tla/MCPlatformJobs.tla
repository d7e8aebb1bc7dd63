---------------------------- MODULE MCPlatformJobs ----------------------------
EXTENDS PlatformJobs

\* A fully controllable job type, and one that cannot be cancelled.
MCTypes == {Capabilities, Capabilities \ {"cancellable"}}
=============================================================================
