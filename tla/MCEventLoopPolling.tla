-------------------------- MODULE MCEventLoopPolling --------------------------
EXTENDS EventLoopPolling
===============================================================================
