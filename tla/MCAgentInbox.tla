---------------------------- MODULE MCAgentInbox ----------------------------
EXTENDS AgentInbox
=============================================================================
