---------------------------- MODULE MCActorRuntime ----------------------------
EXTENDS ActorRuntime

=============================================================================
