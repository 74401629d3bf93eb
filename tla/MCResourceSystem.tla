-------------------------- MODULE MCResourceSystem --------------------------
\* Instances of ResourceSystem.
EXTENDS ResourceSystem, TLC

CONSTANTS scene, texture

\* A resource with one dependency.
Chain == (scene :> {texture}) @@ (texture :> {})
=============================================================================
