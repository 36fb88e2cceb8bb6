----------------------------- MODULE MCKeyMoves -----------------------------
EXTENDS KeyMoves, TLC

CONSTANTS owner, holder

\* The owner's commands, one at a time, beside the connects of the agent's own holder.
MCJobs == (owner :> {"rotate", "recover", "cancel"}) @@ (holder :> {"connect"})

\* Without a cancel, which a recovery that has taken effect does not survive either.
MCMoves == (owner :> {"rotate", "recover"}) @@ (holder :> {"connect"})
=============================================================================
