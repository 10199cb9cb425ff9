--------------------------- MODULE MCEventDispatch ---------------------------
EXTENDS EventDispatch, TLC

CONSTANTS tag, file, daily, site, created, updated

\* file answers a new document with another, not its own; daily makes one that
\* file answers; tag calls a webhook that is subscribed to updates as well.
Triggers      == (file :> created) @@ (tag :> updated) @@ (daily :> Date)
Deeds         == (file :> created) @@ (tag :> site) @@ (daily :> created)
Subscriptions == site :> {updated}

==============================================================================
