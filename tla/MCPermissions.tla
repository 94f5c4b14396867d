--------------------------- MODULE MCPermissions ---------------------------
\* Two tabs outside private mode and one in it, on either of two sites, one of
\* which requests name in another way than the chrome does.
EXTENDS Permissions

CONSTANTS home, work, workSlash

MCSpelled == (home :> home) @@ (work :> workSlash)
=============================================================================
