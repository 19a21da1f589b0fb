---------------------------- MODULE MCSourceCache ----------------------------
(* Two workspaces that share a dependency, for model checking the source    *)
(* cache.                                                                   *)
EXTENDS SourceCache

CONSTANTS dep, branch, refused, local

\* One workspace also has a path dependency, one also pins a branch, and one
\* has a manifest that is refused.
MCManifests == {<<dep, local>>, <<branch, dep>>, <<refused>>}

=============================================================================
