--------------------------- MODULE MCArtifactStore ---------------------------
(* Stores, remotes and lean runs for model checking the artifact store.    *)
EXTENDS ArtifactStore

CONSTANTS a, b, c,   \* blobs
          f          \* the fingerprint

\* A lean run writes <<a, b>>; on another machine it may have written <<c, b>>.
MCOutputs == [x \in Fps |-> {<<a, b>>, <<c, b>>}]

EmptyStore == [path \in Paths |-> NoFile]

StoreWith(manifest, blobs) ==
    [path \in Paths |-> IF path = ManifestPath(f) THEN manifest
                        ELSE IF path[2] \in blobs THEN path[2] ELSE NoFile]

NoRemote == [manifests |-> [x \in Fps |-> NoFile], blobs |-> [h \in Blobs |-> "absent"]]

RemoteWith(manifest, good, bad) ==
    [manifests |-> [x \in Fps |-> manifest],
     blobs |-> [h \in Blobs |-> IF h \in good THEN "good" ELSE IF h \in bad THEN "bad" ELSE "absent"]]

EmptyStores == {EmptyStore}
EmptyRemotes == {NoRemote}

\* A complete remote, one where a push stopped after a blob, one with a
\* damaged blob, one with a manifest of another shape.
OddRemotes == {RemoteWith(<<c, b>>, {b, c}, {}), RemoteWith(NoFile, {b}, {}),
               RemoteWith(<<c, b>>, {c}, {b}), RemoteWith(<<a>>, {a}, {})}

\* What an earlier gc, and an earlier fetch of a manifest of another shape,
\* leave behind.
OldStores == {EmptyStore, StoreWith(<<a, b>>, {b}), StoreWith(<<a, b>>, {a, b})}

=============================================================================
