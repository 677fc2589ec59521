------------------------- MODULE MCPlaylistMappings -------------------------
(* PlaylistMappings on small instances.                                     *)
EXTENDS PlaylistMappings

Both == <<"m1", "m2">>
AllFaults == {"partial", "raise", "crash"}

Copy(from, to, how, allow) == [from |-> from, to |-> to, how |-> how, allow |-> allow]

\* Two mappings into one playlist, two between the same playlists, and a pair
\* of which one is stopped by the mass delete guard whenever it would remove.
\* What a mirror writes to, nobody else does.
SmallSetups ==
    {[m \in {"m1", "m2"} |-> IF m = "m1" THEN one ELSE two] :
        <<one, two>> \in
            {<<Copy("a", "c", "managed_only", TRUE), Copy("b", "c", "managed_only", TRUE)>>,
             <<Copy("a", "b", "mirror", TRUE), Copy("b", "a", "managed_only", TRUE)>>,
             <<Copy("a", "c", "managed_only", FALSE), Copy("b", "c", "add_only", TRUE)>>}}
=============================================================================
