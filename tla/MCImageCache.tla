---------------------------- MODULE MCImageCache ----------------------------
(* Small instances of ImageCache for TLC. *)
EXTENDS ImageCache, TLC

CONSTANTS MaxMemoryImageCache   \* docs/config.md: number of images to cache

Get(scale) == [op |-> "get", scale |-> scale]
Set(scale) == [op |-> "set", scale |-> scale]

\* One command per path of the handlers: gets of "zero" and "smaller" take the
\* same one, and so do sets of "smaller" and "larger".
AllCommands ==
    {Get("larger"), Get("native"), Get("smaller"),
     Set("larger"), Set("native"), Set("zero")}
CoreCommands == {Get("smaller"), Get("native"), Set("native")}
NativeCommands == {Get("native"), Set("native")}
GetCommands == {Get("native")}

Symmetry == Permutations(Reqs) \cup Permutations(Workers)

\* docs/config.md:20: max_memory_image_cache is the "Number of images to
\* cache".  No code reads it: the cache holds one image per key asked for.
CacheBounded ==
    Cardinality({k \in Keys : cache[k].present}) <= MaxMemoryImageCache
=============================================================================
