------------------------ MODULE MCProviderRequests ------------------------
(* Two calls of one read, of an operation with a deadline and of one       *)
(* without, and another read that spends the budget of the first.          *)
EXTENDS ProviderRequests, TLC

CONSTANTS c1, c2, c3, listing, panel, anilist, tsukihime, page

Threads == {c1, c2, c3}
Page == c1 :> page @@ c2 :> page @@ c3 :> NoKey
Scopes == {listing, panel}
Scope == c1 :> panel @@ c2 :> listing @@ c3 :> listing
Deadlines == {listing}
Reads == anilist :> (listing :> 1 @@ panel :> 2) @@ tsukihime :> (listing :> 2 @@ panel :> 2)
Both == {anilist, tsukihime}
Windows == anilist :> {<<1, 1>>} @@ tsukihime :> {<<1, 1>>, <<2, 3>>}
Delay == anilist :> {0, 1, 2} @@ tsukihime :> {0}
=============================================================================
