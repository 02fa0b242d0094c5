------------------------- MODULE MCGraphCoordinator -------------------------
(***************************************************************************)
(* Small plans for GraphCoordinator.  Each is a set of constant values that *)
(* a configuration picks by name.                                          *)
(***************************************************************************)
EXTENDS CoordinatorInvariant, TLC

\* Chain: a user run whose task 2 needs task 1, and a background run whose
\* task 3 competes with task 1 for the only worker of resource "media".
ChainRunOf == (1 :> "user") @@ (2 :> "user") @@ (3 :> "auto")
ChainGroupOf == (1 :> "g1") @@ (2 :> "g1") @@ (3 :> "g2")
ChainResourceOf == (1 :> "media") @@ (2 :> "tts") @@ (3 :> "media")
ChainDependsOn == (1 :> {}) @@ (2 :> {1}) @@ (3 :> {})
ChainGroupsOf == ("user" :> <<"g1">>) @@ ("auto" :> <<"g2">>)
ChainLimit == ("media" :> 1) @@ ("tts" :> 1)

\* Season: one run of two episodes in natural order; the first needs two
\* tasks, the second one, and two workers let the second finish first.
SeasonRunOf == (1 :> "user") @@ (2 :> "user") @@ (3 :> "user")
SeasonGroupOf == (1 :> "g1") @@ (2 :> "g1") @@ (3 :> "g2")
SeasonResourceOf == (1 :> "media") @@ (2 :> "media") @@ (3 :> "media")
SeasonDependsOn == (1 :> {}) @@ (2 :> {1}) @@ (3 :> {})
SeasonGroupsOf == ("user" :> <<"g1", "g2">>)
SeasonLimit == ("media" :> 2)

\* Cover: one run of two volumes.  The first publishes its narration (1) and
\* composes a video of its cover and that narration (2); a task of the second
\* (3) waits for the only worker of the file system, so it is admitted when task
\* 1 has ended and the destination of task 1 may be locked.
CoverRunOf == (1 :> "user") @@ (2 :> "user") @@ (3 :> "user")
CoverGroupOf == (1 :> "g1") @@ (2 :> "g1") @@ (3 :> "g2")
CoverResourceOf == (1 :> "filesystem") @@ (2 :> "media") @@ (3 :> "filesystem")
CoverDependsOn == (1 :> {}) @@ (2 :> {1}) @@ (3 :> {})
CoverGroupsOf == ("user" :> <<"g1", "g2">>)
CoverLimit == ("filesystem" :> 1) @@ ("media" :> 1)

\* Join: as Season, but the last task of the first episode needs two others.
JoinRunOf == (1 :> "user") @@ (2 :> "user") @@ (3 :> "user") @@ (4 :> "user")
JoinGroupOf == (1 :> "g1") @@ (2 :> "g1") @@ (3 :> "g1") @@ (4 :> "g2")
JoinResourceOf == (1 :> "media") @@ (2 :> "tts") @@ (3 :> "media") @@ (4 :> "media")
JoinDependsOn == (1 :> {}) @@ (2 :> {}) @@ (3 :> {1, 2}) @@ (4 :> {})
JoinGroupsOf == ("user" :> <<"g1", "g2">>)
JoinLimit == ("media" :> 2) @@ ("tts" :> 1)
=============================================================================
