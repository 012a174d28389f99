------------------------------ MODULE MCSetup ------------------------------
(***************************************************************************)
(* Setup with the default Wine prefix and another one on a mounted disk,   *)
(* each with or without the game, for TLC.                                 *)
(***************************************************************************)
EXTENDS Setup

MCWalkOrder == <<"wine", "drive", "game", "logs", "mnt", "drive2", "game2">>
MCParent == [wine |-> "none", drive |-> "wine", game |-> "drive", logs |-> "game",
             mnt |-> "none", drive2 |-> "mnt", game2 |-> "drive2"]
MCDriveC == [d \in Dirs |-> CASE d = "wine" -> "drive" [] d = "mnt" -> "drive2" [] OTHER -> "none"]
MCSearchRoots == <<"wine">>

MCBase == [d \in Dirs |-> "wine"]
MCPrefix == [d \in Dirs |-> IF d \in {"mnt", "drive2", "game2"} THEN "mnt" ELSE "wine"]

Holding(game, logsDir, game2) ==
  [d \in Dirs |-> CASE d = "game" -> game [] d = "logs" -> logsDir
                    [] d = "game2" -> game2 [] OTHER -> {}]
MCDisks == {Holding({"game"}, {"power"}, {"game"}), Holding({}, {}, {"power"})}

\* The name a user types instead of the suggested one: it differs in case.
MCTyped == {[Profile("wine", 1) EXCEPT !.upper = TRUE]}

\* A log.config with the user's own settings, in two spellings, and none.
Mine == Name("Mine")
MCFirstLogs ==
  {[wine |-> <<Section(Other("Power"), Name("Level") :> "on" @@ Other("Verbose") :> "on"
                                         @@ Mine :> "x"),
               Section(Name("Own"), Name("Verbose") :> "x" @@ Name("Level") :> "off")>>,
    mnt |-> <<>>]}

Old == Profile("old", 1)
MCFirstFiles ==
  {NoFile, Broken,
   Document(Defaults, <<Install("none", "logs")>>),
   Document(Config(Old :> Install("game2", "game2"), Old, "tall", "default"), None)}
=============================================================================
