------------------------------- MODULE MCWatch -------------------------------
(* A game of one file, or that imports a library or embeds a sound. *)
EXTENDS Watch

WatchedFiles == <<"game.spk", "lib.spk", "song.wav">>
TextsOf == [f \in {"game.spk", "lib.spk", "song.wav"} |->
              CASE f = "game.spk" -> {"imports lib", "embeds song"}
                [] f = "lib.spk" -> {"lib", "bad lib"}
                [] f = "song.wav" -> {"song", "other song"}]
ImportsOf == [t \in {"imports lib", "embeds song", "lib", "bad lib", "song", "other song", "missing"} |->
              CASE t = "imports lib" -> {"lib.spk"}
                [] t = "embeds song" -> {"song.wav"}
                [] OTHER -> {}]
=============================================================================
